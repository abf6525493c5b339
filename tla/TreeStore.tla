----------------------------- MODULE TreeStore -----------------------------
(***************************************************************************)
(* What a reader of a volume may rely on: there is always one current      *)
(* tree, it changes from one whole tree to another in one step, every node *)
(* of it can be read without fetching anything, and so can a node somebody *)
(* has a reference on. Everything else may be forgotten at any moment.     *)
(***************************************************************************)
CONSTANTS
  Node,
  NoNode,
  Readers,
  Below       \* Below[n]: the nodes of the tree whose root is n

VARIABLES
  root,       \* the current tree
  kept,       \* the nodes that can be read
  held        \* the node each reader has a reference on

vars == <<root, kept, held>>

Held == {held[r] : r \in Readers} \ {NoNode}

Init ==
  /\ root \in Node
  /\ Below[root] \subseteq kept
  /\ held = [r \in Readers |-> NoNode]

Load ==
  /\ kept \subseteq kept'
  /\ UNCHANGED <<root, held>>

Forget ==
  /\ kept' \subseteq kept
  /\ Below[root] \union Held \subseteq kept'
  /\ UNCHANGED <<root, held>>

Install(n) ==
  /\ Below[n] \subseteq kept
  /\ root' = n
  /\ UNCHANGED <<kept, held>>

Hold(r, n) ==
  /\ held[r] = NoNode
  /\ n \in Below[root]
  /\ held' = [held EXCEPT ![r] = n]
  /\ UNCHANGED <<root, kept>>

GiveBack(r) ==
  /\ held' = [held EXCEPT ![r] = NoNode]
  /\ UNCHANGED <<root, kept>>

Next ==
  \/ Load
  \/ Forget
  \/ \E n \in Node : Install(n)
  \/ \E r \in Readers, n \in Node : Hold(r, n)
  \/ \E r \in Readers : GiveBack(r)

Spec == Init /\ [][Next]_vars
=============================================================================
