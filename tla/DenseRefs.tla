----------------------------- MODULE DenseRefs -----------------------------
(***************************************************************************)
(* internal/grits/namestore.go: DenseRefManager, which keeps every node of *)
(* the current tree loaded, and the two operations that move the root,     *)
(* MultiLink (its commit) and DeserializeNameStore.                        *)
(*                                                                         *)
(* Metadata is content addressed: a node's children are fixed by its       *)
(* address, so the tree below a node is the constant Child and sharing one *)
(* subtree in several places is the normal case. The manager counts, for   *)
(* every node of a tree it keeps, the names that lead to it from other     *)
(* kept nodes plus the times it was taken as a root; a node's own subtree  *)
(* is walked only when its count leaves or reaches zero.                   *)
(*                                                                         *)
(* recursiveTake and recursiveRelease run under treeMtx, but between two   *)
(* steps of theirs blobs arrive and vanish and readers give nodes back, so *)
(* the recursion is modelled call by call: stack is its call stack. The    *)
(* order in which Go ranges over a directory's map is not fixed.           *)
(***************************************************************************)
EXTENDS Integers, Sequences, FiniteSets

CONSTANTS
  Node,       \* metadata addresses
  Name,       \* names of directory entries
  NoNode,
  Child,      \* Child[n][x]: what the name x leads to in n, or NoNode
  Rank,       \* a measure that decreases from a directory to its entries
  Empty,      \* the empty directory EmptyNameStore starts with
  Readers     \* who look up under RLockTree

ASSUME NodeAssumption == NoNode \notin Node /\ Empty \in Node
ASSUME FiniteAssumption == IsFiniteSet(Node) /\ IsFiniteSet(Name) /\ IsFiniteSet(Readers)
ASSUME ChildAssumption ==
  /\ Child \in [Node -> [Name -> Node \union {NoNode}]]
  /\ \A x \in Name : Child[Empty][x] = NoNode
ASSUME RankAssumption ==
  /\ Rank \in [Node -> Nat]
  /\ \A n \in Node, x \in Name : Child[n][x] # NoNode => Rank[Child[n][x]] < Rank[n]

VARIABLES
  stored,     \* nodes whose metadata and content are in the blob store
  cached,     \* ns.fileCache: the nodes that are loaded
  nodeRefs,   \* FileNode.refCount
  rc,         \* DenseRefManager.refCount, 0 where it has no entry
  root,       \* ns.rootAddr
  op,         \* the operation that holds treeMtx, or "none"
  next,       \* the root it installs
  mode,       \* what the manager is doing for it
  stack,      \* the call stack of recursiveTake or recursiveRelease
  taken,      \* how often each node is in the list recursiveTake keeps for an error
  origin,     \* where the first root comes from: DeserializeNameStore may only be
              \* called on a new store
  held        \* the node each reader has a reference on

counts == <<nodeRefs, rc>>
task == <<op, next, mode, stack, taken>>
vars == <<stored, cached, counts, root, origin, task, held>>

Nothing == [n \in Node |-> 0]

Init ==
  /\ stored = {Empty}
  /\ cached = {Empty}
  /\ nodeRefs = [Nothing EXCEPT ![Empty] = 1]
  /\ rc = [Nothing EXCEPT ![Empty] = 1]
  /\ root = Empty
  /\ origin = "new"
  /\ op = "none"
  /\ next = NoNode
  /\ mode = "idle"
  /\ stack = <<>>
  /\ taken = Nothing
  /\ held = [r \in Readers |-> NoNode]

Names(n) == {x \in Name : Child[n][x] # NoNode}

Loadable == stored \union cached

Top == stack[Len(stack)]

(* A call for n, reached by the name x of the call that is running.        *)
Frame(n, x) == [node |-> n, left |-> Names(n), via |-> x]

(* The call below returns: the name it was made for is dealt with.         *)
Without(s, x) ==
  IF s = <<>> THEN s ELSE [s EXCEPT ![Len(s)].left = @ \ {x}]

Caller == SubSeq(stack, 1, Len(stack) - 1)
-----------------------------------------------------------------------------
(* A blob arrives, by an upload or a fetch.                                *)
Store(n) ==
  /\ stored' = stored \union {n}
  /\ UNCHANGED <<cached, counts, root, origin, task, held>>

(* The blob store drops what nobody references.                            *)
Evict(n) ==
  /\ n \in stored \ cached
  /\ stored' = stored \ {n}
  /\ UNCHANGED <<cached, counts, root, origin, task, held>>

(* MultiLink has built its new root, DeserializeNameStore has loaded the   *)
(* saved one, and calls recursiveTake.                                     *)
Begin(o, n) ==
  /\ mode = "idle"
  /\ n \in Loadable
  /\ o = "open" => origin = "new"
  /\ origin' = IF o = "link" /\ origin = "new" THEN "linked" ELSE origin
  /\ cached' = cached \union {n}
  /\ op' = o
  /\ next' = n
  /\ mode' = "take"
  /\ UNCHANGED <<stored, counts, root, stack, taken, held>>

Mut_TakeUnlisted(n, x) ==
  /\ rc[n] > 0
  /\ rc' = [rc EXCEPT ![n] = @ + 1]
  /\ stack' = Without(stack, x)
  /\ UNCHANGED taken

(* recursiveTake on a node that has a count: one more.                     *)
TakeKnown(n, x) ==
  /\ rc[n] > 0
  /\ rc' = [rc EXCEPT ![n] = @ + 1]
  /\ taken' = [taken EXCEPT ![n] = @ + 1]
  /\ stack' = Without(stack, x)

(* recursiveTake on a node that has none: its children come first.         *)
TakeNew(n, x) ==
  /\ rc[n] = 0
  /\ stack' = Append(stack, Frame(n, x))
  /\ UNCHANGED <<rc, taken>>

(* The call for the new root itself.                                       *)
TakeRoot ==
  /\ mode = "take"
  /\ stack = <<>>
  /\ \/ TakeNew(next, NoNode) /\ UNCHANGED mode
     \/ TakeKnown(next, NoNode) /\ mode' = "taken"
  /\ UNCHANGED <<stored, cached, nodeRefs, root, origin, op, next, held>>

(* One round of the loop over the children.                                *)
TakeChild ==
  /\ mode = "take"
  /\ stack # <<>>
  /\ \E x \in Top.left :
       LET n == Child[Top.node][x] IN
       /\ n \in Loadable
       /\ cached' = cached \union {n}
       /\ TakeKnown(n, x) \/ TakeNew(n, x)
  /\ UNCHANGED <<stored, nodeRefs, root, origin, op, next, mode, held>>

Mut_TakeFailsIgnored ==
  /\ mode = "take"
  /\ stack # <<>>
  /\ \E x \in Top.left : Child[Top.node][x] \notin Loadable
  /\ mode' = "taken"
  /\ stack' = <<>>
  /\ UNCHANGED <<stored, cached, counts, root, origin, op, next, taken, held>>

(* A child that cannot be loaded: the call fails, and so does every caller. *)
TakeFails ==
  /\ mode = "take"
  /\ stack # <<>>
  /\ \E x \in Top.left : Child[Top.node][x] \notin Loadable
  /\ mode' = "undo"
  /\ stack' = <<>>
  /\ UNCHANGED <<stored, cached, counts, root, origin, op, next, taken, held>>

(* All children are taken: the node gets its count, and a reference.       *)
TakeDone ==
  /\ mode = "take"
  /\ stack # <<>>
  /\ Top.left = {}
  /\ rc' = [rc EXCEPT ![Top.node] = 1]
  /\ nodeRefs' = [nodeRefs EXCEPT ![Top.node] = @ + 1]
  /\ taken' = [taken EXCEPT ![Top.node] = @ + 1]
  /\ stack' = Without(Caller, Top.via)
  /\ mode' = IF Caller = <<>> THEN "taken" ELSE mode
  /\ UNCHANGED <<stored, cached, root, origin, op, next, held>>

Finished ==
  /\ op' = "none"
  /\ next' = NoNode
  /\ mode' = "idle"
  /\ taken' = Nothing

Mut_ListedTwice(n) == taken[n] > 1

(* n is still in the list to roll back. *)
Listed(n) == taken[n] > 0

(* releaseTaken drops a node's entry and its reference with the last count. *)
UndoneLast(n) == rc[n] <= 1

(* One round of the loop of releaseTaken.                                  *)
Undo ==
  /\ mode = "undo"
  /\ \E n \in Node :
       /\ Listed(n)
       /\ taken' = [taken EXCEPT ![n] = @ - 1]
       /\ \/ /\ UndoneLast(n)
             /\ rc' = [rc EXCEPT ![n] = 0]
             /\ nodeRefs' = [nodeRefs EXCEPT ![n] = @ - 1]
          \/ /\ ~UndoneLast(n)
             /\ rc' = [rc EXCEPT ![n] = @ - 1]
             /\ UNCHANGED nodeRefs
  /\ UNCHANGED <<stored, cached, root, origin, op, next, mode, stack, held>>

(* The operation returns the error; the tree is as it was.                 *)
Undone ==
  /\ mode = "undo"
  /\ taken = Nothing
  /\ Finished
  /\ UNCHANGED <<stored, cached, counts, root, origin, stack, held>>

(* DeserializeNameStore installs its root and forgets to release the empty *)
(* one it replaces.                                                        *)
Open ==
  /\ mode = "taken"
  /\ op = "open"
  /\ root' = next
  /\ origin' = "opened"
  /\ Finished
  /\ UNCHANGED <<stored, cached, counts, stack, held>>

(* recursiveRelease on a node with other counts: one less.                 *)
ReleaseShared(n, x) ==
  /\ rc[n] > 1
  /\ rc' = [rc EXCEPT ![n] = @ - 1]
  /\ stack' = Without(stack, x)

(* recursiveRelease on the last count: its children come first.            *)
ReleaseLast(n, x) ==
  /\ rc[n] = 1
  /\ stack' = Append(stack, Frame(n, x))
  /\ UNCHANGED rc

(* MultiLink releases the root it replaces.                                *)
ReleaseRoot ==
  /\ mode = "taken"
  /\ op = "link"
  /\ \/ ReleaseShared(root, NoNode) /\ mode' = "released"
     \/ ReleaseLast(root, NoNode) /\ mode' = "release"
  /\ UNCHANGED <<stored, cached, nodeRefs, root, origin, op, next, taken, held>>

(* The child is loaded, and has a count: the code's other branches are a   *)
(* log.Fatalf and a "Can't happen!" that would leave the counts half       *)
(* released (ReleaseCannotFail).                                           *)
ReleaseChild ==
  /\ mode = "release"
  /\ stack # <<>>
  /\ \E x \in Top.left :
       LET n == Child[Top.node][x] IN
       /\ n \in cached
       /\ ReleaseShared(n, x) \/ ReleaseLast(n, x)
  /\ UNCHANGED <<stored, cached, nodeRefs, root, origin, op, next, mode, taken, held>>

ReleaseDone ==
  /\ mode = "release"
  /\ stack # <<>>
  /\ Top.left = {}
  /\ rc' = [rc EXCEPT ![Top.node] = 0]
  /\ nodeRefs' = [nodeRefs EXCEPT ![Top.node] = @ - 1]
  /\ stack' = Without(Caller, Top.via)
  /\ mode' = IF Caller = <<>> THEN "released" ELSE mode
  /\ UNCHANGED <<stored, cached, root, origin, op, next, taken, held>>

Commit ==
  /\ mode = "released"
  /\ root' = next
  /\ Finished
  /\ UNCHANGED <<stored, cached, counts, origin, stack, held>>

Closed(S) == \A n \in S : \A x \in Names(n) : Child[n][x] \in S

(* The tree below each node: the least closed set it is in.                *)
Below == [n \in Node |->
            {m \in Node : \A S \in SUBSET Node : n \in S /\ Closed(S) => m \in S}]

(* A reader resolves a path in the current tree, under RLockTree, as       *)
(* handleLookup does. (Without that lock a node may be dropped between its *)
(* load and Take, which NodeCache is about.)                               *)
LookupNode(r, n) ==
  /\ mode = "idle"
  /\ held[r] = NoNode
  /\ n \in Below[root] \intersect Loadable
  /\ cached' = cached \union {n}
  /\ nodeRefs' = [nodeRefs EXCEPT ![n] = @ + 1]
  /\ held' = [held EXCEPT ![r] = n]
  /\ UNCHANGED <<stored, rc, root, origin, task>>

(* FileNode.Release takes no lock of the tree.                             *)
ReleaseNode(r) ==
  /\ held[r] # NoNode
  /\ nodeRefs' = [nodeRefs EXCEPT ![held[r]] = @ - 1]
  /\ held' = [held EXCEPT ![r] = NoNode]
  /\ UNCHANGED <<stored, cached, rc, root, origin, task>>

Unreferenced == {n \in cached : nodeRefs[n] = 0}

(* cleanup, under treeMtx: loaded nodes nobody references are dropped with *)
(* their blobs.                                                            *)
Cleanup ==
  /\ mode = "idle"
  /\ cached' = cached \ Unreferenced
  /\ UNCHANGED <<stored, counts, root, origin, task, held>>

TreeStep ==
  \/ TakeRoot \/ TakeChild \/ TakeFails \/ TakeDone
  \/ Undo \/ Undone
  \/ Open
  \/ ReleaseRoot \/ ReleaseChild \/ ReleaseDone
  \/ Commit

Next ==
  \/ \E n \in Node : Store(n) \/ Evict(n)
  \/ \E o \in {"link", "open"}, n \in Node : Begin(o, n)
  \/ TreeStep
  \/ \E r \in Readers, n \in Node : LookupNode(r, n)
  \/ \E r \in Readers : ReleaseNode(r)
  \/ Cleanup

Spec == Init /\ [][Next]_vars

(* The goroutine that holds treeMtx runs on.                               *)
FairSpec == Spec /\ WF_vars(TreeStep)
-----------------------------------------------------------------------------
(* Every variable has its type.                                            *)
TypeOK ==
  /\ stored \subseteq Node
  /\ cached \subseteq Node
  /\ nodeRefs \in [Node -> Nat]
  /\ rc \in [Node -> Nat]
  /\ root \in Node
  /\ origin \in {"new", "linked", "opened"}
  /\ op \in {"none", "link", "open"}
  /\ next \in Node \union {NoNode}
  /\ mode \in {"idle", "take", "taken", "undo", "release", "released"}
  /\ stack \in Seq([node : Node, left : SUBSET Name, via : Name \union {NoNode}])
  /\ taken \in [Node -> Nat]
  /\ held \in [Readers -> Node \union {NoNode}]

Running(n) == {i \in 1..Len(stack) : stack[i].node = n}

(* The name x of n has been counted at the node it leads to: all names of  *)
(* a node with a count, the names a running recursiveTake has dealt with,  *)
(* the names a running recursiveRelease has still to deal with.            *)
Counts(n, x) ==
  /\ x \in Names(n)
  /\ IF Running(n) = {} THEN rc[n] > 0
     ELSE \A i \in Running(n) : x \in stack[i].left <=> mode = "release"

NamesOf(m) == {e \in Node \X Name : Counts(e[1], e[2]) /\ Child[e[1]][e[2]] = m}

One(b) == IF b THEN 1 ELSE 0

(* The top-level takes that nothing has released: the current root, the    *)
(* root being installed, the empty root DeserializeNameStore leaves behind. *)
Pins(n) ==
    One(n = root /\ mode # "released")
  + One(n = next /\ mode \in {"taken", "release", "released"})
  + One(n = Empty /\ origin = "opened")

(* recursiveTake, releaseTaken and recursiveRelease: the count of a node   *)
(* is, at every moment of a walk and whatever failed before, the number of *)
(* names that lead to it from counted nodes plus its top-level takes. In   *)
(* particular a failed take leaves no count behind.                        *)
CountsAreNames ==
  mode # "undo" => \A n \in Node : rc[n] = Pins(n) + Cardinality(NamesOf(n))

(* Take and Release of a FileNode call log.Fatalf below zero and cleanup   *)
(* calls log.Panicf for a counted node without references: a node's        *)
(* references are the manager's one, if it has a count, and the readers'.  *)
NodeRefsExact ==
  \A n \in Node :
    nodeRefs[n] = One(rc[n] > 0) + Cardinality({r \in Readers : held[r] = n})

(* cleanup against lookups and commits: every node of the current tree,    *)
(* and every node a reader holds, stays loaded and so keeps its blobs,     *)
(* also when the commit of another tree fails half way.                    *)
TreeStaysWhole ==
  /\ Below[root] \subseteq cached
  /\ \A r \in Readers : held[r] # NoNode => held[r] \in cached

(* recursiveRelease: "Can't happen! Can't load %s in dense ref manager",   *)
(* "can't find %s in ref count to release" and the log.Fatalf of the       *)
(* rollback in MultiLink: every child of a node being released is loaded   *)
(* and has a count.                                                        *)
ReleaseCannotFail ==
  mode = "release" /\ stack # <<>> =>
    \A x \in Top.left : Child[Top.node][x] \in cached /\ rc[Child[Top.node][x]] > 0

(* MultiLink and DeserializeNameStore: the walk of a take, of its rollback *)
(* and of a release come to an end, and treeMtx is given back.             *)
OperationsEnd == mode # "idle" ~> mode = "idle"

(* The name store keeps what TreeStore promises its readers.               *)
Tree == INSTANCE TreeStore WITH kept <- cached
ImplementsTreeStore == Tree!Spec
=============================================================================
