---------------------------- MODULE AtomicTree ----------------------------
(***************************************************************************)
(* What lookup and link promise (REFERENCE.md, Operations and Atomicity):  *)
(* a lookup of any number of paths reads one version of the tree; a link   *)
(* of any number of paths, with its assertions, happens in one step or not *)
(* at all, and its answer describes the version it made.                   *)
(***************************************************************************)
EXTENDS Integers, NameTree

CONSTANTS
  Callers,
  Lookups,    \* sequences of paths that are looked up together
  Batches     \* sequences of requests that are linked together

VARIABLES
  tree,       \* the current version
  version,    \* its number
  answer      \* the last answer each caller got

vars == <<tree, version, answer>>

NoAnswer == [serial |-> 0, nodes |-> <<>>]

Entries(b) == {b[i] : i \in 1..Len(b)}

(* What a version says of some paths. *)
Answer(t, n, ps) == [serial |-> n, nodes |-> [p \in ps |-> At(t, p)]]

(* What a caller last saw at a path; nil if it did not look. *)
Seen(a, p) == IF p \in DOMAIN a.nodes THEN a.nodes[p] ELSE Missing

(* The node a request puts in place: what the caller saw elsewhere for a   *)
(* move, else what it uploaded.                                            *)
Value(a, r) == IF r.from # {} THEN Seen(a, CHOOSE p \in r.from : TRUE) ELSE r.new

(* An assertion that the node to be replaced is the one the caller saw.    *)
Holds(t, a, r) == r.unchanged => At(t, r.path) = Seen(a, r.path)

(* The batch, request by request. *)
Applied(t, a, b) ==
  LET after[i \in 0..Len(b)] ==
        IF i = 0 THEN t ELSE Put(after[i - 1], b[i].path, Value(a, b[i]))
  IN after[Len(b)]

Init ==
  /\ tree = [p \in {<<>>} |-> Dir]
  /\ version = 1
  /\ answer = [c \in Callers |-> NoAnswer]

Lookup(c, ps) ==
  /\ answer' = [answer EXCEPT ![c] = Answer(tree, version, Entries(ps))]
  /\ UNCHANGED <<tree, version>>

Link(c, b) ==
  LET new == Applied(tree, answer[c], b) IN
  /\ version' = version + 1
  /\ \A r \in Entries(b) : Holds(tree, answer[c], r)
  /\ tree' = new
  /\ answer' = [answer EXCEPT ![c] = Answer(new, version + 1, {r.path : r \in Entries(b)})]

Next ==
  \E c \in Callers :
    \/ \E ps \in Lookups : Lookup(c, ps)
    \/ version' = version + 1 /\ \E b \in Batches : Link(c, b)

Spec == Init /\ [][Next]_vars
=============================================================================
