------------------------------ MODULE NameTree ------------------------------
(***************************************************************************)
(* The trees a name store works on, as values. A node is a function from   *)
(* the paths below it to what is there, Dir or a file; its own path is the *)
(* empty one. Nodes are immutable and content-addressed, so a node also    *)
(* stands for its address. No node at all (a nil address) is the function  *)
(* with the empty domain.                                                  *)
(***************************************************************************)
EXTENDS Sequences, SequencesExt

CONSTANT Dir

Missing == <<>>

Rest(p, q) == SubSeq(q, Len(p) + 1, Len(q))

Inside(t, p) == {q \in DOMAIN t : IsPrefix(p, q)}

(* The node at a path, as resolveFromLocal finds it. *)
At(t, p) == [r \in {Rest(p, q) : q \in Inside(t, p)} |-> t[p \o r]]

(* The tree with node v at p, whatever was there: what recursiveLink makes. *)
Put(t, p, v) ==
  [q \in (DOMAIN t \ Inside(t, p)) \union {p \o r : r \in DOMAIN v} |->
     IF IsPrefix(p, q) THEN v[Rest(p, q)] ELSE t[q]]

IsDir(v) == <<>> \in DOMAIN v /\ v[<<>>] = Dir
IsFile(v) == <<>> \in DOMAIN v /\ v[<<>>] # Dir

(* p is a place where an entry can be made: its parent is a directory.     *)
InDirectory(t, p) == p # <<>> => IsDir(At(t, Front(p)))

(* Every entry is in a directory. *)
WellFormed(t) == \A p \in DOMAIN t : InDirectory(t, p)
=============================================================================
