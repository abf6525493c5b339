------------------------------ MODULE PinStore ------------------------------
(***************************************************************************)
(* What the rest of grits is entitled to assume about the blob store: a    *)
(* blob somebody holds a reference on, or that somebody asked to keep for  *)
(* a while, stays readable; everything else may disappear at any moment.   *)
(* BlobStore is shown to implement this module.                            *)
(***************************************************************************)
EXTENDS Naturals

CONSTANT Addr

VARIABLES
  stored,     \* blobs whose complete contents can be read
  pins,       \* how many references are outstanding on each blob
  guarded     \* blobs whose requested lifetime has not run out

vars == <<stored, pins, guarded>>

Init ==
  /\ stored = {}
  /\ pins = [a \in Addr |-> 0]
  /\ guarded = {}

Forgettable == {a \in Addr : pins[a] = 0 /\ a \notin guarded}

(* Store a blob, or find it stored, and take one reference on it. *)
Put(a) ==
  /\ stored' = stored \union {a}
  /\ pins' = [pins EXCEPT ![a] = @ + 1]
  /\ UNCHANGED guarded

(* Give a reference back; the last one may take an unguarded blob along. *)
Unpin(a) ==
  /\ pins[a] > 0
  /\ pins' = [pins EXCEPT ![a] = @ - 1]
  /\ stored' \in {stored, stored \ {a}}
  /\ a \notin stored' => pins[a] = 1 /\ a \notin guarded
  /\ UNCHANGED guarded

Forget ==
  /\ \E S \in SUBSET Forgettable : stored' = stored \ S
  /\ UNCHANGED <<pins, guarded>>

Guard(a) ==
  /\ pins[a] > 0
  /\ guarded' \in {guarded \union {a}, guarded \ {a}}
  /\ UNCHANGED <<stored, pins>>

(* Time passes: lifetimes run out. *)
Lapse ==
  /\ guarded' \in SUBSET guarded
  /\ UNCHANGED <<stored, pins>>

(* The process ends: its references are gone, the guards are not. *)
LoseReferences ==
  /\ pins' = [a \in Addr |-> 0]
  /\ UNCHANGED <<stored, guarded>>

Next ==
  \/ \E a \in Addr : Put(a) \/ Unpin(a) \/ Guard(a)
  \/ Forget
  \/ Lapse
  \/ LoseReferences

Spec == Init /\ [][Next]_vars
=============================================================================
