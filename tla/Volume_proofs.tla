--------------------------- MODULE Volume_proofs ---------------------------
(***************************************************************************)
(* Proofs about Volume, for every set of roots and writers and any number  *)
(* of commits, failing saves, crashes and restarts.                        *)
(***************************************************************************)
EXTENDS Volume, TLAPS

(* persistMtx: one writer at a time, and none while the process is down.   *)
SaverOK ==
  /\ \A v, w \in Writers : stage[v] \in Saving /\ stage[w] \in Saving => v = w
  /\ ~up => \A w \in Writers : stage[w] = "idle" /\ mine[w] = 0

(* The tree in memory is never older than what is being saved or was.      *)
MemoryOK ==
  /\ file.age <= made
  /\ up => /\ file.age <= age
           /\ \A w \in Writers : mine[w] <= age

(* What is about to be written is as new as the writer's own commit and as *)
(* the file it replaces.                                                   *)
StateOK ==
  \A w \in Writers : stage[w] \in Saving =>
    /\ mine[w] <= state[w].age
    /\ file.age <= state[w].age
    /\ state[w].age <= age

(* A serial number is at most one more than the number of commits.         *)
SerialOK ==
  /\ serial <= made + 1
  /\ file.serial \in 1..(made + 1)
  /\ \A w \in Writers : stage[w] = "write" => state[w].serial \in 1..(made + 1)

(* What is about to be written has no number older than its root's.        *)
PairOK ==
  /\ SerialNotBehind
  /\ \A w \in Writers :
       /\ stage[w] = "serial" => state[w].born <= serial
       /\ stage[w] = "write" => state[w].born <= state[w].serial

IInv == TypeOK /\ SaverOK /\ MemoryOK /\ StateOK /\ SerialOK /\ AckedSurvives /\ PairOK
-----------------------------------------------------------------------------
(* The initial states satisfy the inductive invariant. *)
LEMMA Initially == Init => IInv
<1> SUFFICES ASSUME Init PROVE IInv
  OBVIOUS
<1> USE EmptyAssumption, MaxMadeAssumption DEF Init, Blank, Saving
<1>1. TypeOK
  BY DEF TypeOK, States, Serials
<1>2. SaverOK /\ MemoryOK /\ StateOK
  BY DEF SaverOK, MemoryOK, StateOK
<1>3. SerialOK /\ AckedSurvives /\ PairOK
  BY DEF SerialOK, AckedSurvives, PairOK, SerialNotBehind
<1> QED
  BY <1>1, <1>2, <1>3 DEF IInv

(* Every step of the volume preserves the inductive invariant.             *)
LEMMA Step == IInv /\ [Next]_vars => IInv'
<1> SUFFICES ASSUME IInv, [Next]_vars PROVE IInv'
  OBVIOUS
<1> USE EmptyAssumption, MaxMadeAssumption
<1>1. ASSUME NEW r \in Root, Upload(r) \/ Evict(r) PROVE IInv'
  BY <1>1 DEF Upload, Evict, memory, writer, IInv, TypeOK, SaverOK, MemoryOK, StateOK,
              SerialOK, AckedSurvives, PairOK, SerialNotBehind
<1>2. ASSUME NEW w \in Writers, NEW r \in Root, Commit(w, r) PROVE IInv'
  <2> USE <1>2 DEF Commit, IInv, TypeOK, States, Serials, Saving
  <2>1. TypeOK'
    BY DEF SerialOK
  <2>2. SaverOK' /\ MemoryOK'
    BY DEF SaverOK, MemoryOK
  <2>3. StateOK'
    BY DEF StateOK, MemoryOK
  <2>4. SerialOK' /\ AckedSurvives' /\ PairOK'
    BY DEF PairOK, SerialNotBehind, SerialOK, AckedSurvives
  <2> QED
    BY <2>1, <2>2, <2>3, <2>4
<1>3. ASSUME NEW w \in Writers, SaveRoot(w) PROVE IInv'
  <2> USE <1>3 DEF SaveRoot, memory, IInv, TypeOK, States, Serials, Saving
  <2>0. up
    BY DEF SaverOK
  <2>1. TypeOK'
    OBVIOUS
  <2>2. SaverOK' /\ MemoryOK'
    BY <2>0 DEF SaverOK, MemoryOK, CanSave, PersistLockFree
  <2>3. StateOK'
    BY <2>0 DEF StateOK, MemoryOK
  <2>4. SerialOK' /\ AckedSurvives' /\ PairOK'
    BY DEF PairOK, SerialNotBehind, SerialOK, AckedSurvives
  <2> QED
    BY <2>1, <2>2, <2>3, <2>4
<1>4. ASSUME NEW w \in Writers, SaveSerial(w) PROVE IInv'
  <2> USE <1>4 DEF SaveSerial, memory, IInv, TypeOK, States, Serials, Saving
  <2>1. TypeOK'
    OBVIOUS
  <2>2. SaverOK' /\ MemoryOK'
    BY DEF SaverOK, MemoryOK
  <2>3. StateOK'
    BY DEF StateOK
  <2>4. SerialOK' /\ AckedSurvives' /\ PairOK'
    BY DEF PairOK, SerialNotBehind, SerialOK, AckedSurvives
  <2> QED
    BY <2>1, <2>2, <2>3, <2>4
<1>5. ASSUME NEW w \in Writers, SaveFile(w) PROVE IInv'
  <2> USE <1>5 DEF SaveFile, Returns, memory, IInv, TypeOK, States, Serials, Saving, Blank
  <2>1. TypeOK'
    OBVIOUS
  <2>2. SaverOK' /\ MemoryOK'
    BY DEF SaverOK, MemoryOK, StateOK
  <2>3. StateOK'
    BY DEF StateOK, SaverOK
  <2>4. SerialOK' /\ AckedSurvives' /\ PairOK'
    BY DEF PairOK, SerialNotBehind, SerialOK, AckedSurvives, StateOK
  <2> QED
    BY <2>1, <2>2, <2>3, <2>4
<1>6. ASSUME NEW w \in Writers, SaveFails(w) PROVE IInv'
  <2> USE <1>6 DEF SaveFails, Returns, memory, IInv, TypeOK, States, Serials, Saving, Blank
  <2>1. TypeOK'
    OBVIOUS
  <2>2. SaverOK' /\ MemoryOK' /\ StateOK'
    BY DEF SaverOK, MemoryOK, StateOK
  <2>3. SerialOK' /\ AckedSurvives' /\ PairOK'
    BY DEF PairOK, SerialNotBehind, SerialOK, AckedSurvives
  <2> QED
    BY <2>1, <2>2, <2>3
<1>7. CASE Crash
  <2>0. Blank \in States
    BY DEF IInv, TypeOK, Blank, States, Serials
  <2> USE <1>7 DEF Crash, memory, IInv, TypeOK, Saving
  <2>1. TypeOK'
    <3>1. state' \in [Writers -> States]
      BY <2>0
    <3>2. mine' \in [Writers -> 0..made]
      OBVIOUS
    <3>3. stage' \in [Writers -> {"idle", "save", "serial", "write"}]
      OBVIOUS
    <3> QED
      BY <3>1, <3>2, <3>3 DEF States, Serials
  <2>2. SaverOK' /\ MemoryOK' /\ StateOK'
    BY DEF SaverOK, MemoryOK, StateOK
  <2>3. SerialOK' /\ AckedSurvives' /\ PairOK'
    BY DEF PairOK, SerialNotBehind, SerialOK, AckedSurvives
  <2> QED
    BY <2>1, <2>2, <2>3
<1>8. CASE Start
  <2> USE <1>8 DEF Start, SerialIn, writer, IInv, TypeOK, States, Serials, Saving
  <2>0. \A w \in Writers : stage[w] = "idle" /\ mine[w] = 0
    BY DEF SaverOK
  <2>1. TypeOK'
    BY DEF SerialOK, AckedSurvives, MemoryOK
  <2>2. SaverOK' /\ MemoryOK' /\ StateOK'
    BY <2>0 DEF SaverOK, MemoryOK, StateOK
  <2>3. SerialOK' /\ AckedSurvives' /\ PairOK'
    BY <2>0 DEF PairOK, SerialNotBehind, SerialOK, AckedSurvives
  <2> QED
    BY <2>1, <2>2, <2>3
<1>9. CASE UNCHANGED vars
  BY <1>9 DEF vars, memory, writer, IInv, TypeOK, SaverOK, MemoryOK, StateOK, SerialOK,
              AckedSurvives, PairOK, SerialNotBehind
<1> QED
  BY <1>1, <1>2, <1>3, <1>4, <1>5, <1>6, <1>7, <1>8, <1>9 DEF Next

(* The inductive invariant holds in every reachable state. *)
THEOREM Invariance == Spec => []IInv
<1> QED
  BY Initially, Step, PTL DEF Spec

(* Every variable of a volume always has its type; in particular its       *)
(* serial number comes out of the file as it went in.                      *)
THEOREM TypeCorrect == Spec => []TypeOK
<1>1. IInv => TypeOK
  BY DEF IInv
<1> QED
  BY <1>1, Invariance, PTL

(* A link that MultiLink has returned from, its save done, is in the file  *)
(* whatever other writers save, fail to save, or crash in the middle of.   *)
THEOREM ReturnedIsSaved == Spec => []AckedSurvives
<1>1. IInv => AckedSurvives
  BY DEF IInv
<1> QED
  BY <1>1, Invariance, PTL

(* However many saves, crashes and restarts there are, a tree is never in  *)
(* the file with a number older than the one it was installed with.        *)
THEOREM NumberFollowsTree == Spec => []SerialNotBehind
<1>1. IInv => SerialNotBehind
  BY DEF IInv, PairOK
<1> QED
  BY <1>1, Invariance, PTL
=============================================================================
