------------------------------- MODULE Volume -------------------------------
(***************************************************************************)
(* internal/gritsd/module_volume.go: LocalVolume, which keeps the root of  *)
(* its name store in a file. MultiLink commits in memory (module           *)
(* NameStore), gives treeMtx back and saves: under persistMtx it reads the *)
(* root, then the serial number, writes a temporary file and renames it    *)
(* over the old one. The process may crash between any two steps; the next *)
(* one loads the file, and stops if blobs of the tree it names are gone.   *)
(***************************************************************************)
EXTENDS Integers

CONSTANTS
  Root,       \* root addresses
  Empty,      \* the one of the empty tree a volume without a file begins with
  Writers,
  MaxMade     \* the bound on commits

ASSUME EmptyAssumption == Empty \in Root
ASSUME MaxMadeAssumption == MaxMade \in Nat

VARIABLES
  up,         \* the process runs
  root,       \* ns.rootAddr
  serial,     \* ns.serialNumber
  age,        \* history: which commit installed the root in memory
  made,       \* history: how many commits there were
  acked,      \* history: the last commit whose MultiLink returned, its save done
  whole,      \* roots all of whose blobs are in the blob store
  file,       \* the renamed file: root and serial; history: age and born, the
              \* commit and the serial number this root was installed with
  stage,      \* what each writer does
  mine,       \* the commit whose MultiLink each writer is in
  state       \* the RootState each writer is about to write

writer == <<stage, mine, state>>
memory == <<root, serial, age>>
vars == <<up, memory, made, acked, whole, file, writer>>

Blank == [root |-> Empty, serial |-> 1, born |-> 1, age |-> 0]

Init ==
  /\ up = TRUE
  /\ root = Empty /\ serial = 1 /\ age = 0
  /\ made = 0
  /\ acked = 0
  /\ whole = {Empty}
  /\ file = Blank
  /\ stage = [w \in Writers |-> "idle"]
  /\ mine = [w \in Writers |-> 0]
  /\ state = [w \in Writers |-> Blank]
-----------------------------------------------------------------------------
(* The blobs of a tree are uploaded.                                       *)
Upload(r) ==
  /\ up
  /\ whole' = whole \union {r}
  /\ UNCHANGED <<memory, up, made, acked, file, writer>>

(* Cleanup and eviction: the tree in memory is all they keep. The empty    *)
(* tree is made anew by every process.                                     *)
Evict(r) ==
  /\ up
  /\ r \notin {root, Empty}
  /\ whole' = whole \ {r}
  /\ UNCHANGED <<memory, up, made, acked, file, writer>>

(* NameStore.MultiLink, which needs the whole tree.                        *)
Commit(w, r) ==
  /\ up
  /\ stage[w] = "idle"
  /\ made < MaxMade
  /\ r \in whole \ {root}
  /\ root' = r
  /\ serial' = serial + 1
  /\ age' = made + 1
  /\ made' = made + 1
  /\ mine' = [mine EXCEPT ![w] = made + 1]
  /\ stage' = [stage EXCEPT ![w] = "save"]
  /\ UNCHANGED <<up, acked, whole, file, state>>

Saving == {"serial", "write"}
PersistLockFree == \A v \in Writers : stage[v] \notin Saving
Mut_NoPersistLock == TRUE

(* persistMtx. *)
CanSave == PersistLockFree

(* save: GetRoot ... *)
SaveRoot(w) ==
  /\ stage[w] = "save"
  /\ CanSave
  /\ state' = [state EXCEPT ![w] =
                [root |-> root, serial |-> 0, born |-> serial, age |-> age]]
  /\ stage' = [stage EXCEPT ![w] = "serial"]
  /\ UNCHANGED <<memory, up, made, acked, whole, file, mine>>

(* The same two reads in the other order.                                  *)
Mut_SerialFirst(w) ==
  /\ stage[w] = "serial"
  /\ state' = [state EXCEPT ![w] =
                [root |-> root, serial |-> @.born, born |-> serial, age |-> age]]
  /\ stage' = [stage EXCEPT ![w] = "write"]
  /\ UNCHANGED <<memory, up, made, acked, whole, file, mine>>

(* ... and GetSerialNumber, each under its own lock.                       *)
SaveSerial(w) ==
  /\ stage[w] = "serial"
  /\ state' = [state EXCEPT ![w].serial = serial]
  /\ stage' = [stage EXCEPT ![w] = "write"]
  /\ UNCHANGED <<memory, up, made, acked, whole, file, mine>>

(* MultiLink returns. *)
Returns(w) ==
  /\ stage' = [stage EXCEPT ![w] = "idle"]
  /\ mine' = [mine EXCEPT ![w] = 0]
  /\ state' = [state EXCEPT ![w] = Blank]
  /\ UNCHANGED <<memory, up, made, whole>>

(* The temporary file is written and renamed.                              *)
SaveFile(w) ==
  /\ stage[w] = "write"
  /\ file' = state[w]
  /\ acked' = IF mine[w] > acked THEN mine[w] ELSE acked
  /\ Returns(w)

(* "Log but don't fail the operation".                                     *)
SaveFails(w) ==
  /\ stage[w] = "write"
  /\ Returns(w)
  /\ UNCHANGED <<file, acked>>

Crash ==
  /\ up
  /\ up' = FALSE
  /\ stage' = [w \in Writers |-> "idle"]
  /\ mine' = [w \in Writers |-> 0]
  /\ state' = [w \in Writers |-> Blank]
  /\ UNCHANGED <<memory, made, acked, whole, file>>

(* The number load passes on. *)
SerialIn(f) == f.serial

(* load and DeserializeNameStore: fatal when blobs of the tree are gone.   *)
Start ==
  /\ ~up
  /\ file.root \in whole
  /\ up' = TRUE
  /\ root' = file.root
  /\ serial' = SerialIn(file)
  /\ age' = file.age
  /\ UNCHANGED <<made, acked, whole, file, writer>>

Next ==
  \/ \E r \in Root : Upload(r) \/ Evict(r)
  \/ \E w \in Writers, r \in Root : Commit(w, r)
  \/ \E w \in Writers : SaveRoot(w) \/ SaveSerial(w) \/ SaveFile(w) \/ SaveFails(w)
  \/ Crash
  \/ Start

Spec == Init /\ [][Next]_vars
-----------------------------------------------------------------------------
Serials == 1..(MaxMade + 1)
States == [root : Root, serial : Serials \union {0}, born : Serials, age : 0..MaxMade]

(* Every variable has its type.                                            *)
TypeOK ==
  /\ up \in BOOLEAN
  /\ root \in Root
  /\ serial \in Serials
  /\ made \in 0..MaxMade
  /\ {age, acked} \subseteq 0..made
  /\ whole \subseteq Root
  /\ file \in States
  /\ stage \in [Writers -> {"idle", "save", "serial", "write"}]
  /\ mine \in [Writers -> 0..made]
  /\ state \in [Writers -> States]

(* MultiLink: a link that has returned without a warning is in the file,   *)
(* or one after it is; no save that began earlier undoes that.             *)
AckedSurvives == file.age >= acked

(* DeserializeNameStore, "FATAL: volume is corrupt at startup": the tree   *)
(* the next process will load has all its blobs.                           *)
StartsAgain == file.root \in whole

(* save reads the root before the serial number, with nothing to keep      *)
(* another commit out between them: the pair may be one that never was,    *)
(* but a tree is never written with a number older than its own, which     *)
(* after a restart would take its successors for outdated.                 *)
SerialNotBehind == file.serial >= file.born
=============================================================================
