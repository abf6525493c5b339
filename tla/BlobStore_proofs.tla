--------------------------- MODULE BlobStore_proofs ---------------------------
(***************************************************************************)
(* Proofs about BlobStore, for every set of addresses and handles, every   *)
(* configuration and every bound.                                          *)
(***************************************************************************)
EXTENDS MCServer, FiniteSetTheorems, TLAPS
-----------------------------------------------------------------------------

(* A handle that is doing something is doing it to a blob, and nobody is   *)
(* doing anything while the process is down.                               *)
HandlesOK ==
  /\ \A h \in Handles : stage[h] # "idle" => addr[h] \in Addr
  /\ ~up => files = {} /\ \A h \in Handles : stage[h] = "idle"

(* bs.mtx: one writer at a time, and what it writes has no entry yet. *)
WriterOK ==
  /\ \A h \in Handles : stage[h] = "writing" => addr[h] \notin files
  /\ \A g, h \in Handles : stage[g] = "writing" /\ stage[h] = "writing" => g = h

HeldIsKnown == \A h \in Handles : stage[h] = "held" => addr[h] \in files

(* Only entries of bs.files have references. *)
IInv ==
  /\ StoreTypeOK
  /\ HandlesOK
  /\ WriterOK
  /\ HeldIsKnown
  /\ KnownIsOnDisk
  /\ RefCountExact
-----------------------------------------------------------------------------
(* What a handle's change of state does to the holders of each blob.       *)

LEMMA HoldersFinite ==
  ASSUME NEW a
  PROVE  IsFiniteSet(Holders(a)) /\ Cardinality(Holders(a)) \in Nat
<1>1. Holders(a) \subseteq Handles
  BY DEF Holders
<1> QED
  BY <1>1, HandlesAssumption, FS_Subset, FS_CardinalityType

LEMMA HoldersGain ==
  ASSUME StoreTypeOK, NEW h \in Handles, NEW a \in Addr,
         stage[h] # "held", Become(h, "held", a)
  PROVE  /\ Cardinality(Holders(a)') = Cardinality(Holders(a)) + 1
         /\ \A b \in Addr \ {a} : Holders(b)' = Holders(b)
<1>1. Holders(a)' = Holders(a) \union {h}
  BY DEF Holders, Become, StoreTypeOK
<1>2. h \notin Holders(a)
  BY DEF Holders
<1>3. Cardinality(Holders(a)') = Cardinality(Holders(a)) + 1
  BY <1>1, <1>2, HoldersFinite, FS_AddElement
<1>4. \A b \in Addr \ {a} : Holders(b)' = Holders(b)
  BY DEF Holders, Become, StoreTypeOK
<1> QED
  BY <1>3, <1>4

LEMMA HoldersLose ==
  ASSUME StoreTypeOK, NEW h \in Handles, NEW a \in Addr,
         stage[h] = "held", addr[h] = a, Become(h, "idle", NoAddr)
  PROVE  /\ Cardinality(Holders(a)') = Cardinality(Holders(a)) - 1
         /\ \A b \in Addr \ {a} : Holders(b)' = Holders(b)
<1>1. Holders(a)' = Holders(a) \ {h}
  BY DEF Holders, Become, StoreTypeOK
<1>2. h \in Holders(a)
  BY DEF Holders
<1>3. Cardinality(Holders(a)') = Cardinality(Holders(a)) - 1
  BY <1>1, <1>2, HoldersFinite, FS_RemoveElement
<1>4. \A b \in Addr \ {a} : Holders(b)' = Holders(b)
  BY DEF Holders, Become, StoreTypeOK
<1> QED
  BY <1>3, <1>4

LEMMA HoldersKept ==
  ASSUME StoreTypeOK, NEW h \in Handles, NEW s, NEW a, s # "held",
         stage[h] # "held", Become(h, s, a)
  PROVE  \A b \in Addr : Holders(b)' = Holders(b)
BY DEF Holders, Become, StoreTypeOK
-----------------------------------------------------------------------------
(* The operations every action is made of keep the invariant.              *)

LEMMA ReferenceKeeps ==
  ASSUME IInv, Unlocked, NEW h \in Handles, NEW a \in Addr,
         stage[h] # "held", Reference(h, a),
         UNCHANGED <<up, clock, worker, crashes, refused, keepUntil>>
  PROVE  IInv'
<1> USE DEF IInv, Reference, Unlocked, media
<1>1. StoreTypeOK'
  BY DEF StoreTypeOK, Become
<1>2. HandlesOK' /\ WriterOK' /\ HeldIsKnown' /\ KnownIsOnDisk'
  BY DEF StoreTypeOK, Become, HandlesOK, WriterOK, HeldIsKnown, KnownIsOnDisk
<1>3. RefCountExact'
  BY HoldersGain DEF StoreTypeOK, RefCountExact
<1> QED
  BY <1>1, <1>2, <1>3

LEMMA EnterKeeps ==
  ASSUME IInv, up, NEW h \in Handles, NEW a \in Addr, a \notin files,
         stage[h] # "held", Enter(h, a),
         \A g \in Handles : stage[g] = "writing" => g = h,
         UNCHANGED <<up, clock, worker, crashes, refused, keepUntil>>
  PROVE  IInv'
<1> USE DEF IInv, Enter
<1>1. StoreTypeOK'
  BY DEF StoreTypeOK, Become
<1>2. HandlesOK' /\ WriterOK' /\ HeldIsKnown' /\ KnownIsOnDisk'
  BY DEF StoreTypeOK, Become, HandlesOK, WriterOK, HeldIsKnown, KnownIsOnDisk
<1>3. RefCountExact'
  <2>1. Holders(a) = {}
    BY DEF Holders, HeldIsKnown
  <2>2. Cardinality(Holders(a)) = 0
    BY <2>1, FS_EmptySet
  <2>3. /\ Cardinality(Holders(a)') = 1
        /\ \A b \in Addr \ {a} : Holders(b)' = Holders(b)
    BY <2>2, HoldersGain
  <2> QED
    BY <2>3 DEF StoreTypeOK, RefCountExact
<1> QED
  BY <1>1, <1>2, <1>3

(* A handle that neither held nor comes to hold a reference leaves the     *)
(* counts alone.                                                           *)
LEMMA BecomeKeepsCounts ==
  ASSUME IInv, NEW h \in Handles, NEW s, NEW a, s # "held",
         stage[h] # "held", Become(h, s, a), UNCHANGED refCount
  PROVE  RefCountExact'
BY HoldersKept DEF IInv, RefCountExact

LEMMA DiscardKeepsDisk ==
  ASSUME IInv, NEW gone \in SUBSET files, NEW failed \in SUBSET gone,
         Discard(gone, failed)
  PROVE  KnownIsOnDisk'
BY DEF IInv, StoreTypeOK, Discard, KnownIsOnDisk

LEMMA BecomeKeeps ==
  ASSUME IInv, NEW h \in Handles, NEW s \in {"idle", "staged"},
         NEW a \in Addr \union {NoAddr}, s = "staged" => up /\ a \in Addr,
         stage[h] # "held", Become(h, s, a),
         UNCHANGED <<up, clock, mem, media, worker, crashes, refused, keepUntil>>
  PROVE  IInv'
<1> USE DEF IInv, mem, media
<1>1. StoreTypeOK'
  BY DEF StoreTypeOK, Become
<1>2. HandlesOK' /\ WriterOK' /\ HeldIsKnown' /\ KnownIsOnDisk'
  BY DEF StoreTypeOK, Become, HandlesOK, WriterOK, HeldIsKnown, KnownIsOnDisk
<1> QED
  BY <1>1, <1>2, BecomeKeepsCounts

(* Removing entries nobody holds, with no change of the handles.           *)
LEMMA SweepKeeps ==
  ASSUME IInv, Sweep, worker' \in {"running", "stopped", "off"}
  PROVE  IInv'
<1> USE DEF IInv, Sweep, Unlocked, callers
<1>1. PICK failed \in SUBSET Expired : Discard(Expired, failed)
  BY DEF Sweep
<1>2. Expired \in SUBSET files
  BY DEF Expired
<1>3. StoreTypeOK'
  BY <1>1, <1>2 DEF StoreTypeOK, Discard
<1>4. \A a \in Expired : Holders(a) = {}
  <2> SUFFICES ASSUME NEW a \in Expired PROVE Holders(a) = {}
    OBVIOUS
  <2>1. a \in Addr /\ refCount[a] <= 0
    BY <1>2 DEF StoreTypeOK, Expired
  <2>2. Cardinality(Holders(a)) = 0
    BY <2>1, HoldersFinite DEF RefCountExact, StoreTypeOK
  <2> QED
    BY <2>2, HoldersFinite, FS_EmptySet
<1>5. HeldIsKnown'
  BY <1>1, <1>4 DEF HeldIsKnown, Holders, Discard
<1>6. HandlesOK' /\ WriterOK'
  BY <1>1, <1>2 DEF HandlesOK, WriterOK, Discard
<1>7. KnownIsOnDisk'
  BY <1>1, <1>2, DiscardKeepsDisk
<1>8. RefCountExact'
  BY DEF RefCountExact, Holders
<1> QED
  BY <1>3, <1>5, <1>6, <1>7, <1>8

LEMMA ReleaseKeeps ==
  ASSUME IInv, NEW h \in Handles, Release(h)
  PROVE  IInv'
<1> USE DEF IInv, Release, Unlocked
<1> DEFINE a == addr[h]
<1>1. a \in Addr /\ a \in files
  BY DEF HandlesOK, HeldIsKnown
<1>2. refCount' = [refCount EXCEPT ![a] = @ - 1]
  OBVIOUS
<1>3. RefCountExact'
  BY <1>1, <1>2, HoldersLose DEF StoreTypeOK, RefCountExact
<1>4. CASE ~(refCount[a] = 1 /\ Lapsed(a)) /\ UNCHANGED <<files, expiresAt, media>>
  <2>1. StoreTypeOK'
    BY <1>1, <1>2, <1>4 DEF StoreTypeOK, Become, media
  <2>2. HandlesOK' /\ WriterOK' /\ HeldIsKnown' /\ KnownIsOnDisk'
    BY <1>4 DEF StoreTypeOK, Become, HandlesOK, WriterOK, HeldIsKnown, KnownIsOnDisk, media
  <2> QED
    BY <1>3, <2>1, <2>2
<1>5. CASE /\ refCount[a] = 1
           /\ \E failed \in SUBSET {a} : Discard({a}, failed)
  <2>1. PICK failed \in SUBSET {a} : Discard({a}, failed)
    BY <1>5
  <2>2. StoreTypeOK'
    BY <1>1, <1>2, <2>1 DEF StoreTypeOK, Become, Discard
  <2>3. Holders(a) = {h}
    <3>1. Cardinality(Holders(a)) = 1
      BY <1>1, <1>5 DEF RefCountExact
    <3>2. PICK g : Holders(a) = {g}
      BY <3>1, HoldersFinite, FS_Singleton
    <3>3. h \in Holders(a)
      BY DEF Holders
    <3> QED
      BY <3>2, <3>3
  <2>4. HeldIsKnown'
    BY <2>1, <2>3 DEF HeldIsKnown, Holders, Discard, Become, StoreTypeOK
  <2>5. HandlesOK' /\ WriterOK'
    BY <2>1 DEF HandlesOK, WriterOK, Discard, Become, StoreTypeOK
  <2>6. KnownIsOnDisk'
    BY <1>1, <2>1, DiscardKeepsDisk
  <2> QED
    BY <1>3, <2>2, <2>4, <2>5, <2>6
<1> QED
  BY <1>4, <1>5
-----------------------------------------------------------------------------
LEMMA InitEstablishes == StoreInit => IInv
<1> SUFFICES ASSUME StoreInit PROVE IInv
  OBVIOUS
<1>1. StoreTypeOK
  <2>1. up \in BOOLEAN /\ refused \in BOOLEAN
    BY Zenon DEF StoreInit
  <2> QED
    BY <2>1 DEF StoreInit, StoreTypeOK
<1>2. \A a \in Addr : Holders(a) = {}
  BY DEF StoreInit, Holders
<1>3. RefCountExact
  BY <1>2, FS_EmptySet DEF StoreInit, RefCountExact
<1> QED
  BY <1>1, <1>3
     DEF StoreInit, IInv, HandlesOK, WriterOK, HeldIsKnown, KnownIsOnDisk

LEMMA StepKeeps == IInv /\ [StoreNext]_storeVars => IInv'
<1> SUFFICES ASSUME IInv, [StoreNext]_storeVars PROVE IInv'
  OBVIOUS
<1>1. ASSUME NEW h \in Handles, NEW a \in Addr,
             ReadFile(h, a) \/ AddDataBlockKnown(h, a)
      PROVE  IInv'
  BY <1>1, ReferenceKeeps DEF ReadFile, AddDataBlockKnown
<1>2. ASSUME NEW h \in Handles, NEW a \in Addr, AddReaderCopy(h, a)
      PROVE  IInv'
  BY <1>2, BecomeKeeps DEF AddReaderCopy
<1>3. ASSUME NEW h \in Handles, AddReaderStore(h)
      PROVE  IInv'
  <2>1. addr[h] \in Addr /\ stage[h] # "held" /\ Unlocked
    BY <1>3 DEF AddReaderStore, IInv, HandlesOK
  <2>2. CASE Reference(h, addr[h])
    BY <1>3, <2>1, <2>2, ReferenceKeeps DEF AddReaderStore
  <2>3. CASE addr[h] \notin files /\ Enter(h, addr[h])
    BY <1>3, <2>1, <2>3, EnterKeeps DEF AddReaderStore, Unlocked
  <2> QED
    BY <1>3, <2>2, <2>3 DEF AddReaderStore
<1>4. ASSUME NEW h \in Handles, AddReaderFail(h) \/ AddDataBlockFail(h)
      PROVE  IInv'
  BY <1>4, BecomeKeeps DEF AddReaderFail, AddDataBlockFail
<1>5. ASSUME NEW h \in Handles, NEW a \in Addr, AddDataBlockWrite(h, a)
      PROVE  IInv'
  <2> USE <1>5 DEF AddDataBlockWrite, IInv, Unlocked, mem
  <2>1. StoreTypeOK'
    BY SMTT(30) DEF StoreTypeOK, Become
  <2>2. HandlesOK' /\ WriterOK' /\ HeldIsKnown' /\ KnownIsOnDisk'
    BY DEF StoreTypeOK, Become, HandlesOK, WriterOK, HeldIsKnown, KnownIsOnDisk
  <2> QED
    BY <2>1, <2>2, BecomeKeepsCounts
<1>6. ASSUME NEW h \in Handles, AddDataBlockDone(h)
      PROVE  IInv'
  <2>1. /\ up /\ addr[h] \in Addr /\ addr[h] \notin files
        /\ \A g \in Handles : stage[g] = "writing" => g = h
    BY <1>6 DEF AddDataBlockDone, IInv, HandlesOK, WriterOK
  <2> QED
    BY <1>6, <2>1, EnterKeeps DEF AddDataBlockDone
<1>7. ASSUME NEW h \in Handles, NEW d \in Durations, Touch(h, d)
      PROVE  IInv'
  <2> USE <1>7 DEF Touch, IInv, callers
  <2>1. clock + d \in Nat
    BY DurationsAssumption DEF StoreTypeOK
  <2>2. StoreTypeOK'
    <3>1. mtime' \in [Addr -> Nat]
      <4>1. CASE mtime' = [mtime EXCEPT ![addr[h]] = clock + d]
        BY <2>1, <4>1 DEF StoreTypeOK
      <4>2. CASE UNCHANGED mtime
        BY <4>2 DEF StoreTypeOK
      <4> QED
        BY <4>1, <4>2 DEF Chtimes
    <3>2. expiresAt' \in [Addr -> Nat] /\ keepUntil' \in [Addr -> Nat]
      BY <2>1 DEF StoreTypeOK
    <3> QED
      BY <3>1, <3>2 DEF StoreTypeOK
  <2>3. HandlesOK' /\ WriterOK' /\ HeldIsKnown' /\ KnownIsOnDisk' /\ RefCountExact'
    BY DEF HandlesOK, WriterOK, HeldIsKnown, KnownIsOnDisk, RefCountExact, Holders
  <2> QED
    BY <2>2, <2>3
<1>8. ASSUME NEW g \in Handles, NEW h \in Handles, Take(g, h)
      PROVE  IInv'
  <2>1. addr[g] \in Addr /\ addr[g] \in files
    BY <1>8 DEF Take, IInv, HandlesOK, HeldIsKnown
  <2>2. Reference(h, addr[g])
    BY <1>8, <2>1 DEF Take, Reference
  <2> QED
    BY <1>8, <2>1, <2>2, ReferenceKeeps DEF Take
<1>9. ASSUME NEW h \in Handles, Release(h)
      PROVE  IInv'
  BY <1>9, ReleaseKeeps
<1>10. CASE EvictOldFiles \/ StopWorker
  BY <1>10, SweepKeeps DEF EvictOldFiles, StopWorker
<1>11. CASE Tick
  <2> USE <1>11 DEF Tick, IInv, mem, media, callers
  <2>1. StoreTypeOK'
    BY DEF StoreTypeOK
  <2>2. HandlesOK' /\ WriterOK' /\ HeldIsKnown' /\ KnownIsOnDisk' /\ RefCountExact'
    BY DEF HandlesOK, WriterOK, HeldIsKnown, KnownIsOnDisk, RefCountExact, Holders
  <2> QED
    BY <2>1, <2>2
<1>12. CASE Crash
  <2> USE <1>12 DEF Crash, IInv, media
  <2>1. StoreTypeOK'
    <3>1. up' \in BOOLEAN /\ worker' \in {"running", "stopped", "off"}
      BY Zenon
    <3> QED
      BY <3>1 DEF StoreTypeOK
  <2>2. \A a \in Addr : Holders(a)' = {}
    BY DEF Holders
  <2>3. RefCountExact'
    BY <2>2, FS_EmptySet DEF RefCountExact
  <2>4. HandlesOK' /\ WriterOK' /\ HeldIsKnown' /\ KnownIsOnDisk'
    BY DEF HandlesOK, WriterOK, HeldIsKnown, KnownIsOnDisk
  <2> QED
    BY <2>1, <2>3, <2>4
<1>13. CASE Restart
  <2> USE <1>13 DEF Restart, IInv, media, callers
  <2>1. StoreTypeOK'
    BY DEF StoreTypeOK, OnDisk
  <2>2. HandlesOK' /\ WriterOK' /\ HeldIsKnown' /\ KnownIsOnDisk' /\ RefCountExact'
    BY DEF HandlesOK, WriterOK, HeldIsKnown, KnownIsOnDisk, RefCountExact, Holders, OnDisk
  <2> QED
    BY <2>1, <2>2
<1>14. CASE RefuseStart
  <2> USE <1>14 DEF RefuseStart, IInv, mem, media, callers
  <2>1. StoreTypeOK'
    BY DEF StoreTypeOK
  <2>2. HandlesOK' /\ WriterOK' /\ HeldIsKnown' /\ KnownIsOnDisk' /\ RefCountExact'
    BY DEF HandlesOK, WriterOK, HeldIsKnown, KnownIsOnDisk, RefCountExact, Holders
  <2> QED
    BY <2>1, <2>2
<1>15. CASE UNCHANGED storeVars
  <2> USE <1>15 DEF storeVars, IInv, mem, media, callers
  <2>1. StoreTypeOK'
    BY DEF StoreTypeOK
  <2>2. HandlesOK' /\ WriterOK' /\ HeldIsKnown' /\ KnownIsOnDisk' /\ RefCountExact'
    BY DEF HandlesOK, WriterOK, HeldIsKnown, KnownIsOnDisk, RefCountExact, Holders
  <2> QED
    BY <2>1, <2>2
<1> QED
  BY <1>1, <1>2, <1>3, <1>4, <1>5, <1>6, <1>7, <1>8, <1>9, <1>10, <1>11,
     <1>12, <1>13, <1>14, <1>15 DEF StoreNext

(* The inductive invariant holds in every reachable state. *)
THEOREM Invariance == StoreSpec => []IInv
<1>1. StoreInit => IInv
  BY InitEstablishes
<1>2. IInv /\ [StoreNext]_storeVars => IInv'
  BY StepKeeps
<1> QED
  BY <1>1, <1>2, PTL DEF StoreSpec
-----------------------------------------------------------------------------
(* Every variable of the blob store keeps its type. *)
THEOREM TypeCorrect == StoreSpec => []StoreTypeOK
<1>1. IInv => StoreTypeOK
  BY DEF IInv
<1> QED
  BY <1>1, Invariance, PTL

(* LocalBlobStore.Release: the count of a blob is exactly the number of    *)
(* references outstanding, so it never goes below zero (log.Fatalf) and    *)
(* never reaches zero while somebody still reads the blob.                 *)
THEOREM CountsAreExact == StoreSpec => []RefCountExact
<1>1. IInv => RefCountExact
  BY DEF IInv
<1> QED
  BY <1>1, Invariance, PTL

(* Release and EvictOldFiles never remove a blob somebody holds.           *)
THEOREM HeldStaysOnDisk == StoreSpec => []HeldOnDisk
<1>1. IInv => HeldOnDisk
  BY DEF IInv, HeldOnDisk, HeldIsKnown, KnownIsOnDisk
<1> QED
  BY <1>1, Invariance, PTL
-----------------------------------------------------------------------------
(* With ValidateBlobs no entry of bs.files stands for a half-written file: *)
(* the only step that can adopt one is the scan at startup.                *)
FilesWhole == \A a \in files : disk[a] = "whole"

LEMMA FilesWholeStep ==
  ASSUME ValidateBlobs, IInv, FilesWhole, [StoreNext]_storeVars
  PROVE  FilesWhole'
<1> USE DEF FilesWhole, IInv
<1>1. ASSUME NEW h \in Handles, NEW a \in Addr, Reference(h, a)
      PROVE  FilesWhole'
  BY <1>1 DEF Reference, media
<1>2. ASSUME NEW h \in Handles, NEW a \in Addr, Enter(h, a)
      PROVE  FilesWhole'
  BY <1>2 DEF Enter, StoreTypeOK
<1>3. ASSUME NEW h \in Handles, NEW a \in Addr,
             ReadFile(h, a) \/ AddDataBlockKnown(h, a) \/ AddReaderCopy(h, a)
      PROVE  FilesWhole'
  BY <1>1, <1>3 DEF ReadFile, AddDataBlockKnown, AddReaderCopy, mem, media
<1>4. ASSUME NEW h \in Handles, NEW a \in Addr, AddDataBlockWrite(h, a)
      PROVE  FilesWhole'
  BY <1>4 DEF AddDataBlockWrite, StoreTypeOK, mem
<1>5. ASSUME NEW h \in Handles, AddReaderStore(h) \/ AddDataBlockDone(h)
      PROVE  FilesWhole'
  BY <1>1, <1>2, <1>5 DEF AddReaderStore, AddDataBlockDone, HandlesOK
<1>6. ASSUME NEW h \in Handles, AddReaderFail(h) \/ AddDataBlockFail(h)
      PROVE  FilesWhole'
  BY <1>6 DEF AddReaderFail, AddDataBlockFail, mem, media
<1>7. ASSUME NEW gone \in SUBSET files, NEW failed \in SUBSET gone,
             Discard(gone, failed)
      PROVE  FilesWhole'
  BY <1>7 DEF Discard, StoreTypeOK
<1>8. ASSUME NEW h \in Handles, Release(h)
      PROVE  FilesWhole'
  <2>1. addr[h] \in files
    BY <1>8 DEF Release, HeldIsKnown
  <2> QED
    BY <1>7, <1>8, <2>1 DEF Release, media
<1>9. CASE Sweep
  <2>1. Expired \in SUBSET files
    BY DEF Expired
  <2> QED
    BY <1>7, <1>9, <2>1 DEF Sweep
<1>10. ASSUME NEW h \in Handles, NEW d \in Durations, Touch(h, d)
       PROVE  FilesWhole'
  BY <1>10 DEF Touch
<1>11. ASSUME NEW g \in Handles, NEW h \in Handles, Take(g, h)
       PROVE  FilesWhole'
  BY <1>11 DEF Take, media
<1>12. CASE Tick \/ RefuseStart \/ UNCHANGED storeVars
  BY <1>12 DEF Tick, RefuseStart, storeVars, mem, media
<1>13. CASE Crash
  BY <1>13 DEF Crash
<1>14. CASE Restart
  BY <1>14 DEF Restart, ScanPasses, OnDisk, media
<1> QED
  BY <1>3, <1>4, <1>5, <1>6, <1>8, <1>9, <1>10, <1>11, <1>12, <1>13, <1>14
     DEF StoreNext, EvictOldFiles, StopWorker

(* REFERENCE.md: "get(cid) will return the bytestream for a given CID".    *)
(* With ValidateBlobs a reference always gives access to the whole blob.   *)
THEOREM HeldIsIntact ==
  ASSUME ValidateBlobs PROVE StoreSpec => []HeldIntact
<1>1. StoreInit => FilesWhole
  BY DEF StoreInit, FilesWhole
<1>2. IInv /\ FilesWhole /\ [StoreNext]_storeVars => FilesWhole'
  BY FilesWholeStep
<1>3. IInv /\ FilesWhole => HeldIntact
  BY DEF IInv, FilesWhole, HeldIsKnown, HeldIntact
<1> QED
  BY <1>1, <1>2, <1>3, Invariance, PTL DEF StoreSpec
-----------------------------------------------------------------------------
(* The lifetime the last Touch asked for, while it lasts, is the expiry in *)
(* memory and on disk; so it takes no part in any removal and survives a   *)
(* restart.                                                                *)
Kept(a) ==
  /\ disk[a] # "none"
  /\ mtime[a] >= keepUntil[a]
  /\ up => a \in files /\ expiresAt[a] >= keepUntil[a]

KeptOK == \A a \in Addr : keepUntil[a] >= clock => Kept(a)

LEMMA KeptStep ==
  ASSUME "chtimes" \notin Faults, IInv, KeptOK, [StoreNext]_storeVars
  PROVE  KeptOK'
<1> USE DEF KeptOK, Kept, IInv
<1>1. ASSUME NEW h \in Handles, NEW a \in Addr, Reference(h, a),
             UNCHANGED <<up, clock, keepUntil>>
      PROVE  KeptOK'
  BY <1>1 DEF Reference, media
<1>2. ASSUME NEW h \in Handles, NEW a \in Addr, a \notin files, up, Enter(h, a),
             UNCHANGED <<up, clock, keepUntil>>
      PROVE  KeptOK'
  BY <1>2 DEF Enter, StoreTypeOK
<1>3. ASSUME NEW h \in Handles, NEW a \in Addr,
             ReadFile(h, a) \/ AddDataBlockKnown(h, a) \/ AddReaderCopy(h, a)
      PROVE  KeptOK'
  BY <1>1, <1>3 DEF ReadFile, AddDataBlockKnown, AddReaderCopy, mem, media
<1>4. ASSUME NEW h \in Handles, NEW a \in Addr, AddDataBlockWrite(h, a)
      PROVE  KeptOK'
  BY <1>4 DEF AddDataBlockWrite, StoreTypeOK, mem, Unlocked
<1>5. ASSUME NEW h \in Handles, AddReaderStore(h) \/ AddDataBlockDone(h)
      PROVE  KeptOK'
  <2>1. up /\ addr[h] \in Addr /\ (AddDataBlockDone(h) => addr[h] \notin files)
    BY <1>5 DEF AddReaderStore, AddDataBlockDone, HandlesOK, WriterOK
  <2> QED
    BY <1>1, <1>2, <1>5, <2>1 DEF AddReaderStore, AddDataBlockDone
<1>6. ASSUME NEW h \in Handles, AddReaderFail(h) \/ AddDataBlockFail(h)
      PROVE  KeptOK'
  BY <1>6 DEF AddReaderFail, AddDataBlockFail, mem, media
<1>7. ASSUME NEW gone \in SUBSET files, NEW failed \in SUBSET gone, up,
             \A a \in gone : Lapsed(a), Discard(gone, failed),
             UNCHANGED <<up, clock, keepUntil>>
      PROVE  KeptOK'
  <2>1. \A a \in gone : ~(keepUntil[a] >= clock)
    BY <1>7 DEF Lapsed, StoreTypeOK
  <2> QED
    BY <1>7, <2>1 DEF Discard, StoreTypeOK
<1>8. ASSUME NEW h \in Handles, Release(h)
      PROVE  KeptOK'
  <2>1. addr[h] \in files /\ up
    BY <1>8 DEF Release, HeldIsKnown, Unlocked
  <2>2. CASE UNCHANGED <<files, expiresAt, media>>
    BY <1>8, <2>2 DEF Release, media
  <2>3. CASE Lapsed(addr[h]) /\ \E failed \in SUBSET {addr[h]} : Discard({addr[h]}, failed)
    BY <1>7, <1>8, <2>1, <2>3 DEF Release
  <2> QED
    BY <1>8, <2>2, <2>3 DEF Release
<1>9. CASE Sweep
  <2>1. Expired \in SUBSET files /\ \A a \in Expired : Lapsed(a)
    BY DEF Expired
  <2>2. PICK failed \in SUBSET Expired : Discard(Expired, failed)
    BY <1>9 DEF Sweep
  <2>3. up /\ UNCHANGED <<up, clock, keepUntil>>
    BY <1>9 DEF Sweep, Unlocked
  <2> QED
    BY <1>7, <2>1, <2>2, <2>3
<1>10. ASSUME NEW h \in Handles, NEW d \in Durations, Touch(h, d)
       PROVE  KeptOK'
  <2>1. addr[h] \in files /\ up
    BY <1>10 DEF Touch, HeldIsKnown, Unlocked
  <2>2. mtime' = [mtime EXCEPT ![addr[h]] = clock + d]
    BY <1>10 DEF Touch, Chtimes
  <2>3. clock + d \in Nat
    BY DurationsAssumption DEF StoreTypeOK
  <2> QED
    BY <1>10, <2>1, <2>2, <2>3 DEF Touch, StoreTypeOK, KnownIsOnDisk
<1>11. ASSUME NEW g \in Handles, NEW h \in Handles, Take(g, h)
       PROVE  KeptOK'
  BY <1>11 DEF Take, media
<1>12. CASE Tick \/ RefuseStart \/ UNCHANGED storeVars
  BY <1>12 DEF Tick, RefuseStart, storeVars, mem, media, StoreTypeOK
<1>13. CASE Crash
  BY <1>13 DEF Crash, media
<1>14. CASE Restart
  BY <1>14 DEF Restart, OnDisk, media, StoreTypeOK
<1> QED
  BY <1>3, <1>4, <1>5, <1>6, <1>8, <1>9, <1>10, <1>11, <1>12, <1>13, <1>14
     DEF StoreNext, EvictOldFiles, StopWorker

LEMMA KeptInvariant ==
  ASSUME "chtimes" \notin Faults PROVE StoreSpec => []KeptOK
<1>1. StoreInit => KeptOK
  BY DEF StoreInit, KeptOK
<1>2. IInv /\ KeptOK /\ [StoreNext]_storeVars => KeptOK'
  BY KeptStep
<1> QED
  BY <1>1, <1>2, Invariance, PTL DEF StoreSpec

(* LocalBlobStore.Touch: as long as os.Chtimes works, a blob outlives      *)
(* releases, sweeps, crashes and restarts until its lifetime is over.      *)
THEOREM TouchKeeps ==
  ASSUME "chtimes" \notin Faults PROVE StoreSpec => []TouchedIsKept
<1>1. KeptOK => TouchedIsKept
  BY DEF KeptOK, Kept, TouchedIsKept
<1> QED
  BY <1>1, KeptInvariant, PTL
-----------------------------------------------------------------------------
(* The refinement of PinStore, one action at a time.                       *)
RInv == IInv /\ FilesWhole /\ KeptOK

pStored == {a \in Addr : disk[a] = "whole"}
pGuarded == {a \in Addr : keepUntil[a] >= clock}

LEMMA UnknownIsForgettable ==
  ASSUME RInv, up, NEW a \in Addr, a \notin files
  PROVE  refCount[a] = 0 /\ a \notin pGuarded
<1>1. Holders(a) = {}
  BY DEF RInv, IInv, Holders, HeldIsKnown
<1>2. refCount[a] = 0
  BY <1>1, FS_EmptySet DEF RInv, IInv, RefCountExact
<1> QED
  BY <1>2 DEF RInv, KeptOK, Kept, pGuarded

LEMMA PutReference ==
  ASSUME RInv, NEW h \in Handles, NEW a \in Addr, Reference(h, a),
         UNCHANGED <<clock, keepUntil>>
  PROVE  Pinned!Put(a)
<1>1. a \in pStored
  BY DEF RInv, FilesWhole, Reference, pStored
<1>2. pStored' = pStored
  BY DEF Reference, media, pStored
<1> QED
  BY <1>1, <1>2 DEF Reference, Pinned!Put, pStored

LEMMA PutEnter ==
  ASSUME RInv, up, NEW h \in Handles, NEW a \in Addr, a \notin files, Enter(h, a),
         UNCHANGED <<clock, keepUntil>>
  PROVE  Pinned!Put(a)
<1>1. pStored' = pStored \union {a}
  BY DEF Enter, pStored, RInv, IInv, StoreTypeOK
<1>2. refCount[a] = 0
  BY UnknownIsForgettable
<1>3. refCount' = [refCount EXCEPT ![a] = refCount[a] + 1]
  BY <1>2 DEF Enter
<1> QED
  BY <1>1, <1>3 DEF Pinned!Put, pStored

LEMMA UnpinRelease ==
  ASSUME RInv, NEW h \in Handles, Release(h)
  PROVE  \E a \in Addr : Pinned!Unpin(a)
<1> DEFINE a == addr[h]
<1> USE DEF Release
<1>1. a \in files /\ a \in Addr
  BY DEF RInv, IInv, HeldIsKnown, HandlesOK
<1>2. refCount[a] > 0
  <2>1. h \in Holders(a)
    BY DEF Holders
  <2>2. Cardinality(Holders(a)) # 0
    BY <2>1, HoldersFinite, FS_EmptySet
  <2> QED
    BY <1>1, <2>2, HoldersFinite DEF RInv, IInv, RefCountExact
<1>3. a \in pStored
  BY <1>1 DEF RInv, FilesWhole, pStored
<1>4. CASE UNCHANGED <<files, expiresAt, media>>
  <2>1. pStored' = pStored
    BY <1>4 DEF pStored, media
  <2> QED
    BY <1>1, <1>2, <1>3, <2>1 DEF Pinned!Unpin, pStored
<1>5. CASE /\ refCount[a] = 1 /\ Lapsed(a)
           /\ \E failed \in SUBSET {a} : Discard({a}, failed)
  <2>1. pStored' \in {pStored, pStored \ {a}}
    BY <1>5 DEF Discard, pStored, RInv, IInv, StoreTypeOK
  <2>2. ~(keepUntil[a] >= clock)
    BY <1>1, <1>5 DEF Lapsed, RInv, KeptOK, Kept, IInv, StoreTypeOK, Unlocked
  <2> QED
    BY <1>1, <1>2, <1>5, <2>1, <2>2 DEF Pinned!Unpin, pStored
<1> QED
  BY <1>4, <1>5

LEMMA ForgetSweep ==
  ASSUME RInv, Sweep
  PROVE  Pinned!Forget
<1>1. PICK failed \in SUBSET Expired : Discard(Expired, failed)
  BY DEF Sweep
<1> DEFINE S == {a \in Expired : disk'[a] = "none"}
<1>2. pStored' = pStored \ S
  BY <1>1 DEF Discard, pStored, Expired, RInv, IInv, StoreTypeOK
<1>3. S \in SUBSET Pinned!Forgettable
  <2> SUFFICES ASSUME NEW a \in Expired
               PROVE  a \in Addr /\ refCount[a] = 0 /\ ~(keepUntil[a] >= clock)
    BY DEF Pinned!Forgettable
  <2>1. a \in Addr /\ a \in files /\ refCount[a] <= 0 /\ Lapsed(a) /\ up
    BY DEF Expired, RInv, IInv, StoreTypeOK, Sweep, Unlocked
  <2>2. refCount[a] = 0
    BY <2>1, HoldersFinite DEF RInv, IInv, RefCountExact, StoreTypeOK
  <2> QED
    BY <2>1, <2>2 DEF Lapsed, RInv, KeptOK, Kept, IInv, StoreTypeOK
<1> QED
  BY <1>2, <1>3 DEF Pinned!Forget, pStored, Sweep

LEMMA StepRefines ==
  ASSUME "chtimes" \notin Faults, RInv, [StoreNext]_storeVars
  PROVE  [Pinned!Next]_(Pinned!vars)
<1> USE DEF Pinned!Next, Pinned!vars
<1>1. ASSUME NEW h \in Handles, NEW a \in Addr,
             ReadFile(h, a) \/ AddDataBlockKnown(h, a)
      PROVE  Pinned!Put(a)
  BY <1>1, PutReference DEF ReadFile, AddDataBlockKnown
<1>2. ASSUME NEW h \in Handles,
             \/ \E a \in Addr : AddReaderCopy(h, a)
             \/ AddReaderFail(h) \/ AddDataBlockFail(h)
      PROVE  UNCHANGED Pinned!vars
  BY <1>2 DEF AddReaderCopy, AddReaderFail, AddDataBlockFail, mem, media
<1>3. ASSUME NEW h \in Handles, AddReaderStore(h) \/ AddDataBlockDone(h)
      PROVE  \E a \in Addr : Pinned!Put(a)
  <2>1. up /\ addr[h] \in Addr /\ (AddDataBlockDone(h) => addr[h] \notin files)
    BY <1>3 DEF AddReaderStore, AddDataBlockDone, RInv, IInv, HandlesOK, WriterOK
  <2>2. PICK a \in Addr : a = addr[h]
    BY <2>1
  <2>3. UNCHANGED <<clock, keepUntil>>
    BY <1>3 DEF AddReaderStore, AddDataBlockDone
  <2>4. CASE Reference(h, a)
    BY <2>3, <2>4, PutReference
  <2>5. CASE a \notin files /\ Enter(h, a)
    BY <2>1, <2>3, <2>5, PutEnter
  <2> QED
    BY <1>3, <2>1, <2>2, <2>4, <2>5 DEF AddReaderStore, AddDataBlockDone
<1>4. ASSUME NEW h \in Handles, NEW a \in Addr, AddDataBlockWrite(h, a)
      PROVE  Pinned!Forget
  <2> USE <1>4 DEF AddDataBlockWrite
  <2>1. pStored' = pStored \ {a}
    BY DEF pStored, RInv, IInv, StoreTypeOK
  <2>2. {a} \in SUBSET Pinned!Forgettable
    BY UnknownIsForgettable DEF Pinned!Forgettable, pGuarded, Unlocked
  <2> QED
    BY <2>1, <2>2 DEF Pinned!Forget, pStored, mem
<1>5. ASSUME NEW h \in Handles, NEW d \in Durations, Touch(h, d)
      PROVE  \E a \in Addr : Pinned!Guard(a)
  <2> USE <1>5 DEF Touch
  <2>1. addr[h] \in Addr
    BY DEF RInv, IInv, HandlesOK
  <2>2. refCount[addr[h]] > 0
    <3>1. h \in Holders(addr[h])
      BY DEF Holders
    <3>2. Cardinality(Holders(addr[h])) # 0
      BY <3>1, HoldersFinite, FS_EmptySet
    <3> QED
      BY <2>1, <3>2, HoldersFinite DEF RInv, IInv, RefCountExact
  <2>3. pGuarded' = pGuarded \union {addr[h]}
    BY <2>1, DurationsAssumption DEF pGuarded, RInv, IInv, StoreTypeOK
  <2> QED
    BY <2>1, <2>2, <2>3 DEF Pinned!Guard, pGuarded
<1>6. ASSUME NEW g \in Handles, NEW h \in Handles, Take(g, h)
      PROVE  \E a \in Addr : Pinned!Put(a)
  <2>1. addr[g] \in Addr /\ addr[g] \in files
    BY <1>6 DEF Take, RInv, IInv, HandlesOK, HeldIsKnown
  <2>2. PICK a \in Addr : a = addr[g]
    BY <2>1
  <2>3. Reference(h, a) /\ UNCHANGED <<clock, keepUntil>>
    BY <1>6, <2>1, <2>2 DEF Take, Reference
  <2> QED
    BY <2>3, PutReference
<1>7. ASSUME NEW h \in Handles, Release(h)
      PROVE  \E a \in Addr : Pinned!Unpin(a)
  BY <1>7, UnpinRelease
<1>8. CASE EvictOldFiles \/ StopWorker
  BY <1>8, ForgetSweep DEF EvictOldFiles, StopWorker
<1>9. CASE Tick
  <2>1. pGuarded' \in SUBSET pGuarded
    BY <1>9 DEF Tick, pGuarded, RInv, IInv, StoreTypeOK
  <2> QED
    BY <1>9, <2>1 DEF Pinned!Lapse, pGuarded, Tick, mem, media
<1>10. CASE Crash
  BY <1>10 DEF Crash, Pinned!LoseReferences, media
<1>11. CASE Restart \/ RefuseStart \/ UNCHANGED storeVars
  BY <1>11 DEF Restart, RefuseStart, storeVars, mem, media
<1>12. [StoreNext]_storeVars => \/ \E a \in Addr : Pinned!Put(a) \/ Pinned!Unpin(a) \/ Pinned!Guard(a)
                      \/ Pinned!Forget \/ Pinned!Lapse \/ Pinned!LoseReferences
                      \/ UNCHANGED Pinned!vars
  BY <1>1, <1>2, <1>3, <1>4, <1>5, <1>6, <1>7, <1>8, <1>9, <1>10, <1>11, Zenon
     DEF StoreNext
<1> QED
  BY <1>12

(* The blob store keeps the contract of PinStore: while a blob is          *)
(* referenced, or the lifetime asked for lasts, its bytes can be read. It  *)
(* takes ValidateBlobs (no half-written file is adopted) and a working     *)
(* os.Chtimes (the lifetime survives a restart).                           *)
THEOREM Refinement ==
  ASSUME ValidateBlobs, "chtimes" \notin Faults
  PROVE  StoreSpec => ImplementsPinStore
<1>1. StoreInit => Pinned!Init
  BY DEF StoreInit, Pinned!Init
<1>2. StoreInit => IInv /\ FilesWhole /\ KeptOK
  BY InitEstablishes DEF StoreInit, FilesWhole, KeptOK
<1>3. IInv /\ FilesWhole /\ KeptOK /\ [StoreNext]_storeVars
        => IInv' /\ FilesWhole' /\ KeptOK' /\ [Pinned!Next]_(Pinned!vars)
  BY StepKeeps, FilesWholeStep, KeptStep, StepRefines DEF RInv
<1> QED
  BY <1>1, <1>2, <1>3, PTL DEF StoreSpec, ImplementsPinStore, Pinned!Spec
-----------------------------------------------------------------------------
(* The blob cache.                                                         *)
Stages == {"idle", "hold", "wait", "fetching", "fetched", "cached", "failed", "woken", "told", "again"}
Gets == [stage : Stages, addr : Addr \union {"none"}]
Busy == Stages \ {"idle"}

(* A call that is doing something does it for a blob, and the worker has   *)
(* released what it took out before it lists entries again.                *)
CallsOK ==
  /\ get \in [Getters -> Gets]
  /\ \A g \in Getters : get[g].stage \in Busy => get[g].addr \in Addr
  /\ cacheRefs \in [Addr -> Int]
  /\ listed # Mirror!Nothing => toRemove = {}

OneFetcher == \A a \in Addr : \A g, h \in Mirror!Fetchers(a) : g = h

Elsewhere(a) == Mirror!One(a \in cachedBlobs) + Mirror!One(a \in toRemove) + Mirror!One(a \in others)

RefsCover == \A a \in Addr : cacheRefs[a] >= Mirror!OfGets(a) + Elsewhere(a)

CacheOK == CallsOK /\ OneFetcher /\ RefsCover

(* The references of one call that is (stage, addr).                       *)
Owns(r, a) == IF r.addr # a THEN 0
              ELSE IF r.stage = "fetched" THEN 2
              ELSE IF r.stage \in {"cached", "hold"} THEN 1 ELSE 0

LEMMA OfGetsIs ==
  ASSUME IsFiniteSet(Getters), NEW a
  PROVE  /\ Mirror!OfGets(a) = Cardinality(Mirror!HaveFile(a)) + Cardinality(Mirror!HaveOneMore(a))
         /\ IsFiniteSet(Mirror!HaveFile(a)) /\ IsFiniteSet(Mirror!HaveOneMore(a))
         /\ Cardinality(Mirror!HaveFile(a)) \in Nat /\ Cardinality(Mirror!HaveOneMore(a)) \in Nat
<1>1. IsFiniteSet(Mirror!HaveFile(a)) /\ IsFiniteSet(Mirror!HaveOneMore(a))
  BY FS_Subset DEF Mirror!HaveFile, Mirror!HaveOneMore
<1>2. Cardinality(Mirror!HaveFile(a)) \in Nat /\ Cardinality(Mirror!HaveOneMore(a)) \in Nat
  BY <1>1, FS_CardinalityType
<1>3. Mirror!OfGets(a) = Cardinality(Mirror!HaveFile(a)) + Cardinality(Mirror!HaveOneMore(a))
  BY DEF Mirror!OfGets, Cardinality, Mirror!Cardinality
<1> QED
  BY <1>1, <1>2, <1>3

(* A set one member of which comes or goes.                                *)
LEMMA MemberMoves ==
  ASSUME NEW S, NEW T, IsFiniteSet(S), NEW g, \A h : h # g => (h \in S <=> h \in T)
  PROVE  Cardinality(T) = Cardinality(S) - Mirror!One(g \in S) + Mirror!One(g \in T)
<1>1. Cardinality(S) \in Nat
  BY FS_CardinalityType
<1>2. CASE (g \in S) <=> (g \in T)
  <2>1. S = T
    BY <1>2
  <2> QED
    BY <1>1, <2>1 DEF Mirror!One
<1>3. CASE g \in S /\ g \notin T
  <2>1. T = S \ {g}
    BY <1>3
  <2>2. Cardinality(T) = Cardinality(S) - 1
    BY <1>3, <2>1, FS_RemoveElement
  <2> QED
    BY <1>1, <1>3, <2>2 DEF Mirror!One
<1>4. CASE g \notin S /\ g \in T
  <2>1. T = S \union {g}
    BY <1>4
  <2>2. Cardinality(T) = Cardinality(S) + 1
    BY <1>4, <2>1, FS_AddElement
  <2> QED
    BY <1>1, <1>4, <2>2 DEF Mirror!One
<1> QED
  BY <1>2, <1>3, <1>4

(* A step of one call changes what the calls have by what it has.          *)
LEMMA CallMoves ==
  ASSUME IsFiniteSet(Getters), get \in [Getters -> Gets],
         NEW g \in Getters, NEW r, get' = [get EXCEPT ![g] = r], NEW a
  PROVE  /\ Mirror!OfGets(a) \in Nat
         /\ Mirror!OfGets(a)' = Mirror!OfGets(a) - Owns(get[g], a) + Owns(r, a)
<1> DEFINE S == Mirror!HaveFile(a)
           S1 == Mirror!HaveFile(a)'
           T == Mirror!HaveOneMore(a)
           T1 == Mirror!HaveOneMore(a)'
<1>0. get'[g] = r /\ \A h \in Getters : h # g => get'[h] = get[h]
  OBVIOUS
<1>1. \A h : h # g => (h \in S <=> h \in S1) /\ (h \in T <=> h \in T1)
  BY <1>0 DEF Mirror!HaveFile, Mirror!HaveOneMore
<1>2. /\ g \in S <=> get[g].addr = a /\ get[g].stage \in {"fetched", "cached", "hold"}
      /\ g \in T <=> get[g].addr = a /\ get[g].stage = "fetched"
      /\ g \in S1 <=> r.addr = a /\ r.stage \in {"fetched", "cached", "hold"}
      /\ g \in T1 <=> r.addr = a /\ r.stage = "fetched"
  BY <1>0 DEF Mirror!HaveFile, Mirror!HaveOneMore
<1>3. /\ Mirror!OfGets(a) = Cardinality(S) + Cardinality(T) /\ IsFiniteSet(S) /\ IsFiniteSet(T)
      /\ Cardinality(S) \in Nat /\ Cardinality(T) \in Nat
  BY OfGetsIs
<1>4. Mirror!OfGets(a)' = Cardinality(S1) + Cardinality(T1)
  BY DEF Mirror!OfGets, Cardinality, Mirror!Cardinality
<1> HIDE DEF S, S1, T, T1
<1>5. /\ Cardinality(S1) = Cardinality(S) - Mirror!One(g \in S) + Mirror!One(g \in S1)
      /\ Cardinality(T1) = Cardinality(T) - Mirror!One(g \in T) + Mirror!One(g \in T1)
  BY <1>1, <1>3, MemberMoves
<1>6. Owns(get[g], a) = Mirror!One(g \in S) + Mirror!One(g \in T)
  BY <1>2 DEF Owns, Mirror!One
<1>7. Owns(r, a) = Mirror!One(g \in S1) + Mirror!One(g \in T1)
  BY <1>2 DEF Owns, Mirror!One
<1>8. /\ Mirror!One(g \in S) \in Nat /\ Mirror!One(g \in T) \in Nat
      /\ Mirror!One(g \in S1) \in Nat /\ Mirror!One(g \in T1) \in Nat
  BY DEF Mirror!One
<1>9. Mirror!OfGets(a)' = (Cardinality(S) - Mirror!One(g \in S) + Mirror!One(g \in S1))
                     + (Cardinality(T) - Mirror!One(g \in T) + Mirror!One(g \in T1))
  BY <1>4, <1>5
<1> QED
  BY ONLY <1>3, <1>6, <1>7, <1>8, <1>9

LEMMA ElsewhereIsNumber == ASSUME NEW a PROVE Elsewhere(a) \in Nat /\ Elsewhere(a)' \in Nat
BY DEF Elsewhere, Mirror!One

Fetching == {"fetching", "fetched", "cached", "failed"}

(* A step of one call: it claims no blob that is being fetched, and there  *)
(* are as many references more as it and the others have more.             *)
LEMMA CallKeeps ==
  ASSUME IsFiniteSet(Getters), CacheOK, NEW g \in Getters, NEW r \in Gets, get' = [get EXCEPT ![g] = r],
         r.stage \in Busy => r.addr \in Addr,
         listed' # Mirror!Nothing => toRemove' = {},
         r.stage \in Fetching => \/ get[g].stage \in Fetching /\ get[g].addr = r.addr
                                 \/ ~Mirror!InFlight(r.addr),
         cacheRefs' \in [Addr -> Int],
         \A a \in Addr : cacheRefs'[a] - cacheRefs[a] >= Owns(r, a) - Owns(get[g], a)
                                                         + Elsewhere(a)' - Elsewhere(a)
  PROVE  CacheOK'
<1>1. CallsOK'
  BY DEF CacheOK, CallsOK
<1>2. OneFetcher'
  <2> SUFFICES ASSUME NEW a \in Addr, NEW i \in Mirror!Fetchers(a)', NEW j \in Mirror!Fetchers(a)' PROVE i = j
    BY DEF OneFetcher
  <2>1. get'[g] = r /\ \A h \in Getters : h # g => get'[h] = get[h]
    BY DEF CacheOK, CallsOK
  <2>2. i \in Getters /\ j \in Getters
    BY DEF Mirror!Fetchers
  <2>3. \A h \in Getters : h # g /\ h \in Mirror!Fetchers(a)' => h \in Mirror!Fetchers(a)
    BY <2>1 DEF Mirror!Fetchers
  <2>4. CASE g \in Mirror!Fetchers(a)' /\ g \notin Mirror!Fetchers(a)
    <3>1. r.stage \in Fetching /\ r.addr = a
      BY <2>1, <2>4 DEF Mirror!Fetchers, Fetching
    <3>2. ~(get[g].stage \in Fetching /\ get[g].addr = a)
      BY <2>4 DEF Mirror!Fetchers, Fetching
    <3>3. Mirror!Fetchers(a) = {}
      BY <3>1, <3>2 DEF Mirror!InFlight
    <3> QED
      BY <2>2, <2>3, <3>3
  <2>5. CASE g \in Mirror!Fetchers(a) \/ g \notin Mirror!Fetchers(a)'
    <3>1. i \in Mirror!Fetchers(a) /\ j \in Mirror!Fetchers(a)
      BY <2>2, <2>3, <2>5
    <3> QED
      BY <3>1 DEF CacheOK, OneFetcher
  <2> QED
    BY <2>4, <2>5
<1>3. RefsCover'
  <2> SUFFICES ASSUME NEW a \in Addr PROVE cacheRefs'[a] >= Mirror!OfGets(a)' + Elsewhere(a)'
    BY DEF RefsCover
  <2>1. Mirror!OfGets(a) \in Nat /\ Mirror!OfGets(a)' = Mirror!OfGets(a) - Owns(get[g], a) + Owns(r, a)
    BY CallMoves DEF CacheOK, CallsOK
  <2>2. cacheRefs[a] \in Int /\ cacheRefs'[a] \in Int /\ cacheRefs[a] >= Mirror!OfGets(a) + Elsewhere(a)
    BY DEF CacheOK, CallsOK, RefsCover
  <2>3. Owns(r, a) \in Nat /\ Owns(get[g], a) \in Nat
    BY DEF Owns
  <2>4. cacheRefs'[a] - cacheRefs[a] >= Owns(r, a) - Owns(get[g], a) + Elsewhere(a)' - Elsewhere(a)
    OBVIOUS
  <2> QED
    BY ONLY <2>1, <2>2, <2>3, <2>4, ElsewhereIsNumber
<1> QED
  BY <1>1, <1>2, <1>3 DEF CacheOK

(* A step that leaves to every call what it has.                           *)
LEMMA OtherKeeps ==
  ASSUME CacheOK, CallsOK',
         \A a \in Addr : /\ Mirror!Fetchers(a)' \subseteq Mirror!Fetchers(a)
                         /\ Mirror!HaveFile(a)' = Mirror!HaveFile(a) /\ Mirror!HaveOneMore(a)' = Mirror!HaveOneMore(a),
         IsFiniteSet(Getters),
         \A a \in Addr : cacheRefs'[a] - cacheRefs[a] >= Elsewhere(a)' - Elsewhere(a)
  PROVE  CacheOK'
<1>1. OneFetcher'
  BY DEF CacheOK, OneFetcher
<1>2. RefsCover'
  <2> SUFFICES ASSUME NEW a \in Addr PROVE cacheRefs'[a] >= Mirror!OfGets(a)' + Elsewhere(a)'
    BY DEF RefsCover
  <2>1. Mirror!OfGets(a)' = Mirror!OfGets(a)
    BY DEF Mirror!OfGets
  <2>2. Mirror!OfGets(a) \in Nat
    BY OfGetsIs
  <2>3. cacheRefs[a] \in Int /\ cacheRefs'[a] \in Int /\ cacheRefs[a] >= Mirror!OfGets(a) + Elsewhere(a)
    BY DEF CacheOK, CallsOK, RefsCover
  <2>4. cacheRefs'[a] - cacheRefs[a] >= Elsewhere(a)' - Elsewhere(a)
    OBVIOUS
  <2> QED
    BY ONLY <2>1, <2>2, <2>3, <2>4, ElsewhereIsNumber
<1> QED
  BY <1>1, <1>2 DEF CacheOK

LEMMA GetKeeps ==
  ASSUME IsFiniteSet(Getters), CacheOK, NEW g \in Getters, NEW a \in Addr, Mirror!Get(g, a)
  PROVE  CacheOK'
<1>0. /\ get \in [Getters -> Gets] /\ cacheRefs \in [Addr -> Int]
      /\ get[g].stage \in {"idle", "again"} /\ \A b : Owns(get[g], b) = 0
      /\ UNCHANGED <<listed, toRemove, others>>
      /\ listed # Mirror!Nothing => toRemove = {}
  BY DEF CacheOK, CallsOK, Mirror!Get, Mirror!Idle, Mirror!worker, Owns
<1>1. CASE Mirror!Hit(g, a) \/ Mirror!InStore(g, a)
  <2> DEFINE r == [stage |-> "hold", addr |-> a]
             n == IF Mirror!Hit(g, a) THEN 1 ELSE 2
  <2>1. get' = [get EXCEPT ![g] = r] /\ cachedBlobs' = cachedBlobs \union {a}
    BY <1>1 DEF Mirror!Hit, Mirror!InStore, Mirror!WithEntry
  <2>2. /\ cacheRefs' = [cacheRefs EXCEPT ![a] = @ + n]
        /\ n = (IF a \in cachedBlobs THEN 1 ELSE 2)
    BY <1>1 DEF Mirror!Hit, Mirror!InStore, Mirror!Add, Mirror!ForBoth
  <2>3. r \in Gets /\ r.addr \in Addr /\ r.stage \notin Fetching
    BY DEF Gets, Stages, Fetching
  <2> HIDE DEF n
  <2>4. cacheRefs' \in [Addr -> Int]
    BY <1>0, <2>2
  <2>5. ASSUME NEW b \in Addr
        PROVE  cacheRefs'[b] - cacheRefs[b] >= Owns(r, b) - Owns(get[g], b) + Elsewhere(b)' - Elsewhere(b)
    <3>1. Elsewhere(b)' = Elsewhere(b) + (IF b = a /\ a \notin cachedBlobs THEN 1 ELSE 0)
      BY <1>0, <2>1 DEF Elsewhere, Mirror!One
    <3>2. cacheRefs'[b] = cacheRefs[b] + (IF b = a THEN n ELSE 0) /\ cacheRefs[b] \in Int
      BY <1>0, <2>2
    <3>3. Owns(r, b) = (IF b = a THEN 1 ELSE 0) /\ Owns(get[g], b) = 0
      BY <1>0 DEF Owns
    <3> QED
      BY ONLY <2>2, <3>1, <3>2, <3>3, ElsewhereIsNumber
  <2> QED
    BY <1>0, <2>1, <2>3, <2>4, <2>5, CallKeeps
<1>2. CASE Mirror!Wait(g, a) \/ Mirror!Fetch(g, a)
  <2>1. PICK s \in {"wait", "fetching"} :
          /\ get' = [get EXCEPT ![g] = [stage |-> s, addr |-> a]]
          /\ s = "fetching" => ~Mirror!InFlight(a)
          /\ UNCHANGED <<cacheRefs, cachedBlobs>>
    BY <1>2 DEF Mirror!Wait, Mirror!Fetch
  <2> DEFINE r == [stage |-> s, addr |-> a]
  <2>2. r \in Gets /\ r.addr = a /\ (r.stage \in Fetching => s = "fetching")
    BY DEF Gets, Stages, Fetching
  <2>3. ASSUME NEW b \in Addr
        PROVE  cacheRefs'[b] - cacheRefs[b] >= Owns(r, b) - Owns(get[g], b) + Elsewhere(b)' - Elsewhere(b)
    BY <1>0, <2>1, ElsewhereIsNumber DEF Elsewhere, Owns
  <2> HIDE DEF r
  <2>4. cacheRefs' \in [Addr -> Int] /\ (listed' # Mirror!Nothing => toRemove' = {})
    BY <1>0, <2>1
  <2>5. get' = [get EXCEPT ![g] = r] /\ (r.stage \in Fetching => ~Mirror!InFlight(r.addr))
    BY <2>1, <2>2 DEF r
  <2> QED
    BY <2>2, <2>3, <2>4, <2>5, CallKeeps
<1> QED
  BY <1>1, <1>2 DEF Mirror!Get

(* A step of one call, about its blob: n references more, and perhaps an   *)
(* entry more.                                                             *)
LEMMA MoveKeeps ==
  ASSUME IsFiniteSet(Getters), CacheOK, NEW g \in Getters, get[g].stage \in Busy,
         NEW r \in Gets, NEW n \in Int,
         get' = [get EXCEPT ![g] = r],
         r.stage \in Busy => r.addr = get[g].addr,
         r.stage \in Fetching => get[g].stage \in Fetching,
         cacheRefs' = [cacheRefs EXCEPT ![get[g].addr] = @ + n],
         cachedBlobs' \in {cachedBlobs, cachedBlobs \union {get[g].addr}},
         n >= Owns(r, get[g].addr) - Owns(get[g], get[g].addr)
                + (IF cachedBlobs' = cachedBlobs THEN 0 ELSE 1),
         UNCHANGED <<listed, toRemove, others>>
  PROVE  CacheOK'
<1> DEFINE a == get[g].addr
           grown == IF cachedBlobs' = cachedBlobs THEN 0 ELSE 1
<1>0. /\ get \in [Getters -> Gets] /\ cacheRefs \in [Addr -> Int]
      /\ get[g].stage \in Busy => get[g].addr \in Addr
      /\ listed # Mirror!Nothing => toRemove = {}
  BY DEF CacheOK, CallsOK
<1>2. a \in Addr
  BY <1>0
<1>3. /\ cacheRefs' = [cacheRefs EXCEPT ![a] = @ + n]
      /\ cachedBlobs' \in {cachedBlobs, cachedBlobs \union {a}}
      /\ n >= Owns(r, a) - Owns(get[g], a) + grown
      /\ r.stage \in Busy => r.addr = a
  OBVIOUS
<1> HIDE DEF a
<1>4. cacheRefs' \in [Addr -> Int] /\ (listed' # Mirror!Nothing => toRemove' = {})
  BY <1>0, <1>3
<1>5. r.stage \in Busy => r.addr \in Addr
  BY <1>2, <1>3
<1>6. r.stage \in Fetching => get[g].stage \in Fetching /\ get[g].addr = r.addr
  BY DEF Busy, Stages, Fetching
<1>7. ASSUME NEW b \in Addr
      PROVE  cacheRefs'[b] - cacheRefs[b] >= Owns(r, b) - Owns(get[g], b) + Elsewhere(b)' - Elsewhere(b)
  <2>1. CASE b = a
    <3>1. Elsewhere(b)' <= Elsewhere(b) + grown
      BY <1>3, ElsewhereIsNumber DEF Elsewhere, Mirror!One
    <3>2. cacheRefs'[b] = cacheRefs[b] + n /\ cacheRefs[b] \in Int
      BY <1>0, <1>2, <1>3, <2>1
    <3>3. n \in Int /\ grown \in Int /\ n >= Owns(r, b) - Owns(get[g], b) + grown
      BY <1>3, <2>1
    <3>4. Owns(r, b) \in Nat /\ Owns(get[g], b) \in Nat
      BY DEF Owns
    <3> QED
      BY ONLY <3>1, <3>2, <3>3, <3>4, ElsewhereIsNumber
  <2>2. CASE b # a
    <3>1. Elsewhere(b)' = Elsewhere(b)
      BY <1>3, <2>2 DEF Elsewhere, Mirror!One
    <3>2. cacheRefs'[b] = cacheRefs[b] /\ cacheRefs[b] \in Int
      BY <1>0, <1>3, <2>2
    <3>3. Owns(r, b) = 0 /\ Owns(get[g], b) = 0
      BY <1>3, <2>2 DEF Owns, Busy, Stages, Gets, a
    <3> QED
      BY ONLY <3>1, <3>2, <3>3, ElsewhereIsNumber
  <2> QED
    BY <2>1, <2>2
<1> QED
  BY <1>3, <1>4, <1>5, <1>6, <1>7, CallKeeps

(* A fetch goes on, a waiter awakes, a caller releases.                    *)
LEMMA CallGoesOn ==
  ASSUME IsFiniteSet(Getters), CacheOK, NEW g \in Getters,
         Mirror!Arrives(g) \/ Mirror!FetchFails(g) \/ Mirror!Caches(g) \/ Mirror!Awake(g) \/ Mirror!Release(g)
  PROVE  CacheOK'
<1>0. /\ get \in [Getters -> Gets] /\ cacheRefs \in [Addr -> Int]
      /\ get[g].stage \in Busy => get[g].addr \in Addr
      /\ listed # Mirror!Nothing => toRemove = {}
  BY DEF CacheOK, CallsOK
<1>1. get[g].stage \in Busy /\ UNCHANGED <<listed, toRemove, others>>
  BY DEF Mirror!Arrives, Mirror!FetchFails, Mirror!Caches, Mirror!Awake, Mirror!Release, Mirror!worker, Busy, Stages
<1> DEFINE a == get[g].addr
<1>2. CASE Mirror!Arrives(g)
  <2> DEFINE r == [get[g] EXCEPT !.stage = "fetched"]
  <2>1. /\ r \in Gets /\ r.stage = "fetched" /\ r.addr = a /\ get[g].stage = "fetching"
        /\ get' = [get EXCEPT ![g] = r] /\ cachedBlobs' = cachedBlobs
        /\ cacheRefs' = [cacheRefs EXCEPT ![a] = @ + 2]
    BY <1>0, <1>2 DEF Mirror!Arrives, Mirror!To, Mirror!Add, Mirror!ForBoth, Gets, Stages
  <2>2. Owns(r, a) = 2 /\ Owns(get[g], a) = 0
    BY <2>1 DEF Owns
  <2>3. r.stage \in Fetching /\ get[g].stage \in Fetching
    BY <2>1 DEF Fetching
  <2> HIDE DEF r
  <2>4. 2 \in Int /\ 2 >= Owns(r, a) - Owns(get[g], a) + (IF cachedBlobs' = cachedBlobs THEN 0 ELSE 1)
    BY <2>1, <2>2
  <2> QED
    BY <1>1, <2>1, <2>3, <2>4, MoveKeeps
<1>3. CASE Mirror!FetchFails(g)
  <2> DEFINE r == [get[g] EXCEPT !.stage = "failed"]
  <2>1. /\ r \in Gets /\ r.stage = "failed" /\ r.addr = a /\ get[g].stage = "fetching"
        /\ get' = [get EXCEPT ![g] = r] /\ cachedBlobs' = cachedBlobs
        /\ cacheRefs' = [cacheRefs EXCEPT ![a] = @ + 0]
    BY <1>0, <1>3 DEF Mirror!FetchFails, Mirror!To, Gets, Stages
  <2>2. Owns(r, a) = 0 /\ Owns(get[g], a) = 0
    BY <2>1 DEF Owns
  <2>3. r.stage \in Fetching /\ get[g].stage \in Fetching
    BY <2>1 DEF Fetching
  <2> HIDE DEF r
  <2>4. 0 \in Int /\ 0 >= Owns(r, a) - Owns(get[g], a) + (IF cachedBlobs' = cachedBlobs THEN 0 ELSE 1)
    BY <2>1, <2>2
  <2> QED
    BY <1>1, <2>1, <2>3, <2>4, MoveKeeps
<1>4. CASE Mirror!Caches(g)
  <2> DEFINE r == [get[g] EXCEPT !.stage = "cached"]
  <2>1. /\ r \in Gets /\ r.stage = "cached" /\ r.addr = a /\ get[g].stage = "fetched"
        /\ get' = [get EXCEPT ![g] = r] /\ cachedBlobs' = cachedBlobs \union {a}
        /\ cacheRefs' = [cacheRefs EXCEPT ![a] = @ + 0]
    BY <1>0, <1>4 DEF Mirror!Caches, Mirror!To, Mirror!WithEntry, Gets, Stages
  <2>2. Owns(r, a) = 1 /\ Owns(get[g], a) = 2
    BY <2>1 DEF Owns
  <2>3. r.stage \in Fetching /\ get[g].stage \in Fetching
    BY <2>1 DEF Fetching
  <2> HIDE DEF r
  <2>4. 0 \in Int /\ 0 >= Owns(r, a) - Owns(get[g], a) + (IF cachedBlobs' = cachedBlobs THEN 0 ELSE 1)
    BY <2>1, <2>2
  <2> QED
    BY <1>1, <2>1, <2>3, <2>4, MoveKeeps
<1>5. CASE Mirror!Awake(g) \/ Mirror!Release(g)
  <2> DEFINE r == IF get[g].stage = "woken" THEN [get[g] EXCEPT !.stage = "again"] ELSE Mirror!Idle
             n == IF get[g].stage = "hold" THEN -1 ELSE 0
  <2>1. get[g].stage \in {"woken", "told", "hold"}
    BY <1>5 DEF Mirror!Awake, Mirror!Release
  <2>2. /\ get' = [get EXCEPT ![g] = r] /\ cachedBlobs' = cachedBlobs
        /\ cacheRefs' = [cacheRefs EXCEPT ![a] = @ + n]
    BY <1>0, <1>5 DEF Mirror!Awake, Mirror!Release, Mirror!To, Mirror!Add
  <2>3. /\ r \in Gets /\ r.stage \in {"again", "idle"}
        /\ r.stage = "again" => r.addr = a
    BY <1>0 DEF Mirror!Idle, Gets, Stages
  <2>4. Owns(r, a) = 0 /\ Owns(get[g], a) = -n
    BY <2>1, <2>3 DEF Owns
  <2>5. r.stage \in Busy => r.addr = a
    BY <2>3 DEF Busy
  <2>6. r.stage \notin Fetching
    BY <2>3 DEF Fetching
  <2>7. n \in Int
    OBVIOUS
  <2> HIDE DEF r, n
  <2>8. n >= Owns(r, a) - Owns(get[g], a) + (IF cachedBlobs' = cachedBlobs THEN 0 ELSE 1)
    BY <2>2, <2>4, <2>7
  <2> QED
    BY <1>1, <2>2, <2>3, <2>5, <2>6, <2>7, <2>8, MoveKeeps
<1> QED
  BY <1>2, <1>3, <1>4, <1>5

(* A fetch is over: its waiters have nothing yet, whatever they are told.  *)
LEMMA FetchedKeeps ==
  ASSUME IsFiniteSet(Getters), CacheOK, NEW g \in Getters, Mirror!Fetched(g)
  PROVE  CacheOK'
<1> DEFINE a == get[g].addr
<1>0. get \in [Getters -> Gets] /\ \A h \in Getters : get[h].stage \in Busy => get[h].addr \in Addr
  BY DEF CacheOK, CallsOK
<1>1. /\ get[g].stage \in {"cached", "failed"}
      /\ UNCHANGED <<cacheRefs, others, cachedBlobs, listed, toRemove>>
      /\ get' = [h \in Getters |->
           CASE h \in Mirror!Waiters(a) ->
                  [get[h] EXCEPT !.stage = IF get[g].stage = "cached" THEN "woken" ELSE "told"]
             [] h = g -> IF get[g].stage = "cached" THEN [get[g] EXCEPT !.stage = "hold"] ELSE Mirror!Idle
             [] OTHER -> get[h]]
  BY DEF Mirror!Fetched, Mirror!worker
<1>2. g \notin Mirror!Waiters(a)
  BY <1>1 DEF Mirror!Waiters
<1>3. ASSUME NEW h \in Getters
      PROVE  \/ get'[h] = get[h]
             \/ /\ get[h].stage = "wait" /\ get'[h].stage \in {"woken", "told"}
                /\ get'[h].addr = get[h].addr /\ get'[h] \in Gets
             \/ /\ h = g /\ get[h].stage = "cached" /\ get'[h].stage = "hold"
                /\ get'[h].addr = get[h].addr /\ get'[h] \in Gets
             \/ h = g /\ get[h].stage = "failed" /\ get'[h] = Mirror!Idle
  <2>1. CASE h \in Mirror!Waiters(a)
    <3>0. h # g
      BY <1>2, <2>1
    <3>1. get'[h] = [get[h] EXCEPT !.stage = IF get[g].stage = "cached" THEN "woken" ELSE "told"]
      BY <1>1, <2>1, <3>0
    <3>2. get[h].stage = "wait" /\ get[h] \in Gets
      BY <1>0, <2>1 DEF Mirror!Waiters
    <3> QED
      BY <3>1, <3>2 DEF Gets, Stages
  <2>2. CASE h = g
    <3>1. get'[g] = IF get[g].stage = "cached" THEN [get[g] EXCEPT !.stage = "hold"] ELSE Mirror!Idle
      BY <1>1, <1>2
    <3>2. get[g] \in Gets
      BY <1>0
    <3> QED
      BY <1>1, <2>2, <3>1, <3>2 DEF Gets, Stages
  <2>3. CASE h \notin Mirror!Waiters(a) /\ h # g
    BY <1>1, <2>3
  <2> QED
    BY <2>1, <2>2, <2>3
<1>4. Mirror!Idle \in Gets /\ Mirror!Idle.stage = "idle"
  BY DEF Mirror!Idle, Gets, Stages
<1>5. CallsOK'
  <2>1. get' \in [Getters -> Gets]
    <3>1. \A h \in Getters : get'[h] \in Gets
      BY <1>0, <1>3, <1>4
    <3>2. get' = [h \in Getters |-> get'[h]]
      BY <1>1
    <3> QED
      BY <3>1, <3>2
  <2>2. \A h \in Getters : get'[h].stage \in Busy => get'[h].addr \in Addr
    BY <1>0, <1>3, <1>4 DEF Busy, Stages
  <2> QED
    BY <1>1, <2>1, <2>2 DEF CacheOK, CallsOK
<1>6. ASSUME NEW b \in Addr
      PROVE  /\ Mirror!Fetchers(b)' \subseteq Mirror!Fetchers(b)
             /\ Mirror!HaveFile(b)' = Mirror!HaveFile(b) /\ Mirror!HaveOneMore(b)' = Mirror!HaveOneMore(b)
  BY <1>3, <1>4 DEF Mirror!Fetchers, Mirror!HaveFile, Mirror!HaveOneMore
<1>7. \A b \in Addr : cacheRefs'[b] - cacheRefs[b] >= Elsewhere(b)' - Elsewhere(b)
  BY <1>1, ElsewhereIsNumber DEF CacheOK, CallsOK, Elsewhere
<1> QED
  BY <1>5, <1>6, <1>7, OtherKeeps

(* The worker and others: get is as it was.                                *)
LEMMA WorkerKeeps ==
  ASSUME IsFiniteSet(Getters), CacheOK,
         \/ Mirror!List \/ Mirror!Evict
         \/ \E a \in Addr : Mirror!ReleaseRemoved(a) \/ Mirror!OthersAdd(a) \/ Mirror!OthersRelease(a)
  PROVE  CacheOK'
<1>0. cacheRefs \in [Addr -> Int] /\ (listed # Mirror!Nothing => toRemove = {})
  BY DEF CacheOK, CallsOK
<1>1. get' = get
  BY DEF Mirror!List, Mirror!Evict, Mirror!ReleaseRemoved, Mirror!OthersAdd, Mirror!OthersRelease
<1>2. \A b \in Addr : /\ Mirror!Fetchers(b)' \subseteq Mirror!Fetchers(b)
                      /\ Mirror!HaveFile(b)' = Mirror!HaveFile(b) /\ Mirror!HaveOneMore(b)' = Mirror!HaveOneMore(b)
  BY <1>1 DEF Mirror!Fetchers, Mirror!HaveFile, Mirror!HaveOneMore
<1>3. SUFFICES /\ cacheRefs' \in [Addr -> Int] /\ (listed' # Mirror!Nothing => toRemove' = {})
               /\ \A b \in Addr : cacheRefs'[b] - cacheRefs[b] >= Elsewhere(b)' - Elsewhere(b)
  BY <1>1, <1>2, OtherKeeps DEF CacheOK, CallsOK
<1>4. CASE Mirror!List
  <2>1. UNCHANGED <<cacheRefs, others, cachedBlobs, toRemove>> /\ toRemove = {}
    BY <1>4 DEF Mirror!List
  <2> QED
    BY <1>0, <2>1, ElsewhereIsNumber DEF Elsewhere
<1>5. CASE Mirror!Evict
  <2>1. PICK out \in SUBSET (listed \intersect cachedBlobs) : toRemove' = out /\ cachedBlobs' = cachedBlobs \ out
    BY <1>5 DEF Mirror!Evict
  <2>2. listed # Mirror!Nothing /\ listed' = Mirror!Nothing /\ UNCHANGED <<cacheRefs, others>>
    BY <1>5 DEF Mirror!Evict
  <2>3. \A b \in Addr : Elsewhere(b)' = Elsewhere(b)
    BY <1>0, <2>1, <2>2 DEF Elsewhere, Mirror!One
  <2> QED
    BY <1>0, <2>2, <2>3, ElsewhereIsNumber
<1>6. ASSUME NEW a \in Addr, Mirror!ReleaseRemoved(a)
      PROVE  /\ cacheRefs' \in [Addr -> Int] /\ (listed' # Mirror!Nothing => toRemove' = {})
             /\ \A b \in Addr : cacheRefs'[b] - cacheRefs[b] >= Elsewhere(b)' - Elsewhere(b)
  <2>1. /\ a \in toRemove /\ toRemove' = toRemove \ {a} /\ UNCHANGED <<others, cachedBlobs, listed>>
        /\ cacheRefs' = [cacheRefs EXCEPT ![a] = @ - 1]
    BY <1>0, <1>6 DEF Mirror!ReleaseRemoved, Mirror!Add
  <2>2. ASSUME NEW b \in Addr PROVE cacheRefs'[b] - cacheRefs[b] >= Elsewhere(b)' - Elsewhere(b)
    <3>0. a \in toRemove /\ toRemove' = toRemove \ {a} /\ UNCHANGED <<others, cachedBlobs>>
      BY <2>1
    <3>1. Elsewhere(b)' = Elsewhere(b) - (IF b = a THEN 1 ELSE 0)
      BY ONLY <3>0 DEF Elsewhere, Mirror!One
    <3>2. cacheRefs'[b] = cacheRefs[b] - (IF b = a THEN 1 ELSE 0) /\ cacheRefs[b] \in Int
      BY <1>0, <2>1
    <3> QED
      BY <3>1, <3>2, ElsewhereIsNumber
  <2> QED
    BY <1>0, <2>1, <2>2
<1>7. ASSUME NEW a \in Addr, Mirror!OthersAdd(a) \/ Mirror!OthersRelease(a)
      PROVE  /\ cacheRefs' \in [Addr -> Int] /\ (listed' # Mirror!Nothing => toRemove' = {})
             /\ \A b \in Addr : cacheRefs'[b] - cacheRefs[b] >= Elsewhere(b)' - Elsewhere(b)
  <2>1. PICK n \in {1, -1} : /\ cacheRefs' = [cacheRefs EXCEPT ![a] = @ + n]
                             /\ n = 1 => a \notin others /\ others' = others \union {a}
                             /\ n = -1 => a \in others /\ others' = others \ {a}
                             /\ UNCHANGED <<cachedBlobs, listed, toRemove>>
    BY <1>0, <1>7 DEF Mirror!OthersAdd, Mirror!OthersRelease, Mirror!Add, Mirror!worker
  <2>2. ASSUME NEW b \in Addr PROVE cacheRefs'[b] - cacheRefs[b] >= Elsewhere(b)' - Elsewhere(b)
    <3>0. /\ n \in {1, -1} /\ UNCHANGED <<cachedBlobs, toRemove>>
          /\ n = 1 => a \notin others /\ others' = others \union {a}
          /\ n = -1 => a \in others /\ others' = others \ {a}
      BY <2>1
    <3>1. Elsewhere(b)' = Elsewhere(b) + (IF b = a THEN n ELSE 0)
      BY ONLY <3>0 DEF Elsewhere, Mirror!One
    <3>2. cacheRefs'[b] = cacheRefs[b] + (IF b = a THEN n ELSE 0) /\ cacheRefs[b] \in Int
      BY <1>0, <2>1
    <3> QED
      BY <2>1, <3>1, <3>2, ElsewhereIsNumber
  <2> QED
    BY <1>0, <2>1, <2>2
<1> QED
  BY <1>4, <1>5, <1>6, <1>7

LEMMA CacheBegins == IsFiniteSet(Getters) /\ Mirror!Init => CacheOK
<1> SUFFICES ASSUME IsFiniteSet(Getters), Mirror!Init PROVE CacheOK
  OBVIOUS
<1> USE DEF Mirror!Init
<1>1. Mirror!Idle \in Gets /\ Mirror!Idle.stage = "idle"
  BY DEF Mirror!Idle, Gets, Stages
<1>2. \A a : Mirror!Fetchers(a) = {} /\ Mirror!HaveFile(a) = {} /\ Mirror!HaveOneMore(a) = {}
  BY <1>1 DEF Mirror!Fetchers, Mirror!HaveFile, Mirror!HaveOneMore
<1>3. \A a \in Addr : Mirror!OfGets(a) = 0
  BY <1>2, OfGetsIs, FS_EmptySet
<1>4. \A a \in Addr : Elsewhere(a) = 0
  BY DEF Elsewhere, Mirror!One
<1>5. CallsOK /\ OneFetcher
  BY <1>1, <1>2 DEF CallsOK, OneFetcher, Busy
<1> QED
  BY <1>3, <1>4, <1>5 DEF CacheOK, RefsCover

LEMMA CacheStep == IsFiniteSet(Getters) /\ CacheOK /\ [Mirror!Next]_(Mirror!cacheVars) => CacheOK'
<1> SUFFICES ASSUME IsFiniteSet(Getters), CacheOK, [Mirror!Next]_(Mirror!cacheVars) PROVE CacheOK'
  OBVIOUS
<1>1. CASE UNCHANGED Mirror!cacheVars
  BY <1>1 DEF Mirror!cacheVars, CacheOK, CallsOK, OneFetcher, RefsCover, Elsewhere,
              Mirror!Fetchers, Mirror!OfGets, Mirror!HaveFile, Mirror!HaveOneMore
<1> QED
  BY <1>1, GetKeeps, CallGoesOn, FetchedKeeps, WorkerKeeps DEF Mirror!Next

(* BlobCache: whatever calls, fetches, failures and cleanups overlap, the  *)
(* references of a blob cover everybody who has one, so that the store     *)
(* deletes no file under them; and an address is fetched once at a time.   *)
THEOREM CacheStaysSound == IsFiniteSet(Getters) => (Mirror!Spec => []CacheIsSound)
<1> SUFFICES ASSUME IsFiniteSet(Getters) PROVE Mirror!Spec => []CacheIsSound
  OBVIOUS
<1>1. CacheOK => CacheIsSound
  <2> SUFFICES ASSUME CacheOK, NEW a \in Addr
               PROVE  /\ cacheRefs[a] >= Mirror!OfGets(a) + Mirror!One(a \in cachedBlobs)
                                           + Mirror!One(a \in toRemove) + Mirror!One(a \in others)
                      /\ Mirror!Cardinality(Mirror!Fetchers(a)) <= 1
    BY DEF CacheIsSound, Mirror!CacheIsSound
  <2>0. cacheRefs[a] >= Mirror!OfGets(a) + Mirror!One(a \in cachedBlobs)
                          + Mirror!One(a \in toRemove) + Mirror!One(a \in others)
    <3>1. cacheRefs[a] >= Mirror!OfGets(a) + Elsewhere(a) /\ Mirror!OfGets(a) \in Nat
      BY OfGetsIs DEF CacheOK, RefsCover
    <3> QED
      BY <3>1 DEF Elsewhere, Mirror!One
  <2>1. Mirror!Cardinality(Mirror!Fetchers(a)) = Cardinality(Mirror!Fetchers(a))
    BY DEF Cardinality, Mirror!Cardinality
  <2>2. CASE Mirror!Fetchers(a) = {}
    <3>1. Cardinality(Mirror!Fetchers(a)) = 0
      BY <2>2, FS_EmptySet
    <3> QED
      BY <2>0, <2>1, <3>1
  <2>3. CASE Mirror!Fetchers(a) # {}
    <3>0. PICK g \in Mirror!Fetchers(a) : TRUE
      BY <2>3
    <3>1. Mirror!Fetchers(a) = {g}
      BY <3>0 DEF CacheOK, OneFetcher
    <3>2. Cardinality(Mirror!Fetchers(a)) = 1
      BY <3>1, FS_Singleton
    <3> QED
      BY <2>0, <2>1, <3>2
  <2> QED
    BY <2>2, <2>3
<1>2. Mirror!Init => CacheOK
  BY CacheBegins
<1>3. CacheOK /\ [Mirror!Next]_(Mirror!cacheVars) => CacheOK'
  BY CacheStep
<1> QED
  BY <1>1, <1>2, <1>3, PTL DEF Mirror!Spec
=============================================================================
