------------------------------ MODULE BlobStore ------------------------------
(***************************************************************************)
(* internal/grits/blobstore.go: LocalBlobStore, the reference-counted      *)
(* store of blobs on disk that every other part of the server builds on.   *)
(*                                                                         *)
(* bs.files is kept as the set files of its keys and one function per      *)
(* field of LocalCachedFile that matters (RefCount, ExpiresAt); the disk   *)
(* is what os.WriteFile, os.Rename, os.Remove and os.Chtimes leave there.  *)
(* A handle is one caller's obligation: an upload being staged, a data     *)
(* block being written, or one reference that must be Released once.       *)
(* bs.mtx is held over a whole operation, so an operation is one step;     *)
(* os.WriteFile is the exception: it can be interrupted half way, so       *)
(* AddDataBlock takes two steps and the lock is held from one to the other.*)
(***************************************************************************)
EXTENDS Integers, FiniteSets

CONSTANTS
  Addr,           \* blob addresses; an address stands for its one content
  Handles,        \* outstanding calls and references
  NoAddr,
  Durations,      \* the arguments of Touch
  MaxClock,       \* bound on the clock
  MaxCrashes,     \* bound on the number of times the process ends
  ValidateBlobs,  \* config.ValidateBlobs
  Faults          \* which file operations may fail

ASSUME AddrAssumption == NoAddr \notin Addr
ASSUME HandlesAssumption == IsFiniteSet(Handles)
ASSUME BoundsAssumption == MaxClock \in Nat /\ MaxCrashes \in Nat
ASSUME DurationsAssumption == Durations \subseteq Nat
ASSUME ConfigAssumption ==
  /\ ValidateBlobs \in BOOLEAN
  /\ Faults \subseteq {"write", "rename", "remove", "chtimes", "read"}

VARIABLES
  up,         \* the process runs and has opened the store
  clock,      \* time.Now()
  files,      \* the keys of bs.files
  refCount,   \* cf.RefCount (0 for an address that is not in files)
  expiresAt,  \* cf.ExpiresAt (0, the zero time, for the others)
  disk,       \* the file at blobToPath(addr)
  mtime,      \* its modification time
  stage,      \* what each handle is doing
  addr,       \* the address it is doing it to
  worker,     \* the eviction worker
  crashes,    \* how often the process has ended
  refused,    \* NewLocalBlobStore gave up on the last attempt to open it
  keepUntil   \* history: the lifetime the last Touch of an address asked for

mem == <<files, refCount, expiresAt>>
media == <<disk, mtime>>
callers == <<stage, addr>>
storeVars == <<up, clock, mem, media, callers, worker, crashes, refused, keepUntil>>

StoreInit ==
  /\ up = TRUE
  /\ clock = 1
  /\ files = {}
  /\ refCount = [a \in Addr |-> 0]
  /\ expiresAt = [a \in Addr |-> 0]
  /\ disk = [a \in Addr |-> "none"]
  /\ mtime = [a \in Addr |-> 0]
  /\ stage = [h \in Handles |-> "idle"]
  /\ addr = [h \in Handles |-> NoAddr]
  /\ worker = "running"
  /\ crashes = 0
  /\ refused = FALSE
  /\ keepUntil = [a \in Addr |-> 0]

Holders(a) == {h \in Handles : stage[h] = "held" /\ addr[h] = a}

(* bs.mtx is free: no AddDataBlock is inside os.WriteFile. *)
Unlocked == up /\ \A h \in Handles : stage[h] # "writing"

(* time.Now().After(cf.ExpiresAt) *)
Lapsed(a) == clock > expiresAt[a]

Become(h, s, a) ==
  /\ stage' = [stage EXCEPT ![h] = s]
  /\ addr' = [addr EXCEPT ![h] = a]

Mut_ReferenceUncounted(h, a) ==
  /\ a \in files
  /\ Become(h, "held", a)
  /\ UNCHANGED <<mem, media>>

(* One more reference on a file the store knows. *)
Reference(h, a) ==
  /\ a \in files
  /\ refCount' = [refCount EXCEPT ![a] = @ + 1]
  /\ Become(h, "held", a)
  /\ UNCHANGED <<files, expiresAt, media>>

(* A new entry of bs.files: one reference, no future expiry. *)
Enter(h, a) ==
  /\ files' = files \union {a}
  /\ refCount' = [refCount EXCEPT ![a] = 1]
  /\ expiresAt' = [expiresAt EXCEPT ![a] = 0]
  /\ disk' = [disk EXCEPT ![a] = "whole"]
  /\ mtime' = [mtime EXCEPT ![a] = clock]
  /\ Become(h, "held", a)

(* delete(bs.files, a) and os.Remove for every a of gone; those of failed  *)
(* only leave the map.                                                     *)
Discard(gone, failed) ==
  /\ failed # {} => "remove" \in Faults
  /\ files' = files \ gone
  /\ expiresAt' = [a \in Addr |-> IF a \in gone THEN 0 ELSE expiresAt[a]]
  /\ disk' = [a \in Addr |-> IF a \in gone \ failed THEN "none" ELSE disk[a]]
  /\ mtime' = [a \in Addr |-> IF a \in gone \ failed THEN 0 ELSE mtime[a]]
-----------------------------------------------------------------------------
(* ReadFile of a blob that is here. A miss goes to the fetchers, which     *)
(* bring the blob in through AddReader.                                    *)
ReadFile(h, a) ==
  /\ Unlocked
  /\ stage[h] = "idle"
  /\ Reference(h, a)
  /\ UNCHANGED <<up, clock, worker, crashes, refused, keepUntil>>

(* AddReader, first half: hash and copy to a temporary file, no lock held. *)
AddReaderCopy(h, a) ==
  /\ up
  /\ stage[h] = "idle"
  /\ Become(h, "staged", a)
  /\ UNCHANGED <<up, clock, mem, media, worker, crashes, refused, keepUntil>>

(* AddReader, second half: the blob came in meanwhile, or is moved in. *)
AddReaderStore(h) ==
  /\ Unlocked
  /\ stage[h] = "staged"
  /\ \/ Reference(h, addr[h])
     \/ addr[h] \notin files /\ Enter(h, addr[h])
  /\ UNCHANGED <<up, clock, worker, crashes, refused, keepUntil>>

AddReaderFail(h) ==
  /\ "rename" \in Faults
  /\ Unlocked
  /\ stage[h] = "staged"
  /\ addr[h] \notin files
  /\ Become(h, "idle", NoAddr)
  /\ UNCHANGED <<up, clock, mem, media, worker, crashes, refused, keepUntil>>

AddDataBlockKnown(h, a) ==
  /\ Unlocked
  /\ stage[h] = "idle"
  /\ Reference(h, a)
  /\ UNCHANGED <<up, clock, worker, crashes, refused, keepUntil>>

(* os.WriteFile truncates the file in place, then fills it. *)
AddDataBlockWrite(h, a) ==
  /\ Unlocked
  /\ stage[h] = "idle"
  /\ a \notin files
  /\ disk' = [disk EXCEPT ![a] = "torn"]
  /\ mtime' = [mtime EXCEPT ![a] = clock]
  /\ Become(h, "writing", a)
  /\ UNCHANGED <<up, clock, mem, worker, crashes, refused, keepUntil>>

AddDataBlockDone(h) ==
  /\ stage[h] = "writing"
  /\ Enter(h, addr[h])
  /\ UNCHANGED <<up, clock, worker, crashes, refused, keepUntil>>

(* A failed os.WriteFile is reported and leaves what it wrote behind. *)
AddDataBlockFail(h) ==
  /\ "write" \in Faults
  /\ stage[h] = "writing"
  /\ Become(h, "idle", NoAddr)
  /\ UNCHANGED <<up, clock, mem, media, worker, crashes, refused, keepUntil>>

Mut_ChtimesSwapped(a, t) == mtime' = [mtime EXCEPT ![a] = clock]

(* os.Chtimes makes the expiry survive a restart; a failure is only logged. *)
Chtimes(a, t) ==
  \/ mtime' = [mtime EXCEPT ![a] = t]
  \/ "chtimes" \in Faults /\ UNCHANGED mtime

(* Touch by the holder of a reference. *)
Touch(h, d) ==
  /\ Unlocked
  /\ stage[h] = "held"
  /\ clock + d < MaxClock
  /\ expiresAt' = [expiresAt EXCEPT ![addr[h]] = clock + d]
  /\ keepUntil' = [keepUntil EXCEPT ![addr[h]] = clock + d]
  /\ Chtimes(addr[h], clock + d)
  /\ UNCHANGED <<up, clock, files, refCount, disk, callers, worker, crashes, refused>>

(* The holder g of a reference takes another one, held by h. *)
Take(g, h) ==
  /\ Unlocked
  /\ stage[g] = "held"
  /\ stage[h] = "idle"
  /\ refCount' = [refCount EXCEPT ![addr[g]] = @ + 1]
  /\ Become(h, "held", addr[g])
  /\ UNCHANGED <<up, clock, files, expiresAt, media, worker, crashes, refused, keepUntil>>

(* Release: the last reference of a blob with no time left removes it. *)
Release(h) ==
  /\ Unlocked
  /\ stage[h] = "held"
  /\ LET a == addr[h] IN
       /\ refCount' = [refCount EXCEPT ![a] = @ - 1]
       /\ \/ /\ refCount[a] = 1 /\ Lapsed(a)
             /\ \E failed \in SUBSET {a} : Discard({a}, failed)
          \/ /\ ~(refCount[a] = 1 /\ Lapsed(a))
             /\ UNCHANGED <<files, expiresAt, media>>
  /\ Become(h, "idle", NoAddr)
  /\ UNCHANGED <<up, clock, worker, crashes, refused, keepUntil>>

Mut_ExpiredNegative == {a \in files : refCount[a] < 0 /\ Lapsed(a)}

(* The entries EvictOldFiles does not skip. *)
Expired == {a \in files : refCount[a] <= 0 /\ Lapsed(a)}

Sweep ==
  /\ Unlocked
  /\ \E failed \in SUBSET Expired : Discard(Expired, failed)
  /\ UNCHANGED <<up, clock, refCount, callers, crashes, refused, keepUntil>>

EvictOldFiles == worker = "running" /\ Sweep /\ UNCHANGED worker

(* Stop: the worker sweeps once more and returns. *)
StopWorker == worker = "running" /\ Sweep /\ worker' = "stopped"

Tick ==
  /\ clock < MaxClock
  /\ clock' = clock + 1
  /\ UNCHANGED <<up, mem, media, callers, worker, crashes, refused, keepUntil>>

(* The process ends, by choice or not: what is in memory is gone. *)
Crash ==
  /\ up
  /\ crashes < MaxCrashes
  /\ crashes' = crashes + 1
  /\ up' = FALSE
  /\ files' = {}
  /\ refCount' = [a \in Addr |-> 0]
  /\ expiresAt' = [a \in Addr |-> 0]
  /\ stage' = [h \in Handles |-> "idle"]
  /\ addr' = [h \in Handles |-> NoAddr]
  /\ worker' = "off"
  /\ UNCHANGED <<clock, media, refused, keepUntil>>

(* The blobs filepath.Walk finds; files whose name is no address are skipped. *)
OnDisk == {a \in Addr : disk[a] # "none"}

(* Every file matches its address, where the configuration asks to look. *)
ScanPasses == ValidateBlobs => \A a \in OnDisk : disk[a] = "whole"

(* NewLocalBlobStore and Start: every file found is adopted and its mtime  *)
(* read back as its expiry.                                                *)
Restart ==
  /\ ~up
  /\ ScanPasses
  /\ up' = TRUE
  /\ refused' = FALSE
  /\ files' = OnDisk
  /\ expiresAt' = [a \in Addr |-> IF a \in OnDisk THEN mtime[a] ELSE 0]
  /\ worker' = "running"
  /\ UNCHANGED <<clock, refCount, media, callers, crashes, keepUntil>>

(* With ValidateBlobs one file that cannot be read or does not match its   *)
(* address ends the scan, and the store does not open.                     *)
RefuseStart ==
  /\ ~up
  /\ ValidateBlobs
  /\ \E a \in OnDisk : disk[a] = "torn" \/ "read" \in Faults
  /\ refused' = TRUE
  /\ UNCHANGED <<up, clock, mem, media, callers, worker, crashes, keepUntil>>

StoreNext ==
  \/ \E h \in Handles, a \in Addr :
       \/ ReadFile(h, a)
       \/ AddReaderCopy(h, a)
       \/ AddDataBlockKnown(h, a)
       \/ AddDataBlockWrite(h, a)
  \/ \E h \in Handles :
       \/ AddReaderStore(h)
       \/ AddReaderFail(h)
       \/ AddDataBlockDone(h)
       \/ AddDataBlockFail(h)
       \/ Release(h)
  \/ \E h \in Handles, d \in Durations : Touch(h, d)
  \/ \E g, h \in Handles : Take(g, h)
  \/ EvictOldFiles
  \/ StopWorker
  \/ Tick
  \/ Crash
  \/ Restart
  \/ RefuseStart

(* Time passes; a write ends; the worker's ticker fires every 30 seconds   *)
(* and sync.Mutex does not starve it (strong fairness: other callers may   *)
(* hold the lock whenever it looks).                                       *)
Fairness ==
  /\ WF_storeVars(Tick)
  /\ \A h \in Handles : WF_storeVars(AddDataBlockDone(h))
  /\ SF_storeVars(EvictOldFiles)

StoreSpec == StoreInit /\ [][StoreNext]_storeVars
-----------------------------------------------------------------------------
(* Every variable has its type. *)
StoreTypeOK ==
  /\ up \in BOOLEAN
  /\ clock \in Nat
  /\ files \in SUBSET Addr
  /\ refCount \in [Addr -> Int]
  /\ expiresAt \in [Addr -> Nat]
  /\ disk \in [Addr -> {"none", "torn", "whole"}]
  /\ mtime \in [Addr -> Nat]
  /\ stage \in [Handles -> {"idle", "staged", "writing", "held"}]
  /\ addr \in [Handles -> Addr \union {NoAddr}]
  /\ worker \in {"running", "stopped", "off"}
  /\ crashes \in Nat
  /\ refused \in BOOLEAN
  /\ keepUntil \in [Addr -> Nat]

(* Release calls log.Fatalf when a count goes below zero, and deletes the  *)
(* file when it reaches zero: the count of a blob is exactly the number of *)
(* references its callers still hold, through every interleaving of        *)
(* uploads, dups, evictions and restarts.                                  *)
RefCountExact == \A a \in Addr : refCount[a] = Cardinality(Holders(a))

(* Release and EvictOldFiles remove files under a lock that AddReader's    *)
(* copy does not hold: a blob somebody holds a reference on is still in    *)
(* bs.files and still on disk.                                             *)
HeldOnDisk ==
  \A h \in Handles : stage[h] = "held" => addr[h] \in files /\ disk[addr[h]] # "none"

(* What a reference gives access to is the complete blob: true as long as  *)
(* a file half written by an interrupted AddDataBlock is never adopted.    *)
HeldIntact ==
  \A h \in Handles : stage[h] = "held" => disk[addr[h]] = "whole"

(* Touch: "Persist to disk so the expiry survives a restart". A blob is on *)
(* disk, and known to a running store, until the lifetime the last Touch   *)
(* asked for is over, through releases, sweeps, crashes and restarts.      *)
TouchedIsKept ==
  \A a \in Addr : keepUntil[a] >= clock => disk[a] # "none" /\ (up => a \in files)

(* An entry of bs.files always has its file, so a ReadFile hit can be      *)
(* opened; only a file whose removal failed is on disk without an entry.   *)
KnownIsOnDisk == \A a \in files : disk[a] # "none"

(* EvictOldFiles: a blob nobody references does not stay in the store for  *)
(* ever while the worker runs (when the bounded clock can reach the end of *)
(* its lifetime).                                                          *)
GarbageIsEvicted ==
  \A a \in Addr :
    (a \in files /\ refCount[a] = 0 /\ expiresAt[a] < MaxClock /\ worker = "running")
      ~> (a \notin files \/ refCount[a] > 0 \/ worker # "running")

(* BlobStore implements the contract of PinStore: what is stored is what   *)
(* is complete on disk.                                                    *)
Pinned == INSTANCE PinStore WITH
          stored  <- {a \in Addr : disk[a] = "whole"},
          pins    <- refCount,
          guarded <- {a \in Addr : keepUntil[a] >= clock}
ImplementsPinStore == Pinned!Spec
=============================================================================
