----------------------------- MODULE RemoteTree -----------------------------
(***************************************************************************)
(* internal/grits/namestore.go, resolvePath and resolveFromFetchers, with  *)
(* RemoteVolume (internal/gritsd/module_remote.go) for the fetcher: a      *)
(* read-only volume whose tree is another server's. A lookup that is not   *)
(* answered from the tree as it was last fetched asks the other server,    *)
(* and its answer brings the root that the tree has from then on.          *)
(*                                                                         *)
(* ns.treeMtx is a sync.RWMutex: a Lock waits for the readers, and an      *)
(* RLock waits for a Lock that waits. The lookups of HTTP clients hold     *)
(* RLockTree (handleLookup); those of mounts, of the service worker and of *)
(* RemoteVolume itself (LocalVolume.LookupNode) hold nothing.              *)
(***************************************************************************)
EXTENDS Integers

CONSTANTS
  Lookups,
  Web,         \* those of HTTP clients
  None,        \* nobody; no answer
  MaxSerial    \* bound on the changes of the other server's tree

VARIABLES
  remote,      \* the serial number of the other server's tree, for its root as well
  rootAddr,
  serialNumber,
  recent,      \* time.Since(lastFetch) is not over CacheDuration
  readers,     \* of treeMtx
  writer,
  lookup       \* what each lookup does, and the serial number of its answer

remoteVars == <<remote, rootAddr, serialNumber, recent, readers, writer, lookup>>
treeMtx == <<readers, writer>>

NewLookup == [stage |-> "idle", answer |-> None]

Init ==
  /\ remote = 1
  /\ rootAddr = 0
  /\ serialNumber = 0
  /\ recent = FALSE
  /\ readers = {}
  /\ writer = None
  /\ lookup = [l \in Lookups |-> NewLookup]

To(l, stage) == lookup' = [lookup EXCEPT ![l].stage = stage]
At(stage) == {l \in Lookups : lookup[l].stage = stage}
-----------------------------------------------------------------------------
RemoteChanges ==
  /\ remote < MaxSerial
  /\ remote' = remote + 1
  /\ UNCHANGED <<rootAddr, serialNumber, recent, treeMtx, lookup>>

CacheDurationOver ==
  /\ recent
  /\ recent' = FALSE
  /\ UNCHANGED <<remote, rootAddr, serialNumber, treeMtx, lookup>>

Start(l) ==
  /\ lookup[l].stage = "idle"
  /\ IF l \in Web THEN /\ writer = None
                       /\ At("lock") = {}
                       /\ readers' = readers \union {l}
                  ELSE UNCHANGED readers
  /\ To(l, "resolve")
  /\ UNCHANGED <<remote, rootAddr, serialNumber, recent, writer>>

(* resolvePath: from the local tree, when it is recent and what it needs   *)
(* of it can be loaded.                                                    *)
Resolve(l) ==
  /\ lookup[l].stage = "resolve"
  /\ \/ recent /\ To(l, "done")
     \/ To(l, "fetch")
  /\ UNCHANGED <<remote, rootAddr, serialNumber, recent, treeMtx>>

(* FetchPath: the other server answers, and the answer arrives later.      *)
FetchPath(l) ==
  /\ lookup[l].stage = "fetch"
  /\ \/ lookup' = [lookup EXCEPT ![l] = [stage |-> "lock", answer |-> remote]]
     \/ To(l, "done")
  /\ UNCHANGED <<remote, rootAddr, serialNumber, recent, treeMtx>>

(* treeMtx.Lock()                                                          *)
Lock(l) ==
  /\ lookup[l].stage = "lock"
  /\ writer = None
  /\ readers = {}
  /\ writer' = l
  /\ To(l, "update")
  /\ UNCHANGED <<remote, rootAddr, serialNumber, recent, readers>>

Mut_RootAlone(answer) == rootAddr' = answer /\ UNCHANGED serialNumber

(* A root that is newer than the one there is, with its number.            *)
Install(answer) ==
  IF answer > serialNumber
  THEN rootAddr' = answer /\ serialNumber' = answer
  ELSE UNCHANGED <<rootAddr, serialNumber>>

(* loadFileNode fetches what it needs of the new root with the lock held.  *)
(* An answer that is older than the tree ("Out of order lookup response")  *)
(* and one whose root cannot be loaded leave everything as it is; one that *)
(* is not newer only counts as a fetch.                                    *)
Update(l) ==
  LET answer == lookup[l].answer IN
  /\ lookup[l].stage = "update"
  /\ \/ UNCHANGED <<rootAddr, serialNumber, recent>>
     \/ /\ answer >= serialNumber
        /\ recent' = TRUE
        /\ Install(answer)
  /\ writer' = None
  /\ To(l, "done")
  /\ UNCHANGED <<remote, readers>>

Return(l) ==
  /\ lookup[l].stage = "done"
  /\ readers' = readers \ {l}
  /\ lookup' = [lookup EXCEPT ![l] = NewLookup]
  /\ UNCHANGED <<remote, rootAddr, serialNumber, recent, writer>>

GoesOn(l) == Resolve(l) \/ FetchPath(l) \/ Update(l) \/ Return(l)

Next ==
  \/ RemoteChanges \/ CacheDurationOver
  \/ \E l \in Lookups : Start(l) \/ GoesOn(l) \/ Lock(l)

(* A request to the other server ends, with http.Client's timeout of 30 s  *)
(* if not before; a mutex does not pass the same waiter over for ever.     *)
Fairness == \A l \in Lookups : WF_remoteVars(GoesOn(l)) /\ SF_remoteVars(Lock(l))

Spec == Init /\ [][Next]_remoteVars /\ Fairness
-----------------------------------------------------------------------------
(* resolveFromFetchers: answers overtake each other, and requests to the   *)
(* other server overlap; the tree never goes back to an older root, and    *)
(* its root is the one of its serial number.                               *)
RootNeverGoesBack ==
  [][/\ serialNumber' >= serialNumber
     /\ rootAddr' = serialNumber']_<<rootAddr, serialNumber>>

(* A lookup comes to an end: "no locks held during network I/O" (namestore *)
(* .go:2261), and none that could keep Lock from the answer. It holds of   *)
(* lookups without the lock; one that came in over HTTP waits for itself.  *)
LookupsReturn == \A l \in Lookups : lookup[l].stage # "idle" ~> lookup[l].stage = "idle"
=============================================================================
