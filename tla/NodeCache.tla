----------------------------- MODULE NodeCache -----------------------------
(***************************************************************************)
(* internal/grits/namestore.go: ns.fileCache, the one loaded node per      *)
(* metadata address, between those who load nodes (loadFileNode), create   *)
(* them (CreateTreeNode), reference them (Take, Release) and drop them     *)
(* (DenseRefManager.cleanup).                                              *)
(*                                                                         *)
(* DenseRefs takes a load as one step; here it has the steps the code has. *)
(* An address is claimed by an in-flight entry under cacheMtx, the blobs   *)
(* are read without a lock, the entry is filled under cacheMtx. Node       *)
(* objects have an identity of their own: whether two of them can exist    *)
(* for one address is what is at stake, because cleanup and the reference  *)
(* manager go by address and FileNode.refCount by object.                  *)
(***************************************************************************)
EXTENDS Integers, FiniteSets

CONSTANTS
  Addr,       \* metadata addresses
  Callers,
  Object,     \* node objects (a bound, see RoomForOneMore)
  Absent,     \* no entry, no object, no address
  Ops         \* what the callers do at each address, see Operations

(* get: GetFileNode, also for LocalVolume.LookupNode. make: CreateTreeNode *)
(* of LocalVolume. Both work without the lock of the tree. lookup:         *)
(* handleLookup and NameStore.LookupNode, under RLockTree.                 *)
(* link, unlink: a MultiLink that puts an existing node into the tree or   *)
(* takes it out; mkdir: one that creates the node. All three hold treeMtx. *)
Unlocked == {"get", "make"}
Exclusive == {"link", "unlink", "mkdir"}
Creating == {"make", "mkdir"}
Operations == Unlocked \union Exclusive \union {"lookup"}

ASSUME OpsAssumption == Ops \in [Addr -> SUBSET Operations]
ASSUME DistinctAssumption ==
  /\ Absent \notin Addr \union Callers \union Object
  /\ Callers \intersect Object = {}
ASSUME CallersAssumption == IsFiniteSet(Callers)

VARIABLES
  present,    \* addresses whose metadata and content are in the blob store
  cache,      \* ns.fileCache: an object, the caller whose load is in flight, or Absent
  addrOf,     \* what address an object was made for
  pinned,     \* objects that have their references on metadata and content
  refs,       \* refCount of each object
  managed,    \* addresses with an entry in DenseRefManager.refCount
  op, at, stage, node,  \* what each caller does, for which address, and the object it has
  overtaken   \* history: addresses where a node was installed over an entry in flight

caller == <<op, at, stage, node>>
vars == <<present, cache, addrOf, pinned, refs, managed, caller, overtaken>>

Init ==
  /\ present = {}
  /\ cache = [a \in Addr |-> Absent]
  /\ addrOf = [o \in Object |-> Absent]
  /\ pinned = {}
  /\ refs = [o \in Object |-> 0]
  /\ managed = {}
  /\ op = [c \in Callers |-> "idle"]
  /\ at = [c \in Callers |-> Absent]
  /\ stage = [c \in Callers |-> "idle"]
  /\ node = [c \in Callers |-> Absent]
  /\ overtaken = {}

(* An object that nothing leads to any more. *)
Free == {o \in Object : /\ o \notin pinned
                        /\ \A a \in Addr : cache[a] # o
                        /\ \A c \in Callers : node[c] # o}

Working(c) == stage[c] \notin {"idle", "hold"}

(* The bound on objects: an operation starts only while there is an object *)
(* left for it, so none gets stuck for want of one.                        *)
RoomForOneMore == Cardinality({c \in Callers : Working(c)}) < Cardinality(Free)

(* treeMtx is a sync.RWMutex.                                              *)
Writing == \E c \in Callers : Working(c) /\ op[c] \in Exclusive
Reading == \E c \in Callers : Working(c) /\ op[c] = "lookup"

CanLock(o) ==
  /\ o \in Exclusive => ~Writing /\ ~Reading
  /\ o = "lookup" => ~Writing

(* The operation returns. *)
Done(c) ==
  /\ op' = [op EXCEPT ![c] = "idle"]
  /\ at' = [at EXCEPT ![c] = Absent]
  /\ node' = [node EXCEPT ![c] = Absent]

Wake(s) == [d \in Callers |-> IF s[d] = "wait" THEN "ask" ELSE s[d]]
Mut_WakeNobody(s) == s

(* cacheCond.Broadcast: every waiter looks again.                          *)
Broadcast(s) == Wake(s)
-----------------------------------------------------------------------------
(* The blobs of a node are uploaded or fetched.                            *)
Arrive(a) ==
  /\ a \notin present
  /\ present' = present \union {a}
  /\ UNCHANGED <<cache, addrOf, pinned, refs, managed, caller, overtaken>>

(* The blob store drops what nobody references.                            *)
Vanish(a) ==
  /\ a \in present
  /\ \A o \in pinned : addrOf[o] # a
  /\ present' = present \ {a}
  /\ UNCHANGED <<cache, addrOf, pinned, refs, managed, caller, overtaken>>

Start(c, o, a) ==
  /\ stage[c] = "idle"
  /\ RoomForOneMore
  /\ CanLock(o)
  /\ o \in {"lookup", "unlink"} => a \in managed
  /\ op' = [op EXCEPT ![c] = o]
  /\ at' = [at EXCEPT ![c] = a]
  /\ stage' = [stage EXCEPT ![c] = IF o \in Creating THEN "create" ELSE "ask"]
  /\ UNCHANGED <<present, cache, addrOf, pinned, refs, managed, node, overtaken>>

Claimed(a) == cache[a] \in Callers
Mut_NeverClaimed(a) == FALSE

(* Somebody else's load of the address is under way.                       *)
InFlight(a) == Claimed(a)

(* loadFileNode, under cacheMtx: found, in flight, or to be claimed.       *)
Ask(c) ==
  /\ stage[c] = "ask"
  /\ \/ /\ cache[at[c]] \in Object
        /\ stage' = [stage EXCEPT ![c] = "got"]
        /\ node' = [node EXCEPT ![c] = cache[at[c]]]
        /\ UNCHANGED cache
     \/ /\ InFlight(at[c])
        /\ stage' = [stage EXCEPT ![c] = "wait"]
        /\ UNCHANGED <<cache, node>>
     \/ /\ cache[at[c]] \notin Object
        /\ ~InFlight(at[c])
        /\ cache' = [cache EXCEPT ![at[c]] = c]
        /\ stage' = [stage EXCEPT ![c] = "load"]
        /\ UNCHANGED node
  /\ UNCHANGED <<present, addrOf, pinned, refs, managed, op, at, overtaken>>

(* A new object, whichever is free, with references on both its blobs.     *)
NewNode(c) ==
  \E o \in Free :
    /\ o = CHOOSE f \in Free : TRUE
    /\ addrOf' = [addrOf EXCEPT ![o] = at[c]]
    /\ pinned' = pinned \union {o}
    /\ refs' = [refs EXCEPT ![o] = 0]
    /\ node' = [node EXCEPT ![c] = o]

(* actuallyLoadFileNode reads the blobs, without locks.                    *)
LoadRead(c) ==
  /\ stage[c] = "load"
  /\ at[c] \in present
  /\ NewNode(c)
  /\ stage' = [stage EXCEPT ![c] = "loaded"]
  /\ UNCHANGED <<present, cache, managed, op, at, overtaken>>

LoadMisses(c) ==
  /\ stage[c] = "load"
  /\ at[c] \notin present
  /\ stage' = [stage EXCEPT ![c] = "missed"]
  /\ UNCHANGED <<present, cache, addrOf, pinned, refs, managed, op, at, node, overtaken>>

(* The loader fills its own entry, which need not be the one in the cache. *)
LoadFills(c) ==
  /\ stage[c] = "loaded"
  /\ cache' = IF cache[at[c]] = c THEN [cache EXCEPT ![at[c]] = node[c]] ELSE cache
  /\ stage' = Broadcast([stage EXCEPT ![c] = "got"])
  /\ UNCHANGED <<present, addrOf, pinned, refs, managed, op, at, node, overtaken>>

Remove(a) == [cache EXCEPT ![a] = Absent]

(* delete(ns.fileCache, metadataAddr) on the failure of a load.            *)
Forget(a) == Remove(a)

(* "Don't cache failures": the entry that is in the cache goes.            *)
LoadFails(c) ==
  /\ stage[c] = "missed"
  /\ cache' = Forget(at[c])
  /\ stage' = Broadcast([stage EXCEPT ![c] = "idle"])
  /\ Done(c)
  /\ UNCHANGED <<present, addrOf, pinned, refs, managed, overtaken>>

(* CreateTreeNode writes both blobs, without locks.                        *)
CreateBlobs(c) ==
  /\ stage[c] = "create"
  /\ NewNode(c)
  /\ present' = present \union {at[c]}
  /\ stage' = [stage EXCEPT ![c] = "created"]
  /\ UNCHANGED <<cache, managed, op, at, overtaken>>

(* contentBlob.Release() and metadataBlob.Release() of the node not used.  *)
GivenUp(c) == pinned \ {node[c]}

(* CreateTreeNode, under cacheMtx: an entry that has a node wins, one that *)
(* is in flight is replaced.                                               *)
CreateInstalls(c) ==
  LET a == at[c] IN
  /\ stage[c] = "created"
  /\ stage' = [stage EXCEPT ![c] = "got"]
  /\ \/ /\ cache[a] \in Object
        /\ pinned' = GivenUp(c)
        /\ node' = [node EXCEPT ![c] = cache[a]]
        /\ UNCHANGED <<cache, overtaken>>
     \/ /\ cache[a] \notin Object
        /\ cache' = [cache EXCEPT ![a] = node[c]]
        /\ overtaken' = overtaken \union (IF Claimed(a) THEN {a} ELSE {})
        /\ UNCHANGED <<pinned, node>>
  /\ UNCHANGED <<present, addrOf, refs, managed, op, at>>

(* The caller takes its reference, and gives the tree's read lock back.    *)
Take(c) ==
  /\ stage[c] = "got"
  /\ op[c] \in Unlocked \union {"lookup"}
  /\ refs' = [refs EXCEPT ![node[c]] = @ + 1]
  /\ stage' = [stage EXCEPT ![c] = "hold"]
  /\ UNCHANGED <<present, cache, addrOf, pinned, managed, op, at, node, overtaken>>

Release(c) ==
  /\ stage[c] = "hold"
  /\ refs' = [refs EXCEPT ![node[c]] = @ - 1]
  /\ stage' = [stage EXCEPT ![c] = "idle"]
  /\ Done(c)
  /\ UNCHANGED <<present, cache, addrOf, pinned, managed, overtaken>>

(* recursiveTake references the object with the address's first count.     *)
FirstCount(a) == a \notin managed

LinkNode(c) ==
  /\ stage[c] = "got"
  /\ op[c] \in {"link", "mkdir"}
  /\ refs' = IF FirstCount(at[c]) THEN [refs EXCEPT ![node[c]] = @ + 1] ELSE refs
  /\ managed' = managed \union {at[c]}
  /\ stage' = [stage EXCEPT ![c] = "idle"]
  /\ Done(c)
  /\ UNCHANGED <<present, cache, addrOf, pinned, overtaken>>

(* recursiveRelease of the last count, on the object it just loaded.       *)
UnlinkNode(c) ==
  /\ stage[c] = "got"
  /\ op[c] = "unlink"
  /\ refs' = [refs EXCEPT ![node[c]] = @ - 1]
  /\ managed' = managed \ {at[c]}
  /\ stage' = [stage EXCEPT ![c] = "idle"]
  /\ Done(c)
  /\ UNCHANGED <<present, cache, addrOf, pinned, overtaken>>

Mut_AnyNode(o) == TRUE

Unreferenced(o) == refs[o] = 0

(* The nodes cleanup drops.                                                *)
Dropped == {o \in Object : Unreferenced(o) /\ \E a \in Addr : cache[a] = o}

(* cleanup, under treeMtx and cacheMtx.                                    *)
Cleanup ==
  /\ ~Writing
  /\ ~Reading
  /\ cache' = [a \in Addr |-> IF cache[a] \in Dropped THEN Absent ELSE cache[a]]
  /\ pinned' = pinned \ Dropped
  /\ UNCHANGED <<present, addrOf, refs, managed, caller, overtaken>>

Loading(c) ==
  Ask(c) \/ LoadRead(c) \/ LoadMisses(c) \/ LoadFills(c) \/ LoadFails(c)

Next ==
  \/ \E a \in Addr : Arrive(a) \/ Vanish(a)
  \/ \E c \in Callers, a \in Addr : \E o \in Ops[a] : Start(c, o, a)
  \/ \E c \in Callers :
       \/ Loading(c)
       \/ CreateBlobs(c) \/ CreateInstalls(c)
       \/ Take(c) \/ Release(c)
       \/ LinkNode(c) \/ UnlinkNode(c)
  \/ Cleanup

Spec == Init /\ [][Next]_vars

(* A call that has begun to load a node runs on: no lock is held for long. *)
FairSpec == Spec /\ \A c \in Callers : WF_vars(Loading(c))
-----------------------------------------------------------------------------
(* cleanup: "Node %s has 0 refCount but exists in RefManager structure", a *)
(* log.Panicf: a node of the tree has a reference. It need not have one.   *)
(* CreateTreeNode replaces an entry in flight; the loader still returns    *)
(* the node it made, and the tree's reference goes to that one, while the  *)
(* other one is in the cache. Or the load fails, and takes the installed   *)
(* entry with it: the node of the tree comes back as a second object.      *)
CleanupCannotPanic ==
  ~Writing /\ ~Reading => \A a \in Addr \intersect managed : cache[a] \notin Dropped

(* The same, where that has not happened.                                  *)
CleanupFindsItsNodes ==
  ~Writing /\ ~Reading =>
    \A a \in (Addr \intersect managed) \ overtaken : cache[a] \notin Dropped

(* FileNode.Release: "Reduced ref count for %s to < 0", a log.Fatalf.      *)
ReleaseNotNegative ==
  \A o \in Object : addrOf[o] \notin overtaken => refs[o] >= 0

(* A lookup of handleLookup keeps RLockTree from the load to Take: what it *)
(* finds has its blobs and can be read, with nodes loaded, created,        *)
(* linked, unlinked and cleaned up around it. (Of GetFileNode and of       *)
(* LocalVolume.LookupNode, which take no such lock, it is not true: a      *)
(* cleanup between load and Take gives the blobs back.)                    *)
LookedUpIsWhole ==
  \A c \in Callers :
    stage[c] = "hold" /\ op[c] = "lookup" /\ at[c] \notin overtaken => node[c] \in pinned

(* loadFileNode: the in-flight entry is there so that an address is loaded *)
(* by one caller at a time.                                                *)
LoadedOnce ==
  \A c, d \in Callers :
    /\ stage[c] \in {"load", "loaded"} /\ stage[d] \in {"load", "loaded"}
    /\ at[c] = at[d] /\ at[c] \notin overtaken
    => c = d

(* Every object that has references on blobs is in the cache, where        *)
(* cleanup will find it, or on its way there: else its blobs can never be  *)
(* evicted again.                                                          *)
PinnedIsReachable ==
  \A o \in pinned :
    \/ addrOf[o] \in overtaken
    \/ cache[addrOf[o]] = o
    \/ \E c \in Callers : stage[c] \in {"loaded", "created"} /\ node[c] = o

(* An in-flight entry has somebody who will resolve it: otherwise every    *)
(* later lookup of the address waits for ever.                             *)
InFlightHasLoader ==
  \A a \in Addr : cache[a] \in Callers =>
    /\ at[cache[a]] = a
    /\ stage[cache[a]] \in {"load", "loaded", "missed"}

(* The server does not end in one of these two assertions, whatever is     *)
(* loaded, created, counted and dropped at one time, with the lock of the  *)
(* tree or without it - unless CreateTreeNode has replaced an entry in     *)
(* flight of that address. Nothing else that happens leads to them.        *)
NothingIsFatal == CleanupFindsItsNodes /\ ReleaseNotNegative

(* Objects, entries and addresses fit together: one load of an address at  *)
(* a time, an entry for every object with references, and blobs for what   *)
(* was looked up, again but for an entry in flight that was replaced; and, *)
(* of every address, a loader for every entry in flight.                   *)
NodesAreSound ==
  LoadedOnce /\ PinnedIsReachable /\ InFlightHasLoader /\ LookedUpIsWhole

(* cacheCond: nobody sleeps through the end of the load it waits for.      *)
WaitersWake == \A c \in Callers : stage[c] = "wait" ~> stage[c] # "wait"
=============================================================================
