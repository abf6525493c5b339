------------------------------ MODULE BlobCache ------------------------------
(***************************************************************************)
(* internal/grits/blobcache.go, the blobs a mirror keeps: Get with its     *)
(* fetches, which others wait for, and the cleanup by a worker. Every blob *)
(* has size 1. The blob store is its counts of references: a blob is there *)
(* as long as it has one. Others have references of their own (uploads,    *)
(* volumes), so that a blob may be there without the cache.                *)
(***************************************************************************)
EXTENDS Integers, FiniteSets

CONSTANTS
  Addr,
  Getters,     \* calls of Get
  Free,        \* nobody has the mutex
  MaxSize,     \* maxSize; 90% of it are Target
  Target,
  MaxRefs,     \* bounds on the references of a blob
  MaxCount     \* and on currentSize

VARIABLES
  refCount,    \* in the blob store
  others,      \* blobs that others have a reference on
  cachedBlobs, \* the addresses that have an entry
  currentSize,
  mutex,       \* c.mutex, where it is kept for longer than a step
  get,         \* what each call does, and for which address
  signalled,   \* cleanupChan has its one signal
  listed,      \* the entries performCleanup has listed, Nothing when it rests
  toRemove     \* files it has taken out and not released yet

cacheVars == <<refCount, others, cachedBlobs, currentSize, mutex, get, signalled, listed, toRemove>>
worker == <<signalled, listed, toRemove>>

Idle == [stage |-> "idle", addr |-> "none"]
Nothing == {"none"}

Init ==
  /\ refCount = [a \in Addr |-> 0]
  /\ others = {}
  /\ cachedBlobs = {}
  /\ currentSize = 0
  /\ mutex = Free
  /\ get = [g \in Getters |-> Idle]
  /\ signalled = FALSE
  /\ listed = Nothing
  /\ toRemove = {}

WithEntry(a) == cachedBlobs \union {a}
Add(a, n) == refCount' = [refCount EXCEPT ![a] = @ + n]
To(g, stage) == get' = [get EXCEPT ![g].stage = stage]

(* inFlight[a], from its claim until its fetcher has seen to it.           *)
Fetchers(a) == {g \in Getters : get[g].addr = a /\ get[g].stage \in {"fetching", "fetched", "cached", "failed"}}
InFlight(a) == Fetchers(a) # {}
-----------------------------------------------------------------------------
Mut_OneForBoth == 1

(* "We take *two* refs total, one for returning it, one for putting it in  *)
(* the store" - in the cache, that is.                                     *)
ForBoth == 2

(* The body of Get, in the order it looks.                                 *)
Hit(g, a) ==
  /\ a \in cachedBlobs
  /\ Add(a, 1)
  /\ cachedBlobs' = WithEntry(a)
  /\ get' = [get EXCEPT ![g] = [stage |-> "hold", addr |-> a]]

InStore(g, a) ==
  /\ a \notin cachedBlobs
  /\ refCount[a] > 0
  /\ Add(a, ForBoth)
  /\ cachedBlobs' = WithEntry(a)
  /\ get' = [get EXCEPT ![g] = [stage |-> "hold", addr |-> a]]

(* cond.Wait gives the mutex back.                                         *)
Wait(g, a) ==
  /\ a \notin cachedBlobs
  /\ refCount[a] = 0
  /\ InFlight(a)
  /\ get' = [get EXCEPT ![g] = [stage |-> "wait", addr |-> a]]
  /\ UNCHANGED <<refCount, cachedBlobs>>

Fetch(g, a) ==
  /\ a \notin cachedBlobs
  /\ refCount[a] = 0
  /\ ~InFlight(a)
  /\ get' = [get EXCEPT ![g] = [stage |-> "fetching", addr |-> a]]
  /\ UNCHANGED <<refCount, cachedBlobs>>

(* Get. A waiter that is woken with a result calls it again (Awake) with   *)
(* the mutex locked by itself.                                             *)
Get(g, a) ==
  /\ mutex = Free
  /\ get[g] \in {Idle, [stage |-> "again", addr |-> a]}
  /\ refCount[a] + 2 <= MaxRefs
  /\ currentSize < MaxCount
  /\ Hit(g, a) \/ InStore(g, a) \/ Wait(g, a) \/ Fetch(g, a)
  /\ UNCHANGED <<others, currentSize, mutex, worker>>

(* fetchAndCache, without the mutex: the file comes with a reference, and  *)
(* another one is taken for the cache.                                     *)
Arrives(g) ==
  /\ get[g].stage = "fetching"
  /\ Add(get[g].addr, ForBoth)
  /\ To(g, "fetched")
  /\ UNCHANGED <<others, cachedBlobs, currentSize, mutex, worker>>

FetchFails(g) ==
  /\ get[g].stage = "fetching"
  /\ To(g, "failed")
  /\ UNCHANGED <<refCount, others, cachedBlobs, currentSize, mutex, worker>>

(* The entry replaces one that a Get made meanwhile of the blob it found   *)
(* in the store, whose reference is then nobody's.                         *)
Caches(g) ==
  /\ mutex = Free
  /\ get[g].stage = "fetched"
  /\ cachedBlobs' = WithEntry(get[g].addr)
  /\ currentSize' = currentSize + 1
  /\ signalled' = (signalled \/ currentSize + 1 > MaxSize)
  /\ To(g, "cached")
  /\ UNCHANGED <<refCount, others, mutex, listed, toRemove>>

Waiters(a) == {h \in Getters : get[h] = [stage |-> "wait", addr |-> a]}

(* The fetch is over, and req.cond.Broadcast tells its result.             *)
Fetched(g) ==
  LET a == get[g].addr IN
  /\ mutex = Free
  /\ get[g].stage \in {"cached", "failed"}
  /\ get' = [h \in Getters |->
       CASE h \in Waiters(a) -> [get[h] EXCEPT !.stage = IF get[g].stage = "cached" THEN "woken" ELSE "told"]
         [] h = g -> IF get[g].stage = "cached" THEN [get[g] EXCEPT !.stage = "hold"] ELSE Idle
         [] OTHER -> get[h]]
  /\ UNCHANGED <<refCount, others, cachedBlobs, currentSize, mutex, worker>>

(* cond.Wait locks the mutex before it returns. With a result, the waiter  *)
(* calls Get again and does not unlock it before.                          *)
Awake(g) ==
  /\ mutex = Free
  /\ \/ get[g].stage = "woken" /\ mutex' = g /\ To(g, "again")
     \/ get[g].stage = "told" /\ get' = [get EXCEPT ![g] = Idle] /\ UNCHANGED mutex
  /\ UNCHANGED <<refCount, others, cachedBlobs, currentSize, worker>>

Release(g) ==
  /\ get[g].stage = "hold"
  /\ Add(get[g].addr, -1)
  /\ get' = [get EXCEPT ![g] = Idle]
  /\ UNCHANGED <<others, cachedBlobs, currentSize, mutex, worker>>
-----------------------------------------------------------------------------
(* performCleanup lists the entries, unlocks, sorts them,                  *)
List ==
  /\ mutex = Free
  /\ signalled
  /\ listed = Nothing
  /\ toRemove = {}
  /\ signalled' = FALSE
  /\ listed' = cachedBlobs
  /\ UNCHANGED <<refCount, others, cachedBlobs, currentSize, mutex, get, toRemove>>

(* locks again, and takes entries of the list out until the size fits. The *)
(* sort reads lastAccessed while Get may write it: any order may come of   *)
(* it. (Entries that were found in the store count with the others here,   *)
(* though they never did before.)                                          *)
Evict ==
  /\ mutex = Free
  /\ listed # Nothing
  /\ \E out \in SUBSET (listed \intersect cachedBlobs) :
       LET excess == IF currentSize > Target THEN currentSize - Target ELSE 0 IN
       /\ Cardinality(out) = IF excess < Cardinality(listed) THEN excess ELSE Cardinality(listed)
       /\ toRemove' = out
       /\ cachedBlobs' = cachedBlobs \ out
       /\ currentSize' = currentSize - Cardinality(out)
  /\ listed' = Nothing
  /\ UNCHANGED <<refCount, others, mutex, get, signalled>>

(* and releases their files one by one, without the mutex.                 *)
ReleaseRemoved(a) ==
  /\ a \in toRemove
  /\ toRemove' = toRemove \ {a}
  /\ Add(a, -1)
  /\ UNCHANGED <<others, cachedBlobs, currentSize, mutex, get, signalled, listed>>
-----------------------------------------------------------------------------
(* Somebody else's reference on the blob.                                  *)
OthersAdd(a) ==
  /\ a \notin others
  /\ refCount[a] + 2 <= MaxRefs
  /\ others' = others \union {a}
  /\ Add(a, 1)
  /\ UNCHANGED <<cachedBlobs, currentSize, mutex, get, worker>>

OthersRelease(a) ==
  /\ a \in others
  /\ others' = others \ {a}
  /\ Add(a, -1)
  /\ UNCHANGED <<cachedBlobs, currentSize, mutex, get, worker>>

Next ==
  \/ \E g \in Getters, a \in Addr : Get(g, a)
  \/ \E g \in Getters :
       Arrives(g) \/ FetchFails(g) \/ Caches(g) \/ Fetched(g) \/ Awake(g) \/ Release(g)
  \/ List \/ Evict
  \/ \E a \in Addr : ReleaseRemoved(a) \/ OthersAdd(a) \/ OthersRelease(a)

Spec == Init /\ [][Next]_cacheVars
-----------------------------------------------------------------------------
(* The references of a blob cover everybody who has one: callers that were *)
(* handed the file, a fetch that has it, the entry of the cache, the       *)
(* worker that is about to release it, and others. Otherwise the file is   *)
(* deleted under one of them. And an address is fetched once at a time.    *)
(* (There may be more references than that, see Caches.)                   *)
HaveFile(a) == {g \in Getters : get[g].addr = a /\ get[g].stage \in {"fetched", "cached", "hold"}}
HaveOneMore(a) == {g \in Getters : get[g].addr = a /\ get[g].stage = "fetched"}
OfGets(a) == Cardinality(HaveFile(a)) + Cardinality(HaveOneMore(a))
One(b) == IF b THEN 1 ELSE 0

CacheIsSound ==
  \A a \in Addr :
    /\ refCount[a] >= OfGets(a) + One(a \in cachedBlobs) + One(a \in toRemove) + One(a \in others)
    /\ Cardinality(Fetchers(a)) <= 1
=============================================================================
