------------------------------ MODULE Mirrors ------------------------------
(***************************************************************************)
(* client/lib/grits/MirrorManager.js, HashVerifier.js and the prefetch     *)
(* worker of GritsClient.js: a blob is fetched from the mirror that seems  *)
(* best, or from the server when there is none or it fails; what arrives   *)
(* is verified; the blobs of an answer are fetched ahead, one by one.      *)
(***************************************************************************)
EXTENDS Integers, Sequences, FiniteSets

CONSTANTS
  Mirror,
  Blob,
  Content,       \* the listing each directory's metadata names, None for a file
  None,          \* no blob
  Gets,          \* calls of _fetchBlob by get
  Prefetcher,    \* the one of _drain
  Threshold,     \* ACTIVE_REQUEST_THRESHOLD
  MaxLoad,       \* the bounds on a mirror's counters
  MaxErrors,
  MaxUnder       \* the bound on how far activeRequests falls below zero

VARIABLES
  mirrors,       \* the list as last refreshed
  stats,         \* mirrorPerformance: the load and the errors of each mirror
  active,        \* activeRequests
  job,           \* the fetches
  prefetchQueue,
  inFlight,      \* _inFlightPrefetches
  draining,      \* _isProcessingQueue
  current,       \* the address _drain is at
  jsonCache      \* the blobs _jsonCache has

Jobs == Gets \union {Prefetcher}
Idle == [stage |-> "idle", blob |-> None, mirror |-> None]

Init ==
  /\ mirrors = {}
  /\ stats = [m \in Mirror |-> [load |-> 0, errors |-> 0]]
  /\ active = 0
  /\ job = [j \in Jobs |-> Idle]
  /\ prefetchQueue = <<>> /\ inFlight = {} /\ draining = FALSE /\ current = None
  /\ jsonCache = {}

manager == <<mirrors, stats, active>>
worker == <<prefetchQueue, inFlight, draining, current>>
prefetch == <<worker, jsonCache>>
netVars == <<manager, job, prefetch>>

Range(s) == {s[i] : i \in DOMAIN s}
To(j, stage) == job' = [job EXCEPT ![j].stage = stage]
-----------------------------------------------------------------------------
(* refreshMirrorList, which a timer calls and initialize: the list is      *)
(* replaced under the requests that are under way. 404 empties it, any     *)
(* other failure leaves it.                                                *)
Refresh ==
  /\ \E M \in SUBSET Mirror : M # mirrors /\ mirrors' = M
  /\ UNCHANGED <<stats, active, job, prefetch>>

(* selectBestMirror. lastCommunicated is never set, so that every mirror   *)
(* counts as not used for long: under load the one with the fewest errors, *)
(* otherwise the one with the fewest requests.                             *)
Least(f, M) == {m \in M : \A n \in M : f[m] <= f[n]}
Errors == [m \in Mirror |-> stats[m].errors]
Load == [m \in Mirror |-> stats[m].load]
Best == IF active + 1 >= Threshold THEN Least(Errors, mirrors) ELSE Least(Load, mirrors)

(* fetchBlob, within MaxLoad                                               *)
Start(j, b) ==
  IF mirrors = {}
  THEN /\ job' = [job EXCEPT ![j] = [Idle EXCEPT !.stage = "server", !.blob = b]]
       /\ UNCHANGED manager
  ELSE \E m \in Best :
         /\ stats[m].load < MaxLoad
         /\ active' = active + 1
         /\ stats' = [stats EXCEPT ![m].load = @ + 1]
         /\ job' = [job EXCEPT ![j] = [Idle EXCEPT !.stage = "asked", !.blob = b, !.mirror = m]]
         /\ UNCHANGED mirrors

(* A failed request goes to the server, once; its load is not given back.  *)
AfterFailure(j) == job' = [job EXCEPT ![j] = [@ EXCEPT !.stage = "server", !.mirror = None]]

(* _fetchBlob: what has arrived is verified, and a mismatch becomes a 502. *)
Verified(j) ==
  \E stage \in {"ok", "failed"} : job' = [job EXCEPT ![j] = [@ EXCEPT !.stage = stage, !.mirror = None]]

MirrorAnswers(j) ==
  /\ job[j].stage = "asked"
  /\ \/ /\ Verified(j)
        /\ stats' = [stats EXCEPT ![job[j].mirror].load = @ - 1]
        /\ active' = active - 1
     \/ /\ AfterFailure(j)
        /\ \/ UNCHANGED stats
           \/ stats[job[j].mirror].errors < MaxErrors
              /\ stats' = [stats EXCEPT ![job[j].mirror].errors = @ + 1]
        /\ UNCHANGED active
  /\ UNCHANGED <<mirrors, prefetch>>

(* The server: the count of active requests goes down also for a request   *)
(* that was not counted when there was no mirror.                          *)
ServerAnswers(j) ==
  /\ job[j].stage = "server"
  /\ Verified(j)
  /\ active > -MaxUnder
  /\ active' = active - 1
  /\ UNCHANGED <<mirrors, stats, prefetch>>

(* json, _fetchMeta: what is not cached is fetched, and then cached. (Once *)
(* the server is known to have a service worker, get asks the server, as   *)
(* it does here when there is no mirror.)                                  *)
Get(j, b) ==
  /\ job[j].stage = "idle" /\ j \in Gets
  /\ b \notin jsonCache
  /\ Start(j, b)
  /\ UNCHANGED prefetch

GetEnds(j) ==
  /\ j \in Gets /\ job[j].stage \in {"ok", "failed"}
  /\ jsonCache' = IF job[j].stage = "ok" THEN jsonCache \union {job[j].blob} ELSE jsonCache
  /\ job' = [job EXCEPT ![j] = Idle]
  /\ UNCHANGED <<manager, worker>>
-----------------------------------------------------------------------------
(* _startPrefetch, for the addresses an answer lists, in its order: each is *)
(* queued unless it is in flight by then. (Two of them, or one that is     *)
(* listed twice; an answer with more of them is several in a row.)         *)
Queued(q, asked, b) == IF b \in asked THEN q ELSE Append(q, b)

Prefetch(b, c) ==
  /\ prefetchQueue' = Queued(Queued(prefetchQueue, inFlight, b), inFlight \union {b}, c)
  /\ inFlight' = inFlight \union {b, c}
  /\ draining' = TRUE
  /\ UNCHANGED <<manager, job, current, jsonCache>>

(* _drain: the next address, if it is not cached by now.                   *)
DrainNext ==
  /\ draining /\ current = None
  /\ IF prefetchQueue = <<>>
     THEN draining' = FALSE /\ UNCHANGED <<manager, job, prefetchQueue, inFlight, current>>
     ELSE /\ prefetchQueue' = Tail(prefetchQueue)
          /\ IF Head(prefetchQueue) \in jsonCache
             THEN inFlight' = inFlight \ {Head(prefetchQueue)} /\ UNCHANGED <<manager, job, current>>
             ELSE Start(Prefetcher, Head(prefetchQueue)) /\ current' = Head(prefetchQueue)
                  /\ UNCHANGED inFlight
          /\ UNCHANGED draining
  /\ UNCHANGED jsonCache

Mut_ForgetIfFetched(ok) == IF ok THEN inFlight \ {current} ELSE inFlight

(* The address is forgotten also when the fetch fails (finally).           *)
Forget(ok) == inFlight \ {current}

(* A blob has come, or not; after a directory's metadata comes its listing.*)
DrainStep ==
  LET j  == job[Prefetcher]
      ok == j.stage = "ok"
      c  == Content[current]
  IN  /\ j.stage \in {"ok", "failed"}
      /\ jsonCache' = IF ok THEN jsonCache \union {j.blob} ELSE jsonCache
      /\ IF ok /\ j.blob = current /\ c # None /\ c \notin jsonCache
         THEN Start(Prefetcher, c) /\ UNCHANGED <<inFlight, current>>
         ELSE /\ inFlight' = Forget(ok)
              /\ current' = None
              /\ job' = [job EXCEPT ![Prefetcher] = Idle]
              /\ UNCHANGED manager
      /\ UNCHANGED <<prefetchQueue, draining>>

(* _cleanupJsonCache, _flushCaches                                         *)
CacheExpires(b) ==
  /\ b \in jsonCache
  /\ jsonCache' = jsonCache \ {b}
  /\ UNCHANGED <<manager, job, worker>>

Answers(j) == MirrorAnswers(j) \/ ServerAnswers(j)

Next ==
  \/ Refresh
  \/ \E j \in Jobs : Answers(j)
  \/ \E j \in Gets : GetEnds(j) \/ \E b \in Blob : Get(j, b)
  \/ \E b, c \in Blob : Prefetch(b, c)
  \/ DrainNext \/ DrainStep
  \/ \E b \in Blob : CacheExpires(b)

Spec == Init /\ [][Next]_netVars
-----------------------------------------------------------------------------
(* _startPrefetch, _drain: an address is in flight while it is queued or   *)
(* being fetched, once, and no longer, or no answer would ever have it     *)
(* fetched ahead again; and what is in flight has a worker.                *)
InFlightIsQueued ==
  /\ inFlight = Range(prefetchQueue) \union ({current} \ {None})
  /\ Cardinality(inFlight) = Len(prefetchQueue) + Cardinality({current} \ {None})
  /\ inFlight # {} => draining
=============================================================================
