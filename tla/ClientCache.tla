---------------------------- MODULE ClientCache ----------------------------
(***************************************************************************)
(* client/lib/grits/GritsClient.js: GritsVolume's cache of the tree, its   *)
(* mini-roots, which lookups race against the server.                      *)
(*                                                                         *)
(* An address commits to the whole subtree below it. A mini-root is hence  *)
(* kept as the version of the server's tree its address was read from, and *)
(* a walk down from it finds what that version has.                        *)
(***************************************************************************)
EXTENDS Integers, Sequences

CONSTANTS
  Path,            \* the paths of the volume
  Above,           \* _isAncestorOrSelf: the pairs <<p, q>>, p a prefix of q
  ConfigPath,      \* .grits/volume.json
  Callers,         \* the lookups callers may have under way at one time
  Wanted,          \* the paths callers look up and link
  Config,          \* the lookup of _fetchVolumeConfig
  Linkers,         \* the links that may be under way at one time
  DefaultTimeout,  \* DEFAULT_HARD_TIMEOUT
  ConfigTimeout,   \* clientCacheDuration
  TTL,             \* MINIROOT_TTL
  MaxLatency,      \* assumed of the network: from a request to its answer
  Failures,        \* whether a request may fail or be refused
  Readables,       \* the paths that may be readable at first
  MaxVersion,      \* the bound on the server's history
  MaxTime          \* the bound on the clock

ASSUME PathsAssumption ==
  /\ ConfigPath \in Path /\ Wanted \subseteq Path /\ Config \notin Callers
  /\ Readables \subseteq SUBSET Path
ASSUME TimesAssumption == {DefaultTimeout, ConfigTimeout, TTL, MaxLatency, MaxVersion, MaxTime} \subseteq Nat

VARIABLES
  hist,            \* the server: its committed versions
  now,             \* Date.now()
  miniRoots,       \* path -> version, ts, and whether addr is still there
  hardTimeout,
  configFetched,
  call,            \* the lookups
  post,            \* the links
  owed             \* history: the newest own link a lookup that begins now must see

cache == <<miniRoots, hardTimeout, configFetched>>
vars == <<hist, now, cache, call, post, owed>>

Slots == Callers \union {Config}

IsAbove(p, q) == <<p, q>> \in Above
Prefixes(P) == {p \in Path : \E q \in P : IsAbove(p, q)}

(* What the server says of path p in version v (resolveFromLocal, with the *)
(* lookup callback of the access module).                                  *)
Status(v, p) ==
  IF p \notin hist[v].readable THEN "denied"
  ELSE IF p \notin hist[v].present THEN "missing" ELSE "ok"

(* A lookup: its two legs, what the slow one asked and was told, and what  *)
(* its caller got. must and limit are history: owed and hardTimeout when   *)
(* it began.                                                               *)
NoCall == [stage |-> "idle", path |-> ConfigPath, start |-> 0, must |-> 0, limit |-> 0,
           fast |-> "over", base |-> 1, fastResolved |-> FALSE,
           slow |-> "over", asked |-> {}, sent |-> 0, ver |-> 1,
           result |-> "none", found |-> 1]
NoPost == [stage |-> "idle", path |-> ConfigPath, appears |-> TRUE, sent |-> 0, ver |-> 1]
NoMini == [p \in {} |-> [ver |-> 1, ts |-> 0, usable |-> TRUE]]

Init ==
  /\ \E R \in Readables :
       hist = <<[present |-> Path, readable |-> R, at |-> 0]>>
  /\ now = 0
  /\ miniRoots = NoMini
  /\ hardTimeout = DefaultTimeout
  /\ configFetched = FALSE
  /\ call = [s \in Slots |-> NoCall]
  /\ post = [l \in Linkers |-> NoPost]
  /\ owed = 0
-----------------------------------------------------------------------------
(* Time, and what happens at the server.                                   *)

Outstanding ==
  {call[s].sent : s \in {t \in Slots : call[t].slow \in {"sent", "answered"}}}
  \union {post[l].sent : l \in {k \in Linkers : post[k].stage \in {"sent", "answered"}}}

Tick ==
  /\ now < MaxTime
  /\ \A t \in Outstanding : now - t < MaxLatency
  /\ now' = now + 1
  /\ UNCHANGED <<hist, cache, call, post, owed>>

(* MultiLink of one path: the path appears, below a directory that is      *)
(* there, or goes with everything below it. The root stays.                *)
Committed(p, appears) ==
  [hist[Len(hist)] EXCEPT
     !.at = now,
     !.present = IF appears THEN @ \union {p} ELSE {q \in @ : ~IsAbove(p, q)}]
Allowed(p, appears) ==
  LET parents == {q \in Path : IsAbove(q, p) /\ q # p}
  IN  parents # {} /\ (appears => parents \subseteq hist[Len(hist)].present)

OtherLink ==
  /\ Len(hist) < MaxVersion
  /\ \E p \in Path, appears \in BOOLEAN :
       /\ Allowed(p, appears)
       /\ hist' = Append(hist, Committed(p, appears))
  /\ UNCHANGED <<now, cache, call, post, owed>>

(* Access to a path is granted or refused (allow, deny, another login).    *)
OtherAccess ==
  /\ Len(hist) < MaxVersion
  /\ \E p \in Path :
       LET t == hist[Len(hist)]
           R == IF p \in t.readable THEN t.readable \ {p} ELSE t.readable \union {p}
       IN  hist' = Append(hist, [t EXCEPT !.at = now, !.readable = R])
  /\ UNCHANGED <<now, cache, call, post, owed>>
-----------------------------------------------------------------------------
(* _ingestLookupResponse: the mini-roots are rebuilt from the entries of   *)
(* the answer without an error, those below another one left out.          *)
Kept(v, P) ==
  LET ok == {p \in Prefixes(P) : Status(v, p) = "ok"}
  IN  {p \in ok : ~\E q \in ok : q # p /\ IsAbove(q, p)}

IngestedMerged(v, P) ==
  [p \in Kept(v, P) \union DOMAIN miniRoots |->
     IF p \in Kept(v, P) THEN [ver |-> v, ts |-> now, usable |-> TRUE] ELSE miniRoots[p]]
IngestedAsExpiry(v, P) ==
  [p \in Kept(v, P) |-> [ver |-> v, ts |-> now + TTL, usable |-> TRUE]]
Ingested(v, P) ==
  [p \in Kept(v, P) |-> [ver |-> v, ts |-> now, usable |-> TRUE]]
(* _findMiniRoot                                                           *)
UsableAnyAge(m, p) == m[p].usable
Usable(m, p) == m[p].usable /\ now - m[p].ts <= hardTimeout

(* The paths _slowLookup sends.                                            *)
Asked(m, path) == {path} \union {p \in DOMAIN m : now - m[p].ts < TTL}

(* _lookup_internal, up to its first await: with a mini-root above the     *)
(* path the two legs race, without one the slow leg is alone.              *)
Begun(m, path) ==
  LET fitting == {p \in DOMAIN m : Usable(m, p) /\ IsAbove(p, path)}
      begun   == [NoCall EXCEPT !.stage = "open", !.path = path, !.start = now,
                                 !.must = owed, !.limit = hardTimeout]
  IN  IF fitting # {}
      THEN {[begun EXCEPT !.fast = "walking", !.base = m[p].ver, !.slow = "timer"] : p \in fitting}
      ELSE {[begun EXCEPT !.slow = "sent", !.asked = Asked(m, path), !.sent = now]}

Lookup(s, path) ==
  /\ call[s].stage = "idle"
  /\ \E c \in Begun(miniRoots, path) : call' = [call EXCEPT ![s] = c]
  /\ UNCHANGED <<hist, now, cache, post, owed>>

(* What is over is forgotten, so that it does not tell states apart.       *)
SlowOver(c) == [c EXCEPT !.slow = "over", !.asked = {}, !.sent = 0, !.ver = 1]
FastOver(c) == [c EXCEPT !.fast = "over", !.base = 1]

(* A leg that won settles the lookup; the other one's outcome is dropped.  *)
Settle(c, result, v) ==
  IF c.stage = "open"
  THEN [c EXCEPT !.stage = "settled", !.result = result, !.found = v]
  ELSE c

(* _fastWalk and what its promise does: a full hit wins; a walk that stops *)
(* at a blob that is not cached, and one that fails because the path is    *)
(* not in the version, are promises that never settle.                     *)
FastResolvedFirst(c, full) ==
  LET d == [FastOver(c) EXCEPT !.fastResolved = TRUE]
  IN  IF full THEN Settle(d, "found", c.base) ELSE d
Fast(c, full) ==
  IF full THEN Settle([FastOver(c) EXCEPT !.fastResolved = TRUE], "found", c.base)
  ELSE FastOver(c)

FastWalk(s) ==
  /\ call[s].fast = "walking"
  /\ \E full \in BOOLEAN :
       /\ full => call[s].path \in hist[call[s].base].present
       /\ call' = [call EXCEPT ![s] = Fast(@, full)]
  /\ UNCHANGED <<hist, now, cache, post, owed>>

(* The 30 ms are over.                                                     *)
SlowStart(s) ==
  /\ call[s].slow = "timer"
  /\ call' = [call EXCEPT ![s] =
       IF @.fastResolved THEN SlowOver(@)
       ELSE [@ EXCEPT !.slow = "sent", !.asked = Asked(miniRoots, call[s].path), !.sent = now]]
  /\ UNCHANGED <<hist, now, cache, post, owed>>

ServerLookup(s) ==
  /\ call[s].slow = "sent"
  /\ call' = [call EXCEPT ![s].slow = "answered", ![s].ver = Len(hist)]
  /\ UNCHANGED <<hist, now, cache, post, owed>>

(* handleLookup takes the status of its answer from the last entry, which  *)
(* is that of a mini-root the wanted path is not below, if one was asked   *)
(* for; the mini-roots come in the order of the Map.                       *)
LastEntries(c) ==
  LET others == {p \in c.asked : ~IsAbove(p, c.path)}
  IN  IF others = {} THEN {c.path} ELSE others

(* _fetchVolumeConfig begins its lookup with the first answer ingested.    *)
ThenConfig(calls, m) ==
  IF configFetched THEN {calls}
  ELSE {[calls EXCEPT ![Config] = c] : c \in Begun(m, ConfigPath)}

(* The answer of _slowLookup: 404 is null, 403 an exception that aborts    *)
(* the walk, and any other one is ingested and searched for the path. (The *)
(* mini-root that the exception's handler deletes is never there: a 403    *)
(* names no path, and an entry that is denied is not ingested.)            *)
SlowReceive(s) ==
  /\ call[s].slow = "answered"
  /\ \E last \in LastEntries(call[s]) :
       LET c      == call[s]
           status == Status(c.ver, last)
           leaf   == Status(c.ver, c.path)
           won    == Settle(SlowOver(c), "found", c.ver)
           null   == Settle(SlowOver(c), "missing", c.ver)
           denied == Settle(FastOver(SlowOver(c)), "denied", c.ver)
       IN  \/ /\ status = "missing"
              /\ call' = [call EXCEPT ![s] = null]
              /\ UNCHANGED cache
           \/ /\ status = "denied"
              /\ call' = [call EXCEPT ![s] = denied]
              /\ UNCHANGED cache
           \/ /\ status = "ok"
              /\ miniRoots' = Ingested(c.ver, c.asked)
              /\ configFetched' = TRUE
              /\ call' \in ThenConfig([call EXCEPT ![s] =
                     CASE leaf = "ok"      -> won
                       [] leaf = "missing" -> null
                       [] leaf = "denied"  -> denied], miniRoots')
              /\ UNCHANGED hardTimeout
  /\ UNCHANGED <<hist, now, post, owed>>

(* A request that fails rejects the leg and aborts the walk; one the       *)
(* server refuses (too many requests, an error of its own) is "not found". *)
SlowFail(s) ==
  /\ Failures
  /\ call[s].slow \in {"sent", "answered"}
  /\ \E result \in {"error", "missing"} :
       LET c == IF result = "error" THEN FastOver(SlowOver(call[s])) ELSE SlowOver(call[s])
       IN  call' = [call EXCEPT ![s] = Settle(c, result, Len(hist))]
  /\ UNCHANGED <<hist, now, cache, post, owed>>

(* The caller goes on; its slot is free when both legs are over.           *)
Return(s) ==
  /\ s \in Callers
  /\ call[s].stage = "settled" /\ call[s].fast = "over" /\ call[s].slow = "over"
  /\ call' = [call EXCEPT ![s] = NoCall]
  /\ UNCHANGED <<hist, now, cache, post, owed>>

(* The rest of _fetchVolumeConfig; the blob may fail to load.              *)
ConfigEnd ==
  /\ call[Config].stage = "settled"
  /\ call[Config].fast = "over" /\ call[Config].slow = "over"
  /\ CASE call[Config].result = "found"   -> hardTimeout' \in {ConfigTimeout, hardTimeout}
       [] call[Config].result = "missing" -> hardTimeout' = DefaultTimeout
       [] OTHER                           -> UNCHANGED hardTimeout
  /\ call' = [call EXCEPT ![Config] = NoCall]
  /\ UNCHANGED <<hist, now, miniRoots, configFetched, post, owed>>
-----------------------------------------------------------------------------
(* link, unlink: _serverMultiLink of one path (the loop that uploads       *)
(* missing blobs is module ClientUploads).                                 *)
Link(l, p, appears) ==
  /\ post[l].stage = "idle"
  /\ post' = [post EXCEPT ![l] = [NoPost EXCEPT
                 !.stage = "sent", !.path = p, !.appears = appears, !.sent = now]]
  /\ UNCHANGED <<hist, now, cache, call, owed>>

ServerLink(l) ==
  /\ post[l].stage = "sent"
  /\ Len(hist) < MaxVersion
  /\ Allowed(post[l].path, post[l].appears)
  /\ hist' = Append(hist, Committed(post[l].path, post[l].appears))
  /\ post' = [post EXCEPT ![l].stage = "answered", ![l].ver = Len(hist')]
  /\ UNCHANGED <<now, cache, call, owed>>

(* What a link's answer lists: the path's prefixes in the new tree, or,    *)
(* for a path that is gone, an entry without an address and nothing else.  *)
Linked(c) == IF c.appears THEN {c.path} ELSE {}

(* An answer, already under way, from a version before the link.           *)
Overtakes(v) == \E s \in Slots : call[s].slow = "answered" /\ call[s].ver < v

Owes(v) ==
  owed' = IF ~Overtakes(v) /\ (\A l \in Linkers : post[l].stage = "answered" => post[l].ver >= v)
          THEN v ELSE owed

AfterLinkNothing(v, P) == UNCHANGED miniRoots
AfterLink(v, P) == miniRoots' = Ingested(v, P)

LinkReceive(l) ==
  /\ post[l].stage = "answered"
  /\ AfterLink(post[l].ver, Linked(post[l]))
  /\ Owes(post[l].ver)
  /\ post' = [post EXCEPT ![l] = NoPost]
  /\ UNCHANGED <<hist, now, hardTimeout, configFetched, call>>

(* Refused by the server, or the answer is lost: the link may have been    *)
(* applied.                                                                *)
LinkFail(l) ==
  /\ \/ post[l].stage = "sent"
     \/ Failures /\ post[l].stage = "answered"
  /\ post' = [post EXCEPT ![l] = NoPost]
  /\ UNCHANGED <<hist, now, cache, call, owed>>

(* resetRoot                                                               *)
ResetRoot ==
  /\ \E p \in DOMAIN miniRoots : miniRoots[p].usable
  /\ miniRoots' = [p \in DOMAIN miniRoots |-> [miniRoots[p] EXCEPT !.usable = FALSE]]
  /\ UNCHANGED <<hist, now, hardTimeout, configFetched, call, post, owed>>

(* The end of login and of logout.                                         *)
ClearMiniRoots ==
  /\ DOMAIN miniRoots # {}
  /\ miniRoots' = NoMini
  /\ UNCHANGED <<hist, now, hardTimeout, configFetched, call, post, owed>>

Next ==
  \/ Tick \/ OtherLink \/ OtherAccess
  \/ \E s \in Callers, p \in Wanted : Lookup(s, p)
  \/ \E s \in Slots :
       FastWalk(s) \/ SlowStart(s) \/ ServerLookup(s) \/ SlowReceive(s) \/ SlowFail(s) \/ Return(s)
  \/ ConfigEnd
  \/ \E l \in Linkers :
       \/ \E p \in Wanted, appears \in BOOLEAN : Link(l, p, appears)
       \/ ServerLink(l) \/ LinkReceive(l) \/ LinkFail(l)
  \/ ResetRoot \/ ClearMiniRoots

Spec == Init /\ [][Next]_vars
-----------------------------------------------------------------------------
(* The mini-roots are one snapshot: addresses of one version of the tree,  *)
(* none above another one (the comment of _findMiniRoot,                   *)
(* GritsClient.js:943, on which its "first match" rests). Two walks from   *)
(* different mini-roots hence never combine two versions.                  *)
MiniRootsAreASnapshot ==
  \A p, q \in DOMAIN miniRoots :
    /\ miniRoots[p].ver = miniRoots[q].ver
    /\ IsAbove(p, q) => p = q

(* What a lookup finds is no older than hardTimeout and the time an answer *)
(* may be under way, counted from the lookup's beginning: the version was  *)
(* still the current one then, whatever came in which order since.         *)
FoundIsRecent ==
  \A s \in Slots :
    call[s].result = "found" /\ call[s].found < Len(hist) =>
      hist[call[s].found + 1].at >= call[s].start - call[s].limit - MaxLatency

(* A lookup that begins after this client's own link was answered finds    *)
(* that link or what came after it, unless an answer from before the link  *)
(* was under way then.                                                     *)
OwnLinksAreSeen ==
  \A s \in Slots : call[s].result = "found" => call[s].found >= call[s].must

(* A lookup says "not found" only of a path that some version since the    *)
(* lookup began did not have (the comment at GritsClient.js:1253: the      *)
(* answer may contain other entries, the last one is not necessarily ours).*)
NotFoundIsTrue ==
  \A s \in Slots :
    call[s].result = "missing" => Status(call[s].found, call[s].path) = "missing"

(* A lookup whose caller still waits has a leg that can end it: a walk     *)
(* that comes to nothing is a promise that never settles, and so is a slow *)
(* leg that stands back because the walk has won.                          *)
WaitingCanEnd ==
  \A s \in Slots :
    call[s].stage = "open" =>
      \/ call[s].slow \in {"sent", "answered"}
      \/ call[s].slow = "timer" /\ ~call[s].fastResolved
=============================================================================
