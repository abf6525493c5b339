------------------------- MODULE ClientCache_proofs -------------------------
(***************************************************************************)
(* Proofs about ClientCache, for every set of paths and whatever is above  *)
(* what, any number of lookups and links under way, any timeouts and any   *)
(* history of the server.                                                  *)
(***************************************************************************)
EXTENDS MCClient, FiniteSetTheorems, TLAPS

Version == [present : SUBSET Path, readable : SUBSET Path, at : Nat]
Mini == [ver : Nat, ts : Nat, usable : BOOLEAN]
Results == {"none", "found", "missing", "denied", "error"}
Calls ==
  [stage : {"idle", "open", "settled"}, path : Path, start : Nat, must : Nat, limit : Nat,
   fast : {"walking", "over"}, base : Nat, fastResolved : BOOLEAN,
   slow : {"timer", "sent", "answered", "over"}, asked : SUBSET Path, sent : Nat, ver : Nat,
   result : Results, found : Nat]
Posts ==
  [stage : {"idle", "sent", "answered"}, path : Path, appears : BOOLEAN, sent : Nat, ver : Nat]

Types ==
  /\ hist \in Seq(Version) /\ hist # <<>>
  /\ now \in Nat /\ hardTimeout \in Nat /\ owed \in Nat /\ configFetched \in BOOLEAN
  /\ miniRoots \in [DOMAIN miniRoots -> Mini] /\ DOMAIN miniRoots \subseteq Path
  /\ call \in [Slots -> Calls]
  /\ post \in [Linkers -> Posts]

(* One lookup: a leg can end it, what its walk starts from and what it     *)
(* found is no older than what it must see, and an answer under way is no  *)
(* older than what a lookup that begins now must see.                      *)
CallOK(c, o) ==
  /\ c.must <= o
  /\ c.stage = "open" => \/ c.slow \in {"sent", "answered"}
                         \/ c.slow = "timer" /\ ~c.fastResolved
  /\ c.fast = "walking" => c.must <= c.base
  /\ c.slow = "answered" => o <= c.ver
  /\ c.result = "found" => c.must <= c.found

(* The mini-roots are one version, and not older than what is owed.        *)
MinisOK(m, o) ==
  /\ \A p, q \in DOMAIN m : m[p].ver = m[q].ver /\ (IsAbove(p, q) => p = q)
  /\ \A p \in DOMAIN m : o <= m[p].ver

Ordered ==
  /\ owed <= Len(hist)
  /\ MinisOK(miniRoots, owed)
  /\ \A s \in Slots : CallOK(call[s], owed)
  /\ \A l \in Linkers : post[l].stage = "answered" => owed <= post[l].ver /\ post[l].ver <= Len(hist)

IInv == Types /\ Ordered
-----------------------------------------------------------------------------
(* Settling a lookup keeps it a good one if what it found may be found.    *)
LEMMA SettleOK ==
  ASSUME NEW c \in Calls, NEW r \in Results, NEW v \in Nat, NEW o \in Nat,
         c.must <= o,
         c.fast = "walking" => c.must <= c.base,
         c.slow = "answered" => o <= c.ver,
         c.result = "found" => c.must <= c.found,
         r = "found" => c.must <= v
  PROVE  Settle(c, r, v) \in Calls /\ CallOK(Settle(c, r, v), o)
<1>1. CASE c.stage = "open"
  BY <1>1 DEF Settle, Calls, CallOK, Results
<1>2. CASE c.stage # "open"
  BY <1>2 DEF Settle, Calls, CallOK
<1> QED
  BY <1>1, <1>2

(* What ending a leg leaves of a lookup.                                   *)
Same(d, c) == d.must = c.must /\ d.result = c.result /\ d.found = c.found

LEMMA LegOver ==
  ASSUME NEW c \in Calls
  PROVE  /\ SlowOver(c) \in Calls /\ FastOver(SlowOver(c)) \in Calls
         /\ Same(SlowOver(c), c) /\ SlowOver(c).slow = "over"
         /\ SlowOver(c).fast = c.fast /\ SlowOver(c).base = c.base
         /\ Same(FastOver(SlowOver(c)), c) /\ FastOver(SlowOver(c)).slow = "over"
         /\ FastOver(SlowOver(c)).fast = "over"
<1>1. /\ SlowOver(c) \in Calls /\ Same(SlowOver(c), c) /\ SlowOver(c).slow = "over"
      /\ SlowOver(c).fast = c.fast /\ SlowOver(c).base = c.base
  BY DEF SlowOver, Calls, Same
<1>2. ASSUME NEW d \in Calls PROVE /\ FastOver(d) \in Calls /\ Same(FastOver(d), d)
                                   /\ FastOver(d).slow = d.slow /\ FastOver(d).fast = "over"
  BY DEF FastOver, Calls, Same
<1> QED
  BY <1>1, <1>2 DEF Same

(* The slow leg is over, and settles the lookup if it is still open.       *)
LEMMA SlowSettles ==
  ASSUME NEW c \in Calls, NEW o \in Nat, CallOK(c, o), NEW r \in Results, NEW v \in Nat,
         r = "found" => c.must <= v
  PROVE  /\ Settle(SlowOver(c), r, v) \in Calls /\ CallOK(Settle(SlowOver(c), r, v), o)
         /\ LET d == FastOver(SlowOver(c)) IN Settle(d, r, v) \in Calls /\ CallOK(Settle(d, r, v), o)
<1>1. ASSUME NEW d \in Calls, Same(d, c), d.slow = "over", d.fast = "walking" => c.must <= d.base
      PROVE  Settle(d, r, v) \in Calls /\ CallOK(Settle(d, r, v), o)
  BY <1>1, SettleOK DEF CallOK, Same
<1>2. c.fast = "walking" => c.must <= c.base
  BY DEF CallOK
<1> QED
  BY <1>1, <1>2, LegOver

(* The walk is over.                                                       *)
LEMMA FastEnds ==
  ASSUME NEW c \in Calls, NEW o \in Nat, CallOK(c, o), c.fast = "walking", NEW full \in BOOLEAN
  PROVE  Fast(c, full) \in Calls /\ CallOK(Fast(c, full), o)
<1>1. FastOver(c) \in Calls /\ CallOK(FastOver(c), o)
  BY DEF FastOver, Calls, CallOK
<1> DEFINE d == [FastOver(c) EXCEPT !.fastResolved = TRUE]
<1>2. /\ d \in Calls /\ Same(d, c) /\ d.fast = "over" /\ d.slow = c.slow /\ d.ver = c.ver
  BY DEF FastOver, Calls, Same
<1>3. c.base \in Nat
  BY DEF Calls
<1> HIDE DEF d
<1>4. Settle(d, "found", c.base) \in Calls /\ CallOK(Settle(d, "found", c.base), o)
  BY <1>2, <1>3, SettleOK DEF CallOK, Same, Results
<1> QED
  BY <1>1, <1>4 DEF Fast, d

(* The slow leg stands back, sends its request, and is answered.           *)
LEMMA SlowGoesOn ==
  ASSUME NEW c \in Calls, NEW o \in Nat, CallOK(c, o)
  PROVE  /\ c.slow = "timer" /\ c.fastResolved => SlowOver(c) \in Calls /\ CallOK(SlowOver(c), o)
         /\ \A P \in SUBSET Path, t \in Nat :
              LET d == [c EXCEPT !.slow = "sent", !.asked = P, !.sent = t]
              IN  d \in Calls /\ CallOK(d, o)
         /\ \A v \in Nat : c.slow = "sent" /\ o <= v =>
              LET d == [c EXCEPT !.slow = "answered", !.ver = v]
              IN  d \in Calls /\ CallOK(d, o)
<1>1. c.slow = "timer" /\ c.fastResolved => SlowOver(c) \in Calls /\ CallOK(SlowOver(c), o)
  BY LegOver DEF CallOK, Same, SlowOver, Calls
<1>2. ASSUME NEW P \in SUBSET Path, NEW t \in Nat
      PROVE  LET d == [c EXCEPT !.slow = "sent", !.asked = P, !.sent = t]
             IN  d \in Calls /\ CallOK(d, o)
  BY DEF Calls, CallOK
<1>3. ASSUME NEW v \in Nat, c.slow = "sent", o <= v
      PROVE  LET d == [c EXCEPT !.slow = "answered", !.ver = v]
             IN  d \in Calls /\ CallOK(d, o)
  BY <1>3 DEF Calls, CallOK
<1> QED
  BY <1>1, <1>2, <1>3

(* A lookup that begins sees what is owed, by its walk or by the server.   *)
LEMMA BegunOK ==
  ASSUME Types, NEW m, m \in [DOMAIN m -> Mini], DOMAIN m \subseteq Path,
         NEW path \in Path, MinisOK(m, owed), NEW c \in Begun(m, path)
  PROVE  c \in Calls /\ CallOK(c, owed)
<1>0. now \in Nat /\ owed \in Nat /\ hardTimeout \in Nat
  BY DEF Types
<1>1. Asked(m, path) \in SUBSET Path
  BY DEF Asked
<1> DEFINE begun == [NoCall EXCEPT !.stage = "open", !.path = path, !.start = now,
                                   !.must = owed, !.limit = hardTimeout]
<1>2. begun \in Calls /\ begun.must = owed /\ begun.slow = "over" /\ begun.fast = "over"
      /\ begun.result = "none" /\ begun.fastResolved = FALSE
  BY <1>0, PathsAssumption DEF NoCall, Calls, Results
<1>3. \/ \E p \in DOMAIN m : c = [begun EXCEPT !.fast = "walking", !.base = m[p].ver, !.slow = "timer"]
      \/ c = [begun EXCEPT !.slow = "sent", !.asked = Asked(m, path), !.sent = now]
  BY DEF Begun
<1> HIDE DEF begun
<1>4. CASE \E p \in DOMAIN m : c = [begun EXCEPT !.fast = "walking", !.base = m[p].ver, !.slow = "timer"]
  <2>1. PICK p \in DOMAIN m : c = [begun EXCEPT !.fast = "walking", !.base = m[p].ver, !.slow = "timer"]
    BY <1>4
  <2>2. m[p] \in Mini /\ owed <= m[p].ver
    BY DEF MinisOK
  <2>3. m[p].ver \in Nat
    BY <2>2 DEF Mini
  <2>4. c \in Calls /\ c.fast = "walking" /\ c.base = m[p].ver /\ c.slow = "timer"
        /\ c.must = begun.must /\ c.result = begun.result /\ c.fastResolved = begun.fastResolved
    BY <1>2, <2>1, <2>3 DEF Calls
  <2> QED
    BY <1>0, <1>2, <2>2, <2>4 DEF CallOK
<1>5. CASE c = [begun EXCEPT !.slow = "sent", !.asked = Asked(m, path), !.sent = now]
  <2>1. c \in Calls /\ c.slow = "sent" /\ c.must = begun.must /\ c.result = begun.result
        /\ c.fast = begun.fast
    BY <1>0, <1>1, <1>2, <1>5 DEF Calls
  <2> QED
    BY <1>0, <1>2, <2>1 DEF CallOK
<1> QED
  BY <1>3, <1>4, <1>5

(* Whatever an answer is ingested of, the mini-roots are one version.      *)
LEMMA IngestedOK ==
  ASSUME Types, NEW v \in Nat, NEW P, NEW o \in Nat, o <= v
  PROVE  LET m == Ingested(v, P) IN
         m \in [DOMAIN m -> Mini] /\ DOMAIN m \subseteq Path /\ MinisOK(m, o)
  BY DEF Ingested, Kept, Prefixes, MinisOK, Mini, Types
-----------------------------------------------------------------------------
(* The initial states satisfy the inductive invariant.                     *)
LEMMA Initially == Init => IInv
<1> SUFFICES ASSUME Init PROVE IInv
  OBVIOUS
<1> USE PathsAssumption, TimesAssumption
<1>1. NoCall \in Calls /\ CallOK(NoCall, 0) /\ NoPost \in Posts
  BY DEF NoCall, Calls, CallOK, Results, NoPost, Posts
<1>2. hist \in Seq(Version) /\ hist # <<>> /\ Len(hist) = 1
  BY DEF Init, Version
<1>3. DOMAIN NoMini = {} /\ NoMini \in [DOMAIN NoMini -> Mini]
  BY DEF NoMini
<1>4. Types
  BY <1>1, <1>2, <1>3 DEF Init, Types
<1>5. Ordered
  BY <1>1, <1>2, <1>3 DEF Init, Ordered, MinisOK, NoPost
<1> QED
  BY <1>4, <1>5 DEF IInv

(* A step that changes one lookup, and nothing but it.                     *)
LEMMA OneCall ==
  ASSUME IInv, NEW s \in Slots, NEW c \in Calls, CallOK(c, owed),
         call' = [call EXCEPT ![s] = c],
         UNCHANGED <<hist, now, cache, post, owed>>
  PROVE  IInv'
  BY DEF IInv, Types, Ordered, cache, MinisOK

(* Every step preserves the inductive invariant.                           *)
LEMMA Step == IInv /\ [Next]_vars => IInv'
<1> SUFFICES ASSUME IInv, [Next]_vars PROVE IInv'
  OBVIOUS
<1> USE PathsAssumption
<1>0. /\ Len(hist) \in Nat \ {0} /\ owed \in Nat /\ owed <= Len(hist) /\ now \in Nat /\ hist[Len(hist)] \in Version
      /\ \A s \in Slots : call[s] \in Calls /\ CallOK(call[s], owed)
      /\ \A l \in Linkers : post[l] \in Posts
  BY DEF IInv, Types, Ordered
<1>1. CASE Tick
  BY <1>1 DEF Tick, IInv, Types, Ordered, MinisOK, cache
<1>2. ASSUME NEW v \in Version, hist' = Append(hist, v),
             UNCHANGED <<now, cache, call, post, owed>>
      PROVE  IInv'
  <2>1. hist' \in Seq(Version) /\ hist' # <<>> /\ Len(hist') = Len(hist) + 1
    BY <1>0, <1>2 DEF IInv, Types
  <2>2. \A l \in Linkers : post[l].ver \in Nat
    BY <1>0 DEF Posts
  <2> QED
    BY <1>0, <1>2, <2>1, <2>2 DEF IInv, Types, Ordered, MinisOK, cache
<1>3. ASSUME NEW p \in Path, NEW appears \in BOOLEAN PROVE Committed(p, appears) \in Version
  BY <1>0 DEF Committed, Version, IInv, Types
<1>4. CASE OtherLink
  BY <1>2, <1>3, <1>4 DEF OtherLink
<1>5. CASE OtherAccess
  <2>1. PICK R \in SUBSET Path : hist' = Append(hist, [hist[Len(hist)] EXCEPT !.at = now, !.readable = R])
    BY <1>0, <1>5 DEF OtherAccess, Version
  <2>2. [hist[Len(hist)] EXCEPT !.at = now, !.readable = R] \in Version
    BY <1>0 DEF Version, IInv, Types
  <2> QED
    BY <1>2, <1>5, <2>1, <2>2 DEF OtherAccess
<1>6. ASSUME NEW s \in Callers, NEW p \in Wanted, Lookup(s, p) PROVE IInv'
  <2>1. PICK c \in Begun(miniRoots, p) : call' = [call EXCEPT ![s] = c]
    BY <1>6 DEF Lookup
  <2>2. c \in Calls /\ CallOK(c, owed)
    BY BegunOK DEF IInv, Types, Ordered
  <2> QED
    BY <1>6, <2>1, <2>2, OneCall DEF Lookup, Slots
<1>7. ASSUME NEW s \in Slots, FastWalk(s) PROVE IInv'
  <2>1. PICK full \in BOOLEAN : call' = [call EXCEPT ![s] = Fast(call[s], full)]
    BY <1>7 DEF FastWalk, IInv, Types
  <2>2. Fast(call[s], full) \in Calls /\ CallOK(Fast(call[s], full), owed)
    BY <1>0, <1>7, FastEnds DEF FastWalk
  <2> QED
    BY <1>7, <2>1, <2>2, OneCall DEF FastWalk
<1>8. ASSUME NEW s \in Slots, SlowStart(s) PROVE IInv'
  <2> DEFINE c == IF call[s].fastResolved THEN SlowOver(call[s])
                  ELSE [call[s] EXCEPT !.slow = "sent", !.asked = Asked(miniRoots, call[s].path), !.sent = now]
  <2>1. call' = [call EXCEPT ![s] = c]
    BY <1>8 DEF SlowStart, IInv, Types
  <2>2. Asked(miniRoots, call[s].path) \in SUBSET Path
    BY <1>0 DEF Asked, Calls, IInv, Types
  <2>3. c \in Calls /\ CallOK(c, owed)
    BY <1>0, <1>8, <2>2, SlowGoesOn DEF SlowStart
  <2> HIDE DEF c
  <2> QED
    BY <1>8, <2>1, <2>3, OneCall DEF SlowStart
<1>9. ASSUME NEW s \in Slots, ServerLookup(s) PROVE IInv'
  <2> DEFINE c == [call[s] EXCEPT !.slow = "answered", !.ver = Len(hist)]
  <2>1. call' = [call EXCEPT ![s] = c]
    BY <1>9 DEF ServerLookup, IInv, Types
  <2>2. c \in Calls /\ CallOK(c, owed)
    BY <1>0, <1>9, SlowGoesOn DEF ServerLookup
  <2> HIDE DEF c
  <2> QED
    BY <1>9, <2>1, <2>2, OneCall DEF ServerLookup
<1>10. ASSUME NEW s \in Slots, SlowReceive(s) PROVE IInv'
  <2> DEFINE c == call[s]
             won == Settle(SlowOver(c), "found", c.ver)
             null == Settle(SlowOver(c), "missing", c.ver)
             denied == Settle(FastOver(SlowOver(c)), "denied", c.ver)
             m == Ingested(c.ver, c.asked)
  <2>1. c \in Calls /\ CallOK(c, owed) /\ owed \in Nat /\ c.ver \in Nat /\ owed <= c.ver /\ c.must <= c.ver
        /\ c.must \in Nat
    BY <1>0, <1>10 DEF SlowReceive, CallOK, Calls, IInv, Types
  <2>2. won \in Calls /\ CallOK(won, owed)
    BY <2>1, SlowSettles DEF Results
  <2>3. null \in Calls /\ CallOK(null, owed)
    BY <2>1, SlowSettles DEF Results
  <2>4. denied \in Calls /\ CallOK(denied, owed)
    BY <2>1, SlowSettles DEF Results
  <2>5. CASE UNCHANGED cache /\ (call' = [call EXCEPT ![s] = null] \/ call' = [call EXCEPT ![s] = denied])
    BY <1>10, <2>3, <2>4, <2>5, OneCall DEF SlowReceive
  <2>6. ASSUME NEW d \in {won, null, denied}, miniRoots' = m, configFetched' = TRUE,
               call' \in ThenConfig([call EXCEPT ![s] = d], m), UNCHANGED hardTimeout
        PROVE  IInv'
    <3>1. m \in [DOMAIN m -> Mini] /\ DOMAIN m \subseteq Path /\ MinisOK(m, owed)
      BY <2>1, IngestedOK DEF IInv
    <3>2. d \in Calls /\ CallOK(d, owed)
      BY <2>2, <2>3, <2>4
    <3>3. \A c2 \in Begun(m, ConfigPath) : c2 \in Calls /\ CallOK(c2, owed)
      BY <3>1, BegunOK DEF IInv
    <3>4. \/ call' = [call EXCEPT ![s] = d]
          \/ \E c2 \in Begun(m, ConfigPath) : call' = [[call EXCEPT ![s] = d] EXCEPT ![Config] = c2]
      BY <2>6 DEF ThenConfig
    <3>5. call' \in [Slots -> Calls] /\ \A t \in Slots : CallOK(call'[t], owed)
      <4> HIDE DEF c, m, won, null, denied
      <4>1. call \in [Slots -> Calls] /\ Config \in Slots
        BY DEF IInv, Types, Slots
      <4> QED
        BY <1>0, <3>2, <3>3, <3>4, <4>1
    <3> HIDE DEF m
    <3> QED
      BY <1>10, <2>6, <3>1, <3>5 DEF SlowReceive, IInv, Types, Ordered
  <2>7. \/ UNCHANGED cache /\ (call' = [call EXCEPT ![s] = null] \/ call' = [call EXCEPT ![s] = denied])
        \/ /\ miniRoots' = m /\ configFetched' = TRUE /\ UNCHANGED hardTimeout
           /\ \E d \in {won, null, denied} : call' \in ThenConfig([call EXCEPT ![s] = d], m)
    <3>1. Status(c.ver, c.path) \in {"ok", "missing", "denied"}
      BY DEF Status
    <3>2. PICK last \in LastEntries(c) :
            \/ UNCHANGED cache /\ (call' = [call EXCEPT ![s] = null] \/ call' = [call EXCEPT ![s] = denied])
            \/ /\ miniRoots' = m /\ configFetched' = TRUE /\ UNCHANGED hardTimeout
               /\ call' \in ThenConfig([call EXCEPT ![s] =
                     CASE Status(c.ver, c.path) = "ok"      -> won
                       [] Status(c.ver, c.path) = "missing" -> null
                       [] Status(c.ver, c.path) = "denied"  -> denied], m)
      BY <1>10 DEF SlowReceive
    <3> HIDE DEF c, won, null, denied, m
    <3> QED
      BY <3>1, <3>2
  <2> QED
    BY <2>5, <2>6, <2>7
<1>11. ASSUME NEW s \in Slots, SlowFail(s) PROVE IInv'
  <2>1. PICK result \in {"error", "missing"} :
          call' = [call EXCEPT ![s] =
            Settle(IF result = "error" THEN FastOver(SlowOver(call[s])) ELSE SlowOver(call[s]), result, Len(hist))]
    BY <1>11 DEF SlowFail
  <2> DEFINE c == Settle(IF result = "error" THEN FastOver(SlowOver(call[s])) ELSE SlowOver(call[s]),
                         result, Len(hist))
  <2>2. c \in Calls /\ CallOK(c, owed)
    BY <1>0, SlowSettles DEF Results
  <2>3. call' = [call EXCEPT ![s] = c]
    BY <2>1
  <2> HIDE DEF c
  <2> QED
    BY <1>11, <2>2, <2>3, OneCall DEF SlowFail
<1>12. NoCall \in Calls /\ CallOK(NoCall, owed)
  BY DEF NoCall, Calls, CallOK, Results, IInv, Types
<1>13. ASSUME NEW s \in Slots, Return(s) PROVE IInv'
  BY <1>12, <1>13, OneCall DEF Return
<1>14. CASE ConfigEnd
  <2>1. hardTimeout' \in Nat
    BY <1>14, TimesAssumption DEF ConfigEnd, IInv, Types
  <2> QED
    BY <1>12, <1>14, <2>1 DEF ConfigEnd, IInv, Types, Ordered, MinisOK, Slots
<1>15. NoPost \in Posts /\ NoPost.stage = "idle"
  BY DEF NoPost, Posts
<1>16. ASSUME NEW l \in Linkers, NEW p \in Wanted, NEW appears \in BOOLEAN, Link(l, p, appears) PROVE IInv'
  <2> DEFINE x == [NoPost EXCEPT !.stage = "sent", !.path = p, !.appears = appears, !.sent = now]
  <2>1. x \in Posts /\ x.stage = "sent"
    BY <1>15 DEF Posts, IInv, Types
  <2>2. post' = [post EXCEPT ![l] = x]
    BY <1>16 DEF Link
  <2> HIDE DEF x
  <2> QED
    BY <1>16, <2>1, <2>2 DEF Link, IInv, Types, Ordered, MinisOK, cache
<1>17. ASSUME NEW l \in Linkers, ServerLink(l) PROVE IInv'
  <2>1. PICK v \in Version : hist' = Append(hist, v)
    BY <1>0, <1>3, <1>17 DEF ServerLink, Posts
  <2>2. hist' \in Seq(Version) /\ hist' # <<>> /\ Len(hist') = Len(hist) + 1 /\ Len(hist') \in Nat
    BY <1>0, <2>1 DEF IInv, Types
  <2>3. post' = [post EXCEPT ![l] = [post[l] EXCEPT !.stage = "answered", !.ver = Len(hist')]]
    BY <1>17 DEF ServerLink, IInv, Types
  <2> DEFINE n == Len(hist')
             x == [post[l] EXCEPT !.stage = "answered", !.ver = n]
  <2>4. n \in Nat /\ post' = [post EXCEPT ![l] = x] /\ owed <= n /\ n = Len(hist) + 1
    BY <1>0, <2>2, <2>3
  <2> HIDE DEF n
  <2>5. x \in Posts /\ x.ver = n
    BY <1>0, <2>4 DEF Posts
  <2> HIDE DEF x
  <2>6. post' \in [Linkers -> Posts]
    BY <2>4, <2>5 DEF IInv, Types
  <2>7. \A k \in Linkers : post'[k].stage = "answered" => owed <= post'[k].ver /\ post'[k].ver <= n
    <3> SUFFICES ASSUME NEW k \in Linkers, post'[k].stage = "answered"
                 PROVE  owed <= post'[k].ver /\ post'[k].ver <= n
      OBVIOUS
    <3>1. CASE k = l
      BY <2>4, <2>5, <3>1 DEF IInv, Types
    <3>2. CASE k # l
      <4>1. post'[k] = post[k]
        BY <2>4, <3>2 DEF IInv, Types
      <4>2. owed <= post[k].ver /\ post[k].ver <= Len(hist) /\ post[k].ver \in Nat
        BY <1>0, <4>1 DEF IInv, Ordered, Posts
      <4> QED
        BY <1>0, <2>4, <4>1, <4>2
    <3> QED
      BY <3>1, <3>2
  <2> QED
    BY <1>0, <1>17, <2>2, <2>4, <2>6, <2>7 DEF n, ServerLink, IInv, Types, Ordered, MinisOK, cache
<1>18. ASSUME NEW l \in Linkers, LinkReceive(l) PROVE IInv'
  <2> DEFINE v == post[l].ver
             m == Ingested(v, Linked(post[l]))
  <2>1. v \in Nat /\ owed \in Nat /\ owed <= v /\ v <= Len(hist)
    BY <1>0, <1>18 DEF LinkReceive, IInv, Types, Ordered, Posts
  <2>2. miniRoots' = m /\ post' = [post EXCEPT ![l] = NoPost]
    BY <1>18 DEF LinkReceive, AfterLink
  <2>3. owed' \in Nat /\ owed <= owed' /\ owed' <= v
        /\ (owed' # owed => ~Overtakes(v) /\ \A k \in Linkers : post[k].stage = "answered" => post[k].ver >= v)
    BY <1>18, <2>1 DEF LinkReceive, Owes
  <2>4. m \in [DOMAIN m -> Mini] /\ DOMAIN m \subseteq Path /\ MinisOK(m, owed')
    BY <2>1, <2>3, IngestedOK DEF IInv
  <2>a. \A s \in Slots : call[s].ver \in Nat /\ call[s].must \in Nat
    BY <1>0 DEF Calls
  <2>5. \A s \in Slots : call[s].slow = "answered" => owed' <= call[s].ver
    <3> SUFFICES ASSUME NEW s \in Slots, call[s].slow = "answered" PROVE owed' <= call[s].ver
      OBVIOUS
    <3>1. owed <= call[s].ver /\ (owed' # owed => ~(call[s].ver < v))
      BY <1>0, <2>3 DEF Overtakes, CallOK
    <3> QED
      BY <2>1, <2>3, <2>a, <3>1
  <2>6. \A s \in Slots : CallOK(call[s], owed')
    <3> SUFFICES ASSUME NEW s \in Slots PROVE CallOK(call[s], owed')
      OBVIOUS
    <3>1. call[s].must <= owed'
      BY <1>0, <2>1, <2>3, <2>a DEF CallOK
    <3> QED
      BY <1>0, <2>5, <3>1 DEF CallOK
  <2>7. \A k \in Linkers : post'[k].stage = "answered" => owed' <= post'[k].ver /\ post'[k].ver <= Len(hist)
    BY <1>0, <1>15, <2>1, <2>2, <2>3 DEF IInv, Types, Ordered, Posts
  <2> HIDE DEF m
  <2> QED
    BY <1>15, <1>18, <2>1, <2>2, <2>3, <2>4, <2>6, <2>7 DEF LinkReceive, IInv, Types, Ordered
<1>19. ASSUME NEW l \in Linkers, LinkFail(l) PROVE IInv'
  BY <1>15, <1>19 DEF LinkFail, IInv, Types, Ordered, MinisOK, cache
<1>20. CASE ResetRoot
  <2>1. miniRoots' = [p \in DOMAIN miniRoots |-> [miniRoots[p] EXCEPT !.usable = FALSE]]
    BY <1>20 DEF ResetRoot
  <2>2. DOMAIN miniRoots' = DOMAIN miniRoots /\ \A p \in DOMAIN miniRoots : miniRoots[p] \in Mini
    BY <2>1 DEF IInv, Types
  <2>3. \A p \in DOMAIN miniRoots : miniRoots'[p] \in Mini /\ miniRoots'[p].ver = miniRoots[p].ver
    BY <2>1, <2>2 DEF Mini
  <2>4. miniRoots' \in [DOMAIN miniRoots' -> Mini]
    BY <2>1, <2>2, <2>3
  <2> QED
    BY <1>20, <2>2, <2>3, <2>4 DEF ResetRoot, IInv, Types, Ordered, MinisOK
<1>21. CASE ClearMiniRoots
  <2>1. DOMAIN NoMini = {} /\ NoMini \in [DOMAIN NoMini -> Mini]
    BY DEF NoMini
  <2> QED
    BY <1>21, <2>1 DEF ClearMiniRoots, IInv, Types, Ordered, MinisOK
<1>22. CASE UNCHANGED vars
  BY <1>22 DEF vars, cache, IInv, Types, Ordered, MinisOK
<1> QED
  BY <1>1, <1>4, <1>5, <1>6, <1>7, <1>8, <1>9, <1>10, <1>11, <1>13, <1>14, <1>16, <1>17, <1>18,
     <1>19, <1>20, <1>21, <1>22 DEF Next

LEMMA Inductive == Spec => []IInv
  BY Initially, Step, PTL DEF Spec
-----------------------------------------------------------------------------
(* The mini-roots are addresses of one version of the tree, none of them   *)
(* above another (_findMiniRoot's first match is the only one).            *)
THEOREM OneSnapshot == Spec => []MiniRootsAreASnapshot
<1>1. IInv => MiniRootsAreASnapshot
  BY DEF IInv, Ordered, MinisOK, MiniRootsAreASnapshot
<1> QED
  BY <1>1, Inductive, PTL

(* A lookup that begins after an own link was answered sees it, unless an  *)
(* answer from before the link was under way.                              *)
THEOREM LinksAreSeen == Spec => []OwnLinksAreSeen
<1>1. IInv => OwnLinksAreSeen
  BY DEF IInv, Types, Ordered, CallOK, Calls, OwnLinksAreSeen
<1> QED
  BY <1>1, Inductive, PTL

(* No lookup waits for two legs that have both given up.                   *)
THEOREM NobodyIsStranded == Spec => []WaitingCanEnd
<1>1. IInv => WaitingCanEnd
  BY DEF IInv, Ordered, CallOK, WaitingCanEnd
<1> QED
  BY <1>1, Inductive, PTL
-----------------------------------------------------------------------------
(* How old what a lookup finds may be. Version v of history h was still    *)
(* the current one at time t.                                              *)
Fresh(h, v, t) == v \in 1..Len(h) /\ (v < Len(h) => h[v + 1].at >= t)

(* A lookup: its request was sent after it began and no longer ago than    *)
(* an answer takes, its answer has a version from after that, and what its *)
(* walk starts from, or what it found, is as recent as it is to be.        *)
Bound(c) == c.start - c.limit - MaxLatency
CallRecent(c, h, n) ==
  /\ c.start <= n
  /\ c.slow \in {"sent", "answered"} => c.start <= c.sent /\ c.sent <= n /\ n - c.sent <= MaxLatency
  /\ c.slow = "answered" => Fresh(h, c.ver, c.sent)
  /\ c.fast = "walking" => Fresh(h, c.base, Bound(c))
  /\ c.result = "found" => Fresh(h, c.found, Bound(c))

PostRecent(x, h, n) ==
  /\ x.stage \in {"sent", "answered"} => x.sent <= n /\ n - x.sent <= MaxLatency
  /\ x.stage = "answered" => Fresh(h, x.ver, x.sent)

MiniRecent(r, h, n) == r.ts <= n /\ Fresh(h, r.ver, r.ts - MaxLatency)

Recent ==
  /\ \A s \in Slots : CallRecent(call[s], hist, now)
  /\ \A l \in Linkers : PostRecent(post[l], hist, now)
  /\ \A p \in DOMAIN miniRoots : MiniRecent(miniRoots[p], hist, now)

(* A version that was current stays so when the history grows.             *)
LEMMA FreshStays ==
  ASSUME NEW h \in Seq(Version), NEW v \in Version, NEW k \in Nat, NEW t \in Int, t <= v.at,
         Fresh(h, k, t)
  PROVE  Fresh(Append(h, v), k, t)
<1>1. /\ Len(h) \in Nat /\ Len(Append(h, v)) = Len(h) + 1 /\ Append(h, v)[Len(h) + 1] = v
      /\ \A i \in 1..Len(h) : Append(h, v)[i] = h[i]
  OBVIOUS
<1>2. CASE k < Len(h)
  <2>1. k + 1 \in 1..Len(h)
    BY <1>1, <1>2
  <2> QED
    BY <1>1, <1>2, <2>1 DEF Fresh
<1>3. CASE k = Len(h)
  BY <1>1, <1>3 DEF Fresh
<1> QED
  BY <1>1, <1>2, <1>3 DEF Fresh

LEMMA FreshEarlier ==
  ASSUME NEW h \in Seq(Version), NEW k \in Nat, NEW t \in Int, NEW u \in Int, u <= t, Fresh(h, k, t)
  PROVE  Fresh(h, k, u)
<1>1. ASSUME k < Len(h) PROVE h[k + 1].at \in Nat
  <2>1. k + 1 \in 1..Len(h)
    BY <1>1
  <2>2. h[k + 1] \in Version
    BY <2>1
  <2> QED
    BY <2>2 DEF Version
<1> QED
  BY <1>1 DEF Fresh

(* The legs of a lookup.                                                   *)
LEMMA CallFields ==
  ASSUME NEW c \in Calls
  PROVE  /\ c.start \in Nat /\ c.limit \in Nat /\ c.sent \in Nat /\ c.ver \in Nat
         /\ c.base \in Nat /\ c.found \in Nat /\ Bound(c) \in Int /\ Bound(c) <= c.start
BY TimesAssumption DEF Calls, Bound

LEMMA LegsOverRecent ==
  ASSUME NEW c \in Calls, NEW h, NEW n, CallRecent(c, h, n)
  PROVE  /\ CallRecent(SlowOver(c), h, n) /\ Bound(SlowOver(c)) = Bound(c)
         /\ CallRecent(FastOver(c), h, n) /\ Bound(FastOver(c)) = Bound(c)
         /\ SlowOver(c) \in Calls /\ FastOver(c) \in Calls
<1>1. /\ SlowOver(c) \in Calls
      /\ SlowOver(c).start = c.start /\ SlowOver(c).limit = c.limit /\ SlowOver(c).slow = "over"
      /\ SlowOver(c).fast = c.fast /\ SlowOver(c).base = c.base
      /\ SlowOver(c).result = c.result /\ SlowOver(c).found = c.found
  BY DEF SlowOver, Calls
<1>2. /\ FastOver(c).start = c.start /\ FastOver(c).limit = c.limit /\ FastOver(c).slow = c.slow
      /\ FastOver(c).fast = "over" /\ FastOver(c).sent = c.sent /\ FastOver(c).ver = c.ver
      /\ FastOver(c).result = c.result /\ FastOver(c).found = c.found /\ FastOver(c) \in Calls
  BY DEF FastOver, Calls
<1> QED
  BY <1>1, <1>2 DEF CallRecent, Bound

LEMMA SettleRecent ==
  ASSUME NEW c \in Calls, NEW h, NEW n, CallRecent(c, h, n), NEW r \in Results, NEW v \in Nat,
         r = "found" => Fresh(h, v, Bound(c))
  PROVE  CallRecent(Settle(c, r, v), h, n)
<1>1. CASE c.stage = "open"
  <2> DEFINE d == [c EXCEPT !.stage = "settled", !.result = r, !.found = v]
  <2>1. /\ d.start = c.start /\ d.limit = c.limit /\ d.slow = c.slow /\ d.sent = c.sent
        /\ d.ver = c.ver /\ d.fast = c.fast /\ d.base = c.base /\ d.result = r /\ d.found = v
    BY DEF Calls
  <2>2. Settle(c, r, v) = d
    BY <1>1 DEF Settle
  <2> HIDE DEF d
  <2> QED
    BY <2>1, <2>2 DEF CallRecent, Bound
<1>2. CASE c.stage # "open"
  BY <1>2 DEF Settle
<1> QED
  BY <1>1, <1>2

(* A lookup that begins, from mini-roots or with a request.                *)
LEMMA BegunRecent ==
  ASSUME Types, NEW m, m \in [DOMAIN m -> Mini], NEW path \in Path, NEW c \in Begun(m, path),
         \A p \in DOMAIN m : MiniRecent(m[p], hist, now)
  PROVE  CallRecent(c, hist, now)
<1>0. now \in Nat /\ owed \in Nat /\ hardTimeout \in Nat /\ hist \in Seq(Version) /\ MaxLatency \in Nat
  BY TimesAssumption DEF Types
<1>1. Asked(m, path) \in SUBSET (Path \union DOMAIN m)
  BY DEF Asked
<1> DEFINE begun == [NoCall EXCEPT !.stage = "open", !.path = path, !.start = now,
                                   !.must = owed, !.limit = hardTimeout]
<1>2. /\ begun \in Calls /\ begun.start = now /\ begun.limit = hardTimeout
      /\ begun.slow = "over" /\ begun.fast = "over" /\ begun.result = "none"
  BY <1>0, PathsAssumption DEF NoCall, Calls, Results
<1> DEFINE walk(p) == [begun EXCEPT !.fast = "walking", !.base = m[p].ver, !.slow = "timer"]
           asking == [begun EXCEPT !.slow = "sent", !.asked = Asked(m, path), !.sent = now]
<1>3. (\E p \in DOMAIN m : now - m[p].ts <= hardTimeout /\ c = walk(p)) \/ c = asking
  BY DEF Begun, Usable
<1> HIDE DEF begun
<1>4. ASSUME NEW p \in DOMAIN m, now - m[p].ts <= hardTimeout,
             c = walk(p)
      PROVE  CallRecent(c, hist, now)
  <2>1. m[p].ts \in Nat /\ m[p].ver \in Nat /\ Fresh(hist, m[p].ver, m[p].ts - MaxLatency)
    BY DEF Mini, MiniRecent
  <2>2. /\ c.start = now /\ c.limit = hardTimeout /\ c.slow = "timer" /\ c.result = "none"
        /\ c.base = m[p].ver
    BY <1>2, <1>4 DEF Calls
  <2>3. Bound(c) = now - hardTimeout - MaxLatency
    BY <2>2 DEF Bound
  <2>a. now - m[p].ts <= hardTimeout
    BY <1>4
  <2>4. Bound(c) \in Int /\ m[p].ts - MaxLatency \in Int /\ Bound(c) <= m[p].ts - MaxLatency
    BY ONLY <1>0, <2>a, <2>1, <2>3
  <2>5. Fresh(hist, c.base, Bound(c))
    BY <1>0, <2>1, <2>2, <2>4, FreshEarlier
  <2> QED
    BY <1>0, <2>2, <2>5 DEF CallRecent
<1>5. CASE c = asking
  <2>1. c.start = now /\ c.slow = "sent" /\ c.sent = now /\ c.fast = "over" /\ c.result = "none"
    BY <1>2, <1>5 DEF Calls
  <2> QED
    BY <1>0, <2>1 DEF CallRecent
<1> HIDE DEF walk, asking
<1> QED
  BY <1>3, <1>4, <1>5

(* What is ingested now is of a version that was current when the request  *)
(* was sent.                                                               *)
LEMMA IngestedRecent ==
  ASSUME Types, NEW v \in Nat, NEW t \in Nat, NEW P, Fresh(hist, v, t), now - t <= MaxLatency,
         NEW p \in DOMAIN Ingested(v, P)
  PROVE  MiniRecent(Ingested(v, P)[p], hist, now)
<1>1. Ingested(v, P)[p] = [ver |-> v, ts |-> now, usable |-> TRUE]
  BY DEF Ingested
<1>2. now \in Nat /\ MaxLatency \in Nat /\ hist \in Seq(Version)
  BY TimesAssumption DEF Types
<1>3. Fresh(hist, v, now - MaxLatency)
  BY <1>2, FreshEarlier
<1> QED
  BY <1>1, <1>2, <1>3 DEF MiniRecent

LEMMA InitiallyRecent == Init => Recent
<1> SUFFICES ASSUME Init PROVE Recent
  OBVIOUS
<1>1. CallRecent(NoCall, hist, now) /\ PostRecent(NoPost, hist, now) /\ DOMAIN NoMini = {}
  BY DEF Init, NoCall, NoPost, NoMini, CallRecent, PostRecent
<1> QED
  BY <1>1 DEF Init, Recent

(* A step of the server makes the history longer, and a step of the clock  *)
(* waits for the answers that are due.                                     *)
LEMMA GrowsRecent ==
  ASSUME IInv, Recent, NEW v \in Version, v.at = now, hist' = Append(hist, v),
         UNCHANGED <<now, miniRoots, call>>,
         NEW l, \A k \in Linkers : k = l \/ post'[k] = post[k],
         l \in Linkers => PostRecent(post'[l], hist', now')
  PROVE  Recent'
<1>0. hist \in Seq(Version) /\ now \in Nat /\ MaxLatency \in Nat
  BY TimesAssumption DEF IInv, Types
<1>1. ASSUME NEW s \in Slots PROVE CallRecent(call[s], hist', now)
  <2>1. call[s] \in Calls /\ CallRecent(call[s], hist, now)
    BY DEF IInv, Types, Recent
  <2> DEFINE c == call[s]
  <2>2. /\ c.start \in Nat /\ c.sent \in Nat /\ c.ver \in Nat /\ c.base \in Nat /\ c.found \in Nat
        /\ Bound(c) \in Int /\ Bound(c) <= c.start
    BY <2>1, CallFields
  <2> HIDE DEF c
  <2>3. CallRecent(c, hist, now)
    BY <2>1 DEF c
  <2>4. c.start <= now
    BY <2>3 DEF CallRecent
  <2>5. ASSUME c.slow = "answered" PROVE Fresh(hist', c.ver, c.sent)
    <3>1. c.sent <= now /\ Fresh(hist, c.ver, c.sent)
      BY <2>3, <2>5 DEF CallRecent
    <3> QED
      BY <1>0, <2>2, <3>1, FreshStays
  <2>6. c.fast = "walking" => Fresh(hist', c.base, Bound(c))
    BY <1>0, <2>2, <2>3, <2>4, FreshStays DEF CallRecent
  <2>7. c.result = "found" => Fresh(hist', c.found, Bound(c))
    BY <1>0, <2>2, <2>3, <2>4, FreshStays DEF CallRecent
  <2>8. CallRecent(c, hist', now)
    BY <2>3, <2>5, <2>6, <2>7 DEF CallRecent
  <2> QED
    BY <2>8 DEF c
<1>2. ASSUME NEW k \in Linkers, k # l PROVE PostRecent(post[k], hist', now)
  <2>1. post[k] \in Posts /\ PostRecent(post[k], hist, now)
    BY DEF IInv, Types, Recent
  <2>2. post[k].sent \in Nat /\ post[k].ver \in Nat
    BY <2>1 DEF Posts
  <2> QED
    BY <1>0, <2>1, <2>2, FreshStays DEF PostRecent
<1>3. ASSUME NEW p \in DOMAIN miniRoots PROVE MiniRecent(miniRoots[p], hist', now)
  <2>1. miniRoots[p] \in Mini /\ MiniRecent(miniRoots[p], hist, now)
    BY DEF IInv, Types, Recent
  <2>2. miniRoots[p].ts \in Nat /\ miniRoots[p].ver \in Nat /\ miniRoots[p].ts - MaxLatency <= now
        /\ miniRoots[p].ts - MaxLatency \in Int
    BY <1>0, <2>1 DEF Mini, MiniRecent
  <2> QED
    BY <1>0, <2>1, <2>2, FreshStays DEF MiniRecent
<1>4. \A k \in Linkers : PostRecent(post'[k], hist', now')
  BY <1>2
<1> QED
  BY <1>1, <1>3, <1>4 DEF Recent
(* A step that changes one lookup, and nothing but it.                     *)
LEMMA OneCallRecent ==
  ASSUME IInv, Recent, NEW s \in Slots, NEW c, CallRecent(c, hist, now),
         call' = [call EXCEPT ![s] = c], UNCHANGED <<hist, now, miniRoots, post>>
  PROVE  Recent'
  BY DEF IInv, Types, Recent

LEMMA RecentStep == IInv /\ IInv' /\ Recent /\ [Next]_vars => Recent'
<1> SUFFICES ASSUME IInv, IInv', Recent, [Next]_vars PROVE Recent'
  OBVIOUS
<1> USE PathsAssumption
<1>0. /\ Types /\ hist \in Seq(Version) /\ Len(hist) \in Nat \ {0} /\ now \in Nat /\ MaxLatency \in Nat
      /\ hist[Len(hist)] \in Version /\ Config \in Slots
      /\ miniRoots \in [DOMAIN miniRoots -> Mini] /\ DOMAIN miniRoots \subseteq Path
      /\ call \in [Slots -> Calls] /\ \A s \in Slots : call[s] \in Calls /\ CallRecent(call[s], hist, now)
      /\ post \in [Linkers -> Posts] /\ \A l \in Linkers : post[l] \in Posts /\ PostRecent(post[l], hist, now)
      /\ \A p \in DOMAIN miniRoots : MiniRecent(miniRoots[p], hist, now)
  BY TimesAssumption DEF IInv, Types, Ordered, Recent, Slots
<1>1. CASE Tick
  <2>1. now' = now + 1 /\ UNCHANGED <<hist, miniRoots, call, post>>
    BY <1>1 DEF Tick, cache
  <2>2. ASSUME NEW s \in Slots PROVE CallRecent(call[s], hist, now + 1)
    <3>1. /\ call[s].slow \in {"sent", "answered"} => now - call[s].sent < MaxLatency
          /\ call[s].sent \in Nat /\ call[s].start \in Nat
      BY <1>0, <1>1 DEF Tick, Outstanding, Calls
    <3> QED
      BY <1>0, <3>1 DEF CallRecent
  <2>3. ASSUME NEW l \in Linkers PROVE PostRecent(post[l], hist, now + 1)
    <3>1. /\ post[l].stage \in {"sent", "answered"} => now - post[l].sent < MaxLatency
          /\ post[l].sent \in Nat
      BY <1>0, <1>1 DEF Tick, Outstanding, Posts
    <3> QED
      BY <1>0, <3>1 DEF PostRecent
  <2>4. ASSUME NEW p \in DOMAIN miniRoots PROVE MiniRecent(miniRoots[p], hist, now + 1)
    <3>1. miniRoots[p].ts \in Nat
      BY <1>0 DEF Mini
    <3> QED
      BY <1>0, <3>1 DEF MiniRecent
  <2> QED
    BY <2>1, <2>2, <2>3, <2>4 DEF Recent
<1>2. ASSUME NEW v \in Version, v.at = now, hist' = Append(hist, v), UNCHANGED <<now, miniRoots, call, post>>
      PROVE  Recent'
  <2>1. PICK l : l \notin Linkers
    BY NoSetContainsEverything
  <2> QED
    BY <1>2, <2>1, GrowsRecent
<1>3. ASSUME NEW p \in Path, NEW appears \in BOOLEAN
      PROVE  Committed(p, appears) \in Version /\ Committed(p, appears).at = now
  BY <1>0 DEF Committed, Version
<1>4. CASE OtherLink
  BY <1>2, <1>3, <1>4 DEF OtherLink, cache
<1>5. CASE OtherAccess
  <2>1. PICK R \in SUBSET Path : hist' = Append(hist, [hist[Len(hist)] EXCEPT !.at = now, !.readable = R])
    BY <1>0, <1>5 DEF OtherAccess, Version
  <2>2. /\ [hist[Len(hist)] EXCEPT !.at = now, !.readable = R] \in Version
        /\ [hist[Len(hist)] EXCEPT !.at = now, !.readable = R].at = now
    BY <1>0 DEF Version
  <2> QED
    BY <1>2, <1>5, <2>1, <2>2 DEF OtherAccess, cache
<1>6. ASSUME NEW s \in Callers, NEW p \in Wanted, Lookup(s, p) PROVE Recent'
  <2>1. PICK c \in Begun(miniRoots, p) : call' = [call EXCEPT ![s] = c]
    BY <1>6 DEF Lookup
  <2>2. CallRecent(c, hist, now)
    BY <1>0, BegunRecent
  <2> QED
    BY <1>6, <2>1, <2>2, OneCallRecent DEF Lookup, Slots, cache
<1>7. ASSUME NEW s \in Slots, FastWalk(s) PROVE Recent'
  <2>1. PICK full \in BOOLEAN : call' = [call EXCEPT ![s] = Fast(call[s], full)]
    BY <1>0, <1>7 DEF FastWalk
  <2> DEFINE c == call[s]
             d == [FastOver(c) EXCEPT !.fastResolved = TRUE]
  <2>2. c \in Calls /\ CallRecent(c, hist, now) /\ c.fast = "walking" /\ c.base \in Nat
    BY <1>0, <1>7 DEF FastWalk, Calls
  <2> HIDE DEF c
  <2>3. FastOver(c) \in Calls /\ CallRecent(FastOver(c), hist, now) /\ Bound(FastOver(c)) = Bound(c)
    BY <2>2, LegsOverRecent
  <2>4. d \in Calls /\ CallRecent(d, hist, now) /\ Bound(d) = Bound(c)
    <3>1. /\ d \in Calls /\ d.start = FastOver(c).start /\ d.limit = FastOver(c).limit
          /\ d.slow = FastOver(c).slow /\ d.sent = FastOver(c).sent /\ d.ver = FastOver(c).ver
          /\ d.fast = FastOver(c).fast /\ d.base = FastOver(c).base
          /\ d.result = FastOver(c).result /\ d.found = FastOver(c).found
      BY <2>3 DEF Calls
    <3> HIDE DEF d
    <3> QED
      BY <2>3, <3>1 DEF CallRecent, Bound
  <2>5. Fresh(hist, c.base, Bound(c))
    BY <2>2 DEF CallRecent
  <2> HIDE DEF d
  <2>6. CallRecent(Settle(d, "found", c.base), hist, now)
    BY <2>2, <2>4, <2>5, SettleRecent DEF Results
  <2>7. CallRecent(Fast(c, full), hist, now)
    BY <2>3, <2>6 DEF Fast, d
  <2> QED
    BY <1>7, <2>1, <2>7, OneCallRecent DEF FastWalk, cache, c
<1>8. ASSUME NEW s \in Slots, SlowStart(s) PROVE Recent'
  <2> DEFINE c == call[s]
             d == [c EXCEPT !.slow = "sent", !.asked = Asked(miniRoots, c.path), !.sent = now]
  <2>1. call' = [call EXCEPT ![s] = IF c.fastResolved THEN SlowOver(c) ELSE d]
    BY <1>0, <1>8 DEF SlowStart
  <2>2. c \in Calls /\ CallRecent(c, hist, now)
    BY <1>0
  <2> HIDE DEF c
  <2>3. CallRecent(SlowOver(c), hist, now)
    BY <2>2, LegsOverRecent
  <2>4. /\ d.start = c.start /\ d.limit = c.limit /\ d.slow = "sent" /\ d.sent = now
        /\ d.fast = c.fast /\ d.base = c.base /\ d.result = c.result /\ d.found = c.found
    BY <2>2 DEF Calls
  <2> HIDE DEF d
  <2>5. CallRecent(d, hist, now)
    BY <1>0, <2>2, <2>4 DEF CallRecent, Bound
  <2>6. CallRecent(IF c.fastResolved THEN SlowOver(c) ELSE d, hist, now)
    BY <2>3, <2>5
  <2> QED
    BY <1>8, <2>1, <2>6, OneCallRecent DEF SlowStart, cache
<1>9. ASSUME NEW s \in Slots, ServerLookup(s) PROVE Recent'
  <2> DEFINE c == call[s]
             d == [c EXCEPT !.slow = "answered", !.ver = Len(hist)]
  <2>1. call' = [call EXCEPT ![s] = d]
    BY <1>0, <1>9 DEF ServerLookup
  <2>2. c \in Calls /\ CallRecent(c, hist, now) /\ c.slow = "sent"
    BY <1>0, <1>9 DEF ServerLookup
  <2> HIDE DEF c
  <2>3. /\ d.start = c.start /\ d.limit = c.limit /\ d.slow = "answered" /\ d.sent = c.sent /\ d.ver = Len(hist)
        /\ d.fast = c.fast /\ d.base = c.base /\ d.result = c.result /\ d.found = c.found
    BY <2>2 DEF Calls
  <2>4. Fresh(hist, Len(hist), c.sent)
    BY <1>0 DEF Fresh
  <2> HIDE DEF d
  <2>5. CallRecent(d, hist, now)
    BY <2>2, <2>3, <2>4 DEF CallRecent, Bound
  <2> QED
    BY <1>9, <2>1, <2>5, OneCallRecent DEF ServerLookup, cache
<1>10. ASSUME NEW s \in Slots, SlowReceive(s) PROVE Recent'
  <2> DEFINE c == call[s]
             won == Settle(SlowOver(c), "found", c.ver)
             null == Settle(SlowOver(c), "missing", c.ver)
             denied == Settle(FastOver(SlowOver(c)), "denied", c.ver)
             m == Ingested(c.ver, c.asked)
  <2>1. /\ c \in Calls /\ CallRecent(c, hist, now) /\ c.slow = "answered" /\ c.ver \in Nat /\ c.sent \in Nat
        /\ c.start \in Nat /\ c.limit \in Nat
    BY <1>0, <1>10 DEF SlowReceive, Calls
  <2>2. Fresh(hist, c.ver, c.sent) /\ c.start <= c.sent /\ now - c.sent <= MaxLatency
    BY <2>1 DEF CallRecent
  <2>3. Bound(c) \in Int /\ Bound(c) <= c.sent
    BY <1>0, <2>1, <2>2 DEF Bound
  <2>4. Fresh(hist, c.ver, Bound(c))
    BY <1>0, <2>1, <2>2, <2>3, FreshEarlier
  <2>5. /\ SlowOver(c) \in Calls /\ CallRecent(SlowOver(c), hist, now) /\ Bound(SlowOver(c)) = Bound(c)
        /\ FastOver(SlowOver(c)) \in Calls /\ CallRecent(FastOver(SlowOver(c)), hist, now)
    BY <2>1, LegsOverRecent
  <2>6. CallRecent(won, hist, now) /\ CallRecent(null, hist, now) /\ CallRecent(denied, hist, now)
    BY <2>1, <2>4, <2>5, SettleRecent DEF Results
  <2>7. \A p \in DOMAIN m : MiniRecent(m[p], hist, now)
    BY <1>0, <2>1, <2>2, IngestedRecent
  <2>8. CASE UNCHANGED cache /\ (call' = [call EXCEPT ![s] = null] \/ call' = [call EXCEPT ![s] = denied])
    BY <1>10, <2>6, <2>8, OneCallRecent DEF SlowReceive, cache
  <2>9. ASSUME NEW d \in {won, null, denied}, miniRoots' = m,
               call' \in ThenConfig([call EXCEPT ![s] = d], m)
        PROVE  Recent'
    <3>1. m \in [DOMAIN m -> Mini]
      BY <2>9 DEF IInv, Types
    <3>2. CallRecent(d, hist, now)
      BY <2>6
    <3>3. \A e \in Begun(m, ConfigPath) : CallRecent(e, hist, now)
      BY <1>0, <2>7, <3>1, BegunRecent
    <3>4. \/ call' = [call EXCEPT ![s] = d]
          \/ \E e \in Begun(m, ConfigPath) : call' = [[call EXCEPT ![s] = d] EXCEPT ![Config] = e]
      BY <2>9 DEF ThenConfig
    <3> HIDE DEF c, m, won, null, denied
    <3>5. \A t \in Slots : CallRecent(call'[t], hist, now)
      BY <1>0, <3>2, <3>3, <3>4
    <3> QED
      BY <1>0, <1>10, <2>7, <2>9, <3>5 DEF SlowReceive, Recent
  <2>10. \/ UNCHANGED cache /\ (call' = [call EXCEPT ![s] = null] \/ call' = [call EXCEPT ![s] = denied])
         \/ /\ miniRoots' = m
            /\ \E d \in {won, null, denied} : call' \in ThenConfig([call EXCEPT ![s] = d], m)
    <3>1. Status(c.ver, c.path) \in {"ok", "missing", "denied"}
      BY DEF Status
    <3>2. PICK last \in LastEntries(c) :
            \/ UNCHANGED cache /\ (call' = [call EXCEPT ![s] = null] \/ call' = [call EXCEPT ![s] = denied])
            \/ /\ miniRoots' = m
               /\ call' \in ThenConfig([call EXCEPT ![s] =
                     CASE Status(c.ver, c.path) = "ok"      -> won
                       [] Status(c.ver, c.path) = "missing" -> null
                       [] Status(c.ver, c.path) = "denied"  -> denied], m)
      BY <1>10 DEF SlowReceive
    <3> HIDE DEF c, won, null, denied, m
    <3> QED
      BY <3>1, <3>2
  <2> HIDE DEF c, won, null, denied, m
  <2> QED
    BY <2>8, <2>9, <2>10
<1>11. ASSUME NEW s \in Slots, SlowFail(s) PROVE Recent'
  <2>1. PICK result \in {"error", "missing"} :
          call' = [call EXCEPT ![s] =
            Settle(IF result = "error" THEN FastOver(SlowOver(call[s])) ELSE SlowOver(call[s]), result, Len(hist))]
    BY <1>11 DEF SlowFail
  <2> DEFINE c == IF result = "error" THEN FastOver(SlowOver(call[s])) ELSE SlowOver(call[s])
             d == Settle(c, result, Len(hist))
  <2>2. SlowOver(call[s]) \in Calls /\ CallRecent(SlowOver(call[s]), hist, now)
    BY <1>0, LegsOverRecent
  <2>3. c \in Calls /\ CallRecent(c, hist, now)
    BY <2>2, LegsOverRecent
  <2>4. call' = [call EXCEPT ![s] = d]
    BY <2>1
  <2> HIDE DEF c
  <2>5. CallRecent(d, hist, now)
    BY <1>0, <2>3, SettleRecent DEF Results
  <2> HIDE DEF d
  <2> QED
    BY <1>11, <2>4, <2>5, OneCallRecent DEF SlowFail, cache
<1>12. CallRecent(NoCall, hist, now) /\ PostRecent(NoPost, hist, now)
  BY <1>0 DEF NoCall, NoPost, CallRecent, PostRecent
<1>13. ASSUME NEW s \in Slots, Return(s) PROVE Recent'
  BY <1>12, <1>13, OneCallRecent DEF Return, cache
<1>14. CASE ConfigEnd
  BY <1>0, <1>12, <1>14, OneCallRecent DEF ConfigEnd
<1>15. ASSUME NEW l \in Linkers, NEW x, PostRecent(x, hist, now), post' = [post EXCEPT ![l] = x],
              UNCHANGED <<hist, now, call>>, \A p \in DOMAIN miniRoots' : MiniRecent(miniRoots'[p], hist, now)
       PROVE  Recent'
  BY <1>0, <1>15 DEF Recent
<1>16. ASSUME NEW l \in Linkers, NEW p \in Wanted, NEW appears \in BOOLEAN, Link(l, p, appears) PROVE Recent'
  <2> DEFINE x == [NoPost EXCEPT !.stage = "sent", !.path = p, !.appears = appears, !.sent = now]
  <2>1. x.stage = "sent" /\ x.sent = now
    BY DEF NoPost
  <2>2. post' = [post EXCEPT ![l] = x] /\ UNCHANGED <<hist, now, miniRoots, call>>
    BY <1>16 DEF Link, cache
  <2> HIDE DEF x
  <2>3. PostRecent(x, hist, now)
    BY <1>0, <2>1 DEF PostRecent
  <2> QED
    BY <1>0, <1>15, <2>2, <2>3
<1>17. ASSUME NEW l \in Linkers, ServerLink(l) PROVE Recent'
  <2>1. PICK v \in Version : v.at = now /\ hist' = Append(hist, v)
    BY <1>0, <1>3, <1>17 DEF ServerLink, Posts
  <2> DEFINE n == Len(hist')
             x == [post[l] EXCEPT !.stage = "answered", !.ver = n]
  <2>2. /\ post' = [post EXCEPT ![l] = x] /\ UNCHANGED <<now, miniRoots, call>> /\ post[l].stage = "sent"
    BY <1>0, <1>17 DEF ServerLink, cache
  <2>3. n = Len(hist) + 1
    BY <1>0, <2>1
  <2> HIDE DEF n
  <2>4. x.stage = "answered" /\ x.ver = n /\ x.sent = post[l].sent
    BY <1>0 DEF Posts
  <2> HIDE DEF x
  <2>5. Fresh(hist', n, post[l].sent)
    BY <1>0, <2>3 DEF Fresh, n
  <2>6. PostRecent(x, hist', now)
    BY <1>0, <2>2, <2>4, <2>5 DEF PostRecent
  <2>7. post'[l] = x /\ \A k \in Linkers : k = l \/ post'[k] = post[k]
    BY <1>0, <2>2
  <2> QED
    BY <2>1, <2>2, <2>6, <2>7, GrowsRecent
<1>18. ASSUME NEW l \in Linkers, LinkReceive(l) PROVE Recent'
  <2> DEFINE v == post[l].ver
             m == Ingested(v, Linked(post[l]))
  <2>1. miniRoots' = m /\ post' = [post EXCEPT ![l] = NoPost] /\ UNCHANGED <<hist, now, call>>
    BY <1>18 DEF LinkReceive, AfterLink
  <2>2. v \in Nat /\ post[l].sent \in Nat /\ Fresh(hist, v, post[l].sent) /\ now - post[l].sent <= MaxLatency
    BY <1>0, <1>18 DEF LinkReceive, Posts, PostRecent
  <2>3. \A p \in DOMAIN m : MiniRecent(m[p], hist, now)
    BY <1>0, <2>2, IngestedRecent
  <2> HIDE DEF m
  <2> QED
    BY <1>12, <1>15, <2>1, <2>3
<1>19. ASSUME NEW l \in Linkers, LinkFail(l) PROVE Recent'
  BY <1>0, <1>12, <1>15, <1>19 DEF LinkFail, cache
<1>20. CASE ResetRoot
  <2>1. /\ miniRoots' = [p \in DOMAIN miniRoots |-> [miniRoots[p] EXCEPT !.usable = FALSE]]
        /\ UNCHANGED <<hist, now, call, post>>
    BY <1>20 DEF ResetRoot
  <2>2. \A p \in DOMAIN miniRoots : miniRoots'[p].ver = miniRoots[p].ver /\ miniRoots'[p].ts = miniRoots[p].ts
    BY <1>0, <2>1 DEF Mini
  <2>3. \A p \in DOMAIN miniRoots' : MiniRecent(miniRoots'[p], hist, now)
    BY <1>0, <2>1, <2>2 DEF MiniRecent
  <2> QED
    BY <1>0, <2>1, <2>3 DEF Recent
<1>21. CASE ClearMiniRoots
  BY <1>0, <1>21 DEF ClearMiniRoots, NoMini, Recent
<1>22. CASE UNCHANGED vars
  BY <1>0, <1>22 DEF vars, cache, Recent
<1> QED
  BY <1>1, <1>4, <1>5, <1>6, <1>7, <1>8, <1>9, <1>10, <1>11, <1>13, <1>14, <1>16, <1>17, <1>18,
     <1>19, <1>20, <1>21, <1>22 DEF Next

(* What a lookup finds is no older than hardTimeout and the time an answer *)
(* may be under way, counted from the lookup's beginning (MINIROOT_TTL and *)
(* setHardTimeout of GritsClient.js).                                      *)
THEOREM FoundStaysRecent == Spec => []FoundIsRecent
<1>1. IInv /\ Recent => FoundIsRecent
  BY DEF Recent, CallRecent, Fresh, Bound, FoundIsRecent
<1> QED
  BY Inductive, InitiallyRecent, RecentStep, <1>1, PTL DEF Spec
-----------------------------------------------------------------------------
(* The addresses fetched ahead, beside the lookups.                        *)
NoBlobIsNone == None \notin Blob

Distinct(q) == \A i, j \in DOMAIN q : q[i] = q[j] => i = j

(* What is queued is queued once, and not what the worker is at.           *)
QueueOK ==
  /\ prefetchQueue \in Seq(Blob) /\ Distinct(prefetchQueue)
  /\ current = None \/ current \in Blob
  /\ current \notin N!Range(prefetchQueue)
  /\ inFlight = N!Range(prefetchQueue) \union ({current} \ {None})
  /\ inFlight # {} => draining

LEMMA DistinctCount ==
  ASSUME NEW q \in Seq(Blob), Distinct(q)
  PROVE  IsFiniteSet(N!Range(q)) /\ Cardinality(N!Range(q)) = Len(q)
<1>1. Len(q) \in Nat /\ DOMAIN q = 1..Len(q)
  OBVIOUS
<1>2. IsFiniteSet(1..Len(q)) /\ Cardinality(1..Len(q)) = Len(q)
  <2>1. 1 \in Int /\ Len(q) \in Int
    BY <1>1
  <2> QED
    BY <1>1, <2>1, FS_Interval
<1>3. ExistsBijection(1..Len(q), N!Range(q))
  <2> DEFINE f == [i \in 1..Len(q) |-> q[i]]
  <2>1. f \in [1..Len(q) -> N!Range(q)]
    BY <1>1 DEF N!Range
  <2>2. \A i, j \in 1..Len(q) : f[i] = f[j] => i = j
    BY <1>1 DEF Distinct
  <2>3. \A b \in N!Range(q) : \E i \in 1..Len(q) : f[i] = b
    BY <1>1 DEF N!Range
  <2> QED
    BY <2>1, <2>2, <2>3 DEF ExistsBijection, Bijection, Injection, Surjection, IsInjective
<1> QED
  BY <1>2, <1>3, FS_Bijection

LEMMA QueuedIs ==
  ASSUME NEW q \in Seq(Blob), Distinct(q), NEW asked, N!Range(q) \subseteq asked, NEW b \in Blob
  PROVE  /\ N!Queued(q, asked, b) \in Seq(Blob) /\ Distinct(N!Queued(q, asked, b))
         /\ N!Range(N!Queued(q, asked, b)) = N!Range(q) \union ({b} \ asked)
<1>1. CASE b \in asked
  BY <1>1 DEF N!Queued
<1>2. CASE b \notin asked
  <2>1. N!Queued(q, asked, b) = Append(q, b) /\ Append(q, b) \in Seq(Blob)
    BY <1>2 DEF N!Queued
  <2>2. /\ Len(q) \in Nat /\ DOMAIN q = 1..Len(q) /\ DOMAIN Append(q, b) = 1..(Len(q) + 1)
        /\ Append(q, b)[Len(q) + 1] = b /\ \A i \in 1..Len(q) : Append(q, b)[i] = q[i]
    OBVIOUS
  <2>3. \A i \in 1..Len(q) : q[i] # b
    BY <1>2, <2>2 DEF N!Range
  <2>4. Distinct(Append(q, b))
    BY <2>2, <2>3 DEF Distinct
  <2>5. N!Range(Append(q, b)) = N!Range(q) \union {b}
    <3>1. \A i \in DOMAIN Append(q, b) : Append(q, b)[i] \in N!Range(q) \union {b}
      BY <2>2 DEF N!Range
    <3>2. \A i \in DOMAIN q : q[i] \in N!Range(Append(q, b))
      BY <2>2 DEF N!Range
    <3>3. b \in N!Range(Append(q, b))
      BY <2>2 DEF N!Range
    <3> QED
      BY <3>1, <3>2, <3>3 DEF N!Range
  <2> QED
    BY <1>2, <2>1, <2>4, <2>5
<1> QED
  BY <1>1, <1>2

LEMMA PrefetchKeeps ==
  ASSUME NoBlobIsNone, QueueOK, NEW b \in Blob, NEW c \in Blob, N!Prefetch(b, c)
  PROVE  QueueOK'
<1> DEFINE one == N!Queued(prefetchQueue, inFlight, b)
           two == N!Queued(one, inFlight \union {b}, c)
<1>1. one \in Seq(Blob) /\ Distinct(one) /\ N!Range(one) = N!Range(prefetchQueue) \union ({b} \ inFlight)
  BY QueuedIs DEF QueueOK
<1>2. N!Range(one) \subseteq inFlight \union {b}
  BY <1>1 DEF QueueOK
<1> HIDE DEF one
<1>3. /\ two \in Seq(Blob) /\ Distinct(two)
      /\ N!Range(two) = N!Range(one) \union ({c} \ (inFlight \union {b}))
  BY <1>1, <1>2, QueuedIs
<1>4. prefetchQueue' = two /\ inFlight' = inFlight \union {b, c} /\ draining' = TRUE /\ current' = current
  BY DEF N!Prefetch, one
<1> HIDE DEF two
<1>5. current # None => current \in inFlight
  BY DEF QueueOK
<1>6. N!Range(two) = N!Range(prefetchQueue) \union ({b, c} \ inFlight)
  BY <1>1, <1>3
<1>7. current \notin N!Range(two)
  BY <1>5, <1>6 DEF QueueOK, NoBlobIsNone
<1>8. inFlight' = N!Range(two) \union ({current} \ {None})
  BY <1>4, <1>6 DEF QueueOK
<1>9. N!Range(prefetchQueue)' = N!Range(two)
  BY <1>4
<1> QED
  BY <1>3, <1>4, <1>7, <1>8, <1>9 DEF QueueOK

LEMMA DrainNextKeeps ==
  ASSUME NoBlobIsNone, QueueOK, N!DrainNext
  PROVE  QueueOK'
<1>1. draining /\ current = None
  BY DEF N!DrainNext
<1>2. CASE prefetchQueue = <<>>
  <2>1. UNCHANGED <<prefetchQueue, inFlight, current>>
    BY <1>2 DEF N!DrainNext
  <2>2. inFlight = {}
    BY <1>1, <1>2 DEF QueueOK, N!Range
  <2> QED
    BY <2>1, <2>2 DEF QueueOK, Distinct, N!Range
<1>3. CASE prefetchQueue # <<>>
  <2> DEFINE h == Head(prefetchQueue)
             t == Tail(prefetchQueue)
  <2>1. prefetchQueue \in Seq(Blob) /\ Distinct(prefetchQueue) /\ inFlight = N!Range(prefetchQueue)
    BY <1>1 DEF QueueOK
  <2>2. /\ Len(prefetchQueue) \in Nat \ {0} /\ DOMAIN prefetchQueue = 1..Len(prefetchQueue)
        /\ h = prefetchQueue[1] /\ h \in Blob
        /\ t \in Seq(Blob) /\ Len(t) = Len(prefetchQueue) - 1 /\ DOMAIN t = 1..Len(t)
        /\ \A i \in 1..Len(t) : t[i] = prefetchQueue[i + 1]
    BY <1>3, <2>1
  <2>3. Distinct(t)
    <3> SUFFICES ASSUME NEW i \in DOMAIN t, NEW j \in DOMAIN t, t[i] = t[j] PROVE i = j
      BY DEF Distinct
    <3>1. i + 1 \in DOMAIN prefetchQueue /\ j + 1 \in DOMAIN prefetchQueue
          /\ prefetchQueue[i + 1] = prefetchQueue[j + 1]
      BY <2>2
    <3>2. i + 1 = j + 1
      BY <2>1, <3>1 DEF Distinct
    <3> QED
      BY <2>2, <3>2
  <2>4. h \notin N!Range(t)
    <3> SUFFICES ASSUME NEW i \in DOMAIN t, t[i] = h PROVE FALSE
      BY DEF N!Range
    <3>1. i + 1 \in DOMAIN prefetchQueue /\ 1 \in DOMAIN prefetchQueue /\ prefetchQueue[i + 1] = prefetchQueue[1]
      BY <2>2
    <3>2. i + 1 = 1
      BY <2>1, <3>1 DEF Distinct
    <3> QED
      BY <2>2, <3>2
  <2>5. N!Range(prefetchQueue) = N!Range(t) \union {h}
    <3>1. \A i \in DOMAIN t : t[i] \in N!Range(prefetchQueue)
      BY <2>2 DEF N!Range
    <3>2. h \in N!Range(prefetchQueue)
      BY <2>2 DEF N!Range
    <3>3. ASSUME NEW i \in DOMAIN prefetchQueue, i # 1
          PROVE  prefetchQueue[i] \in N!Range(t)
      <4>1. i - 1 \in DOMAIN t /\ t[i - 1] = prefetchQueue[i]
        BY <2>2, <3>3
      <4> QED
        BY <4>1 DEF N!Range
    <3> QED
      BY <2>2, <3>1, <3>2, <3>3 DEF N!Range
  <2>6. /\ prefetchQueue' = t /\ draining' = draining
        /\ \/ inFlight' = inFlight \ {h} /\ current' = current
           \/ current' = h /\ inFlight' = inFlight
    BY <1>3 DEF N!DrainNext
  <2> HIDE DEF h, t
  <2>7. h # None
    BY <2>2 DEF NoBlobIsNone
  <2>8. N!Range(prefetchQueue)' = N!Range(t)
    BY <2>6
  <2>9. None \notin N!Range(t)
    BY <2>2 DEF N!Range, NoBlobIsNone
  <2> QED
    BY <1>1, <2>1, <2>2, <2>3, <2>4, <2>5, <2>6, <2>7, <2>8, <2>9 DEF QueueOK
<1> QED
  BY <1>2, <1>3

LEMMA DrainStepKeeps ==
  ASSUME NoBlobIsNone, QueueOK, N!DrainStep
  PROVE  QueueOK'
<1>1. /\ UNCHANGED <<prefetchQueue, draining>>
      /\ \/ UNCHANGED <<inFlight, current>>
         \/ inFlight' = inFlight \ {current} /\ current' = None
  BY DEF N!DrainStep, N!Forget
<1>2. N!Range(prefetchQueue)' = N!Range(prefetchQueue)
  BY <1>1
<1>3. None \notin N!Range(prefetchQueue)
  BY DEF QueueOK, NoBlobIsNone, N!Range
<1>4. CASE UNCHANGED <<inFlight, current>>
  BY <1>1, <1>2, <1>4 DEF QueueOK
<1>5. CASE inFlight' = inFlight \ {current} /\ current' = None
  BY <1>1, <1>2, <1>3, <1>5 DEF QueueOK
<1> QED
  BY <1>1, <1>4, <1>5

LEMMA QueueStep == NoBlobIsNone /\ QueueOK /\ [N!Next]_(N!netVars) => QueueOK'
<1> SUFFICES ASSUME NoBlobIsNone, QueueOK, [N!Next]_(N!netVars) PROVE QueueOK'
  OBVIOUS
<1>1. CASE UNCHANGED <<prefetchQueue, inFlight, draining, current>>
  <2>1. N!Range(prefetchQueue)' = N!Range(prefetchQueue)
    BY <1>1
  <2> QED
    BY <1>1, <2>1 DEF QueueOK
<1>2. CASE \E b, c \in Blob : N!Prefetch(b, c)
  BY <1>2, PrefetchKeeps
<1>3. CASE N!DrainNext
  BY <1>3, DrainNextKeeps
<1>4. CASE N!DrainStep
  BY <1>4, DrainStepKeeps
<1>5. UNCHANGED N!netVars => UNCHANGED <<prefetchQueue, inFlight, draining, current>>
  BY DEF N!netVars, N!prefetch, N!worker
<1>6. /\ N!Refresh => UNCHANGED <<prefetchQueue, inFlight, draining, current>>
      /\ \A b \in Blob : N!CacheExpires(b) => UNCHANGED <<prefetchQueue, inFlight, draining, current>>
  BY DEF N!Refresh, N!CacheExpires, N!prefetch, N!worker
<1>7. \A j \in N!Jobs : N!Answers(j) => UNCHANGED <<prefetchQueue, inFlight, draining, current>>
  BY DEF N!Answers, N!MirrorAnswers, N!ServerAnswers, N!prefetch, N!worker
<1>8. /\ \A j \in Gets : N!GetEnds(j) => UNCHANGED <<prefetchQueue, inFlight, draining, current>>
      /\ \A j \in Gets, b \in Blob : N!Get(j, b) => UNCHANGED <<prefetchQueue, inFlight, draining, current>>
  BY DEF N!GetEnds, N!Get, N!prefetch, N!worker
<1> QED
  BY <1>1, <1>2, <1>3, <1>4, <1>5, <1>6, <1>7, <1>8 DEF N!Next

(* _startPrefetch and _drain: an address is in flight exactly while it is  *)
(* queued or the worker is at it, once, and what is in flight has a        *)
(* worker; for any blobs, mirrors and failures.                            *)
THEOREM InFlightStaysQueued == NoBlobIsNone => (N!Spec => []InFlightIsQueued)
<1> SUFFICES ASSUME NoBlobIsNone PROVE N!Spec => []InFlightIsQueued
  OBVIOUS
<1>1. N!Init => QueueOK
  BY DEF N!Init, QueueOK, Distinct, N!Range
<1>2. QueueOK => InFlightIsQueued
  <2> SUFFICES ASSUME QueueOK PROVE InFlightIsQueued
    OBVIOUS
  <2> DEFINE R == N!Range(prefetchQueue)
  <2>1. IsFiniteSet(R) /\ Cardinality(R) = Len(prefetchQueue) /\ Len(prefetchQueue) \in Nat
    BY DistinctCount DEF QueueOK
  <2>2. inFlight = R \union ({current} \ {None}) /\ current \notin R /\ (inFlight # {} => draining)
    BY DEF QueueOK
  <2> HIDE DEF R
  <2>3. Cardinality(inFlight) = Len(prefetchQueue) + Cardinality({current} \ {None})
    <3>1. CASE current = None
      <4>1. {current} \ {None} = {} /\ inFlight = R
        BY <2>2, <3>1
      <4>2. Cardinality({current} \ {None}) = 0
        BY <4>1, FS_EmptySet
      <4> QED
        BY <2>1, <4>1, <4>2
    <3>2. CASE current # None
      <4>1. {current} \ {None} = {current} /\ inFlight = R \union {current} /\ Cardinality({current}) = 1
        BY <2>2, <3>2, FS_Singleton
      <4>2. Cardinality(R \union {current}) = Cardinality(R) + 1
        BY <2>1, <2>2, FS_AddElement
      <4> QED
        BY <2>1, <4>1, <4>2
    <3> QED
      BY <3>1, <3>2
  <2>4. N!Cardinality(inFlight) = Cardinality(inFlight)
        /\ N!Cardinality({current} \ {None}) = Cardinality({current} \ {None})
    BY DEF N!Cardinality, Cardinality
  <2> QED
    BY <2>2, <2>3, <2>4 DEF InFlightIsQueued, N!InFlightIsQueued, R
<1> QED
  BY <1>1, <1>2, QueueStep, PTL DEF N!Spec
=============================================================================
