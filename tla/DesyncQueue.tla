---------------------------- MODULE DesyncQueue ----------------------------
(***************************************************************************)
(* client/lib/grits/GritsClient.js: DESYNC_MODE. A link is checked against *)
(* what the client believes, enqueued, and answered at once; a background  *)
(* worker sends the queue to the server, one link at a time, and lookups   *)
(* go through the overrides, the newest entry of each path.                *)
(*                                                                         *)
(* The tree: directories of Dir, and below each the leaves Above gives it. *)
(* The mini-roots, which ClientCache is about, are the tree one answer     *)
(* told of, or nothing. (A page that a service worker controls looks past  *)
(* queue and mini-roots; it is not followed here.)                         *)
(***************************************************************************)
EXTENDS Integers, Sequences, FiniteSets

CONSTANTS
  Dir, Leaf,
  Above,        \* the pairs <<d, p>>, p a leaf below the directory d
  Value,        \* the addresses of files
  EmptyDir,     \* the address of an empty directory
  Nil,          \* no address: the link removes the path
  Writers,      \* lookups under way at one time, those of _desyncMultiLink too
  Listers,      \* calls of children() and lookups that wait for the queue
  Others,       \* whether another client may write once, while all is sure
  MaxSeq        \* the bound on enqueued links

VARIABLES
  overrides,    \* _overrides: path -> addr, prev, assert, seq
  queue,        \* _queue
  seq,          \* _seq
  flushing,     \* what the worker does; "off" is ~_flushing
  waiting,      \* the seq each lister waits for, 0 when it does not
  writer,       \* a lookup, or a link whose assertion is being checked with one
  tree,         \* the server's tree
  known,        \* _miniRoots: the tree they lead into, in a set; {} without them
  told,         \* flushing = "linked": the tree that the server's answer tells of
  meant,        \* history: the tree if every enqueued link had been made at once
  unsure,       \* history: an assertion was given, or another client wrote
  misled        \* history: the mini-roots are of an answer that was given before
                \* a link of the queue was made, and came after it

desyncVars == <<overrides, queue, seq, flushing, waiting, writer, tree, known, told,
                meant, unsure, misled>>
cacheVars == <<known, told, misled>>

Paths == Dir \union Leaf
IsAbove(p, q) == p = q \/ <<p, q>> \in Above
Addrs(p) == IF p \in Dir THEN {EmptyDir, Nil} ELSE Value \union {Nil}
Parent(p) == {d \in Dir : <<d, p>> \in Above}

(* A link on a tree: a directory replaces what was below it.               *)
Put(t, p, a) == [q \in Paths |-> IF q = p THEN a ELSE IF IsAbove(p, q) THEN Nil ELSE t[q]]
CanPut(t, p) == \A d \in Parent(p) : t[d] # Nil

Writing(p, a, v, s) == [path |-> p, addr |-> a, prev |-> v, seq |-> s]
NoPrev == [checked |-> FALSE, addr |-> Nil]
Prev(a) == [checked |-> TRUE, addr |-> a]
NoWrite == [stage |-> "idle", path |-> CHOOSE p \in Leaf : TRUE, addr |-> Nil, prev |-> NoPrev,
            answer |-> {}, old |-> FALSE, found |-> Nil]

Init ==
  /\ overrides = [p \in {} |-> Writing(CHOOSE q \in Leaf : TRUE, Nil, NoPrev, 0)]
  /\ queue = <<>>
  /\ seq = 0
  /\ flushing = "off"
  /\ waiting = [w \in Listers |-> 0]
  /\ writer = [w \in Writers |-> NoWrite]
  /\ tree = [p \in Paths |-> IF p \in Dir THEN EmptyDir ELSE Nil]
  /\ known = {}
  /\ told = {}
  /\ meant = tree
  /\ unsure = FALSE
  /\ misled = FALSE
-----------------------------------------------------------------------------
(* findAncestorOverride: of the overrides above the path or at it, the one *)
(* enqueued last.                                                          *)
AncestorOverrides(p) ==
  {q \in DOMAIN overrides : IsAbove(q, p)}
Newest(P) == CHOOSE q \in P : \A r \in P : overrides[r].seq <= overrides[q].seq

(* findDescendantSeq                                                       *)
DescendantSeq(p) ==
  LET P == {q \in DOMAIN overrides : IsAbove(p, q)}
  IN  IF P = {} THEN 0 ELSE overrides[Newest(P)].seq

(* What a lookup of a leaf finds in the overrides above it: the override   *)
(* itself, or, walking down from the directory's, which is empty, nothing. *)
Believed(p) == IF Newest(AncestorOverrides(p)) = p THEN overrides[p].addr ELSE Nil

(* What _fastWalk may find below the mini-roots; when it finds nothing,    *)
(* one waits for the server's answer.                                      *)
Cached(p) == {t[p] : t \in known} \ {Nil}

(* enqueue and _kick                                                       *)
Enqueue(p, a, v) ==
  /\ seq' = seq + 1
  /\ overrides' = [q \in DOMAIN overrides \union {p} |->
                     IF q = p THEN Writing(p, a, v, seq') ELSE overrides[q]]
  /\ queue' = Append(queue, Writing(p, a, v, seq'))
  /\ flushing' = IF flushing = "off" THEN "on" ELSE flushing
  /\ meant' = IF CanPut(meant, p) THEN Put(meant, p, a) ELSE meant
  /\ unsure' = (unsure \/ v.checked \/ ~CanPut(meant, p))

(* The bound, which leaves room for the links that are being checked.      *)
MayLink == seq + Cardinality({w \in Writers : writer[w].prev.checked}) < MaxSeq

(* _desyncMultiLink without an assertion.                                  *)
LinkNow(p, a) ==
  /\ MayLink
  /\ Enqueue(p, a, NoPrev)
  /\ UNCHANGED <<waiting, writer, tree, cacheVars>>

To(w, r) == writer' = [writer EXCEPT ![w] = r]
LookupOnly == UNCHANGED <<overrides, queue, seq, flushing, waiting, tree, told, meant, unsure>>

(* With one: a lookup first, of which the overrides, the mini-roots or the *)
(* server know the answer.                                                 *)
LinkBegin(w, p, a, prev) ==
  LET Goes(stage, found) == To(w, [NoWrite EXCEPT !.stage = stage, !.path = p, !.addr = a,
                                                  !.prev = Prev(prev), !.found = found])
  IN  /\ writer[w].stage = "idle" /\ MayLink
      /\ IF AncestorOverrides(p) # {} THEN Goes("found", Believed(p))
         ELSE Goes("asking", Nil) \/ \E v \in Cached(p) : Goes("found", v)
      /\ LookupOnly /\ UNCHANGED <<known, misled>>

(* A lookup for its own sake, when it asks the server.                     *)
LookupBegin(w, p) ==
  /\ writer[w].stage = "idle"
  /\ AncestorOverrides(p) = {}
  /\ To(w, [NoWrite EXCEPT !.stage = "asking", !.path = p])
  /\ LookupOnly /\ UNCHANGED <<known, misled>>

ServerAnswers(w) ==
  /\ writer[w].stage = "asking"
  /\ To(w, [writer[w] EXCEPT !.stage = "served", !.answer = {tree}])
  /\ LookupOnly /\ UNCHANGED <<known, misled>>

Ends(w, found) ==
  To(w, IF writer[w].prev.checked THEN [writer[w] EXCEPT !.stage = "found", !.found = found,
                                                         !.answer = {}, !.old = FALSE]
        ELSE NoWrite)

(* _ingestLookupResponse: the mini-roots are this answer's from now on,    *)
(* however late it comes.                                                  *)
LookupReceives(w) ==
  /\ writer[w].stage = "served"
  /\ \E t \in writer[w].answer : Ends(w, t[writer[w].path])
  /\ known' = writer[w].answer
  /\ misled' = writer[w].old
  /\ LookupOnly

(* Nothing is found, says the catch of _desyncMultiLink.                   *)
LookupFails(w) ==
  /\ writer[w].stage \in {"asking", "served"}
  /\ Ends(w, Nil)
  /\ LookupOnly /\ UNCHANGED <<known, misled>>

(* What it found is compared with the address the caller expects; then, in *)
(* the same step, the entry.                                               *)
LinkChecked(w) ==
  LET r == writer[w]
  IN  /\ r.stage = "found"
      /\ IF r.found = r.prev.addr THEN Enqueue(r.path, r.addr, r.prev)
         ELSE UNCHANGED <<overrides, queue, seq, flushing, meant, unsure>>
      /\ To(w, NoWrite)
      /\ UNCHANGED <<waiting, tree, cacheVars>>

(* The mini-roots are over hardTimeout old, or taken back.                 *)
Expire ==
  /\ known # {}
  /\ known' = {} /\ misled' = FALSE
  /\ LookupOnly /\ UNCHANGED writer
-----------------------------------------------------------------------------
(* _flush                                                                  *)
Superseded(item) ==
  \/ item.path \notin DOMAIN overrides
  \/ overrides[item.path].seq # item.seq

AnyOverride(item) == {item.path}
Current(item) == {q \in DOMAIN overrides : q = item.path /\ overrides[q].seq = item.seq}

(* Removes the override if it is still the item's.                         *)
Clear(item) == LET keep == DOMAIN overrides \ Current(item)
               IN  overrides' = [q \in keep |-> overrides[q]]

(* _notifyWaiters                                                          *)
Notify(item) == [w \in Listers |-> IF waiting[w] = item.seq THEN 0 ELSE waiting[w]]
Shift(item) == queue' = Tail(queue) /\ waiting' = Notify(item)

NotNotified(item) == waiting
SkippedWaiters(item) == Notify(item)
Skip ==
  /\ flushing = "on" /\ queue # <<>>
  /\ Superseded(Head(queue))
  /\ queue' = Tail(queue) /\ waiting' = SkippedWaiters(Head(queue))
  /\ UNCHANGED <<overrides, seq, flushing, writer, tree, cacheVars, meant, unsure>>

Send ==
  /\ flushing = "on" /\ queue # <<>>
  /\ ~Superseded(Head(queue))
  /\ flushing' = "sent"
  /\ UNCHANGED <<overrides, queue, seq, waiting, writer, tree, cacheVars, meant, unsure>>

(* The server makes the link, or refuses it: the assertion fails (409), or *)
(* a directory on the way does not exist.                                  *)
Refused(t, item) ==
  (item.prev.checked /\ t[item.path] # item.prev.addr) \/ ~CanPut(t, item.path)

(* Every answer under way is one from before the link then.                *)
Outdated == [w \in Writers |-> IF writer[w].stage = "served" THEN [writer[w] EXCEPT !.old = TRUE]
                               ELSE writer[w]]

ServerLinks ==
  /\ flushing = "sent"
  /\ IF Refused(tree, Head(queue)) THEN flushing' = "refused" /\ UNCHANGED <<tree, told, writer>>
     ELSE /\ flushing' = "linked"
          /\ tree' = Put(tree, Head(queue).path, Head(queue).addr)
          /\ told' = {tree'}
          /\ writer' = Outdated
  /\ UNCHANGED <<overrides, queue, seq, waiting, known, misled, meant, unsure>>

(* Done, or dropped: with an assertion that failed or a directory that is  *)
(* gone the entry is not sent again. The answer to a link is ingested too; *)
(* that to an unlink names no path there is.                               *)
Finish ==
  /\ flushing \in {"linked", "refused"}
  /\ Clear(Head(queue))
  /\ Shift(Head(queue))
  /\ flushing' = "on"
  /\ IF flushing = "linked"
     THEN known' = (IF Head(queue).addr = Nil THEN {} ELSE told) /\ misled' = FALSE
     ELSE UNCHANGED <<known, misled>>
  /\ told' = {}
  /\ UNCHANGED <<seq, writer, tree, meant, unsure>>

(* Any other error: two seconds, then the same entry again. The server may *)
(* have made the link.                                                     *)
Transient ==
  /\ flushing \in {"sent", "linked"}
  /\ flushing' = "pause"
  /\ told' = {}
  /\ UNCHANGED <<overrides, queue, seq, waiting, writer, tree, known, meant, unsure, misled>>

Resume ==
  /\ flushing = "pause"
  /\ flushing' = "on"
  /\ UNCHANGED <<overrides, queue, seq, waiting, writer, tree, cacheVars, meant, unsure>>

(* The queue is empty: the worker ends, in the step that saw it empty.     *)
Stop ==
  /\ flushing = "on" /\ queue = <<>>
  /\ flushing' = "off"
  /\ UNCHANGED <<overrides, queue, seq, waiting, writer, tree, cacheVars, meant, unsure>>
-----------------------------------------------------------------------------
(* _waitForDescendants, and _lookup_internal of a directory that has no    *)
(* override above it: both wait for the newest override below.             *)
Wait(w, d) ==
  /\ waiting[w] = 0
  /\ DescendantSeq(d) > 0
  /\ waiting' = [waiting EXCEPT ![w] = DescendantSeq(d)]
  /\ UNCHANGED <<overrides, queue, seq, flushing, writer, tree, cacheVars, meant, unsure>>

OtherWrites ==
  /\ Others /\ ~unsure
  /\ \E p \in Paths : \E a \in Addrs(p) :
       /\ a # tree[p] /\ CanPut(tree, p)
       /\ tree' = Put(tree, p, a)
  /\ unsure' = TRUE
  /\ UNCHANGED <<overrides, queue, seq, flushing, waiting, writer, cacheVars, meant>>

Work == Skip \/ Send \/ ServerLinks \/ Finish \/ Transient \/ Resume \/ Stop

Next ==
  \/ \E p \in Paths : \E a \in Addrs(p) : LinkNow(p, a)
  \/ \E w \in Writers, p \in Leaf :
       LookupBegin(w, p) \/ \E a, prev \in Addrs(p) : LinkBegin(w, p, a, prev)
  \/ \E w \in Writers : ServerAnswers(w) \/ LookupReceives(w) \/ LookupFails(w) \/ LinkChecked(w)
  \/ Expire
  \/ Work
  \/ \E w \in Listers, d \in Paths : Wait(w, d)
  \/ OtherWrites

(* The worker goes on, and a server that is asked again and again answers. *)
Fairness == WF_desyncVars(Work) /\ SF_desyncVars(ServerLinks) /\ SF_desyncVars(Finish)

Spec == Init /\ [][Next]_desyncVars /\ Fairness
-----------------------------------------------------------------------------
(* The client sees its own writes, in the order it made them, before and   *)
(* after they reach the server, in the overrides, below the mini-roots and *)
(* in the server's answer; when the queue is empty the server has what     *)
(* they would have made it, although entries were skipped. With an         *)
(* assertion, or another client, a background link may be dropped. And it  *)
(* does not see them below mini-roots of an answer from before a link that *)
(* was ingested after it: nothing tells such an answer from a newer one.   *)
OwnWritesHold ==
  ~unsure => /\ queue = <<>> => tree = meant
             /\ \A p \in Leaf :
                  IF AncestorOverrides(p) # {} THEN Believed(p) = meant[p]
                  ELSE tree[p] = meant[p] /\ (Cached(p) \subseteq {meant[p]} \/ misled)

(* Whoever waits for an entry is woken, also when it is skipped or dropped *)
(* (_notifyWaiters).                                                       *)
WaitersWake == \A w \in Listers : waiting[w] # 0 ~> waiting[w] = 0
=============================================================================
