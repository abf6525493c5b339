--------------------------- MODULE Network_proofs ---------------------------
(***************************************************************************)
(* Proofs about what lies between a page and the server, for all values of *)
(* the constants: the queue of links of DESYNC_MODE, the uploads before a  *)
(* link, and the service worker.                                           *)
(***************************************************************************)
EXTENDS MCNetwork, SequenceTheorems, FiniteSetTheorems, TLAPS

LeavesBelow == Above \subseteq Dir \X Leaf /\ Dir \intersect Leaf = {}

Address == Value \union {EmptyDir, Nil}
Assertion == [checked : BOOLEAN, addr : Address]
Entry == [path : D!Paths, addr : Address, prev : Assertion, seq : Nat]
Tree == [D!Paths -> Address]
CheckOK(r) ==
  /\ r \in [stage : {"idle", "asking", "served", "found"}, path : {r.path}, addr : Address,
            prev : Assertion, answer : SUBSET Tree, old : BOOLEAN, found : {r.found}]
  /\ r.stage # "idle" => r.path \in Leaf
  /\ r.stage = "found" => r.prev.checked

Types ==
  /\ DOMAIN overrides \subseteq D!Paths /\ overrides \in [DOMAIN overrides -> Entry]
  /\ queue \in Seq(Entry)
  /\ seq \in Nat
  /\ flushing \in {"off", "on", "sent", "linked", "refused", "pause"}
  /\ tree \in Tree /\ meant \in Tree
  /\ unsure \in BOOLEAN

ChecksOK ==
  /\ linking = [w \in Linkers |-> linking[w]]
  /\ \A w \in Linkers : CheckOK(linking[w])
  /\ known \subseteq Tree /\ told \subseteq Tree

(* The overrides are entries of the queue, for each path its last one.     *)
QueueOK ==
  /\ \A i, j \in DOMAIN queue : i < j => queue[i].seq < queue[j].seq
  /\ \A i \in DOMAIN queue :
       /\ queue[i].seq <= seq
       /\ queue[i].path \in DOMAIN overrides
       /\ queue[i].seq <= overrides[queue[i].path].seq
  /\ \A p \in DOMAIN overrides :
       overrides[p].path = p /\ \E i \in DOMAIN queue : queue[i] = overrides[p]
  /\ flushing \in {"sent", "linked", "refused"} => queue # <<>>

Last(P, q) == q \in P /\ \A r \in P : overrides[r].seq <= overrides[q].seq

(* What the client believes of a path: the server has it, or the newest    *)
(* override above the path says so.                                        *)
BeliefOK(q) ==
  IF D!AncestorOverrides(q) = {} THEN tree[q] = meant[q]
  ELSE \E o \in D!AncestorOverrides(q) :
         /\ Last(D!AncestorOverrides(q), o)
         /\ meant[q] = IF o = q THEN overrides[q].addr ELSE Nil

(* The directory an entry goes to is there, or will be before or after it  *)
(* was sent: in the latter case it does not matter what becomes of it.     *)
ParentOK(item) ==
  \A d \in D!Parent(item.path) :
    IF d \in DOMAIN overrides THEN overrides[d].seq > item.seq \/ overrides[d].addr # Nil
    ELSE tree[d] # Nil

(* What became of the entry that was sent.                                 *)
SentOK(item) ==
  /\ flushing = "linked" =>
       \A q \in D!Paths : D!IsAbove(item.path, q) => tree[q] = IF q = item.path THEN item.addr ELSE Nil
  /\ flushing = "refused" => \E d \in D!Parent(item.path) : d \in DOMAIN overrides

OwnWritesOK ==
  /\ \A q \in D!Paths : BeliefOK(q)
  /\ \A i \in DOMAIN queue : ~queue[i].prev.checked /\ ParentOK(queue[i])
  /\ queue # <<>> => SentOK(Head(queue))

Core == Types /\ QueueOK /\ (~unsure => OwnWritesOK)
(* An answer that no link has outdated tells of the tree there is; and so  *)
(* do the mini-roots made of one, where no override is newer.              *)
AnswersOK == \A w \in Linkers :
  linking[w].stage = "served" /\ ~linking[w].old => linking[w].answer = {tree}
ToldOK == flushing = "linked" => told = {tree}
KnownOK == ~misled => \A t \in known : \A q \in Leaf :
  D!AncestorOverrides(q) = {} => t[q] = tree[q]

Fresh == ~unsure => AnswersOK /\ ToldOK /\ KnownOK

IInv == Core /\ ChecksOK /\ Fresh
-----------------------------------------------------------------------------
LEMMA TwoLevels ==
  ASSUME LeavesBelow, NEW p, NEW q, D!IsAbove(p, q), p # q
  PROVE  p \in Dir /\ q \in Leaf /\ p \notin Leaf /\ q \notin Dir
BY DEF LeavesBelow, D!IsAbove

LEMMA ParentIsDir ==
  ASSUME LeavesBelow, NEW p, NEW d \in D!Parent(p)
  PROVE  d \in Dir /\ d \in D!Paths /\ p \in Leaf /\ d # p
BY DEF LeavesBelow, D!Parent, D!Paths

(* A directory has at most its own override above it.                      *)
LEMMA DirBelief ==
  ASSUME LeavesBelow, NEW d \in Dir, Types, BeliefOK(d), meant[d] # Nil
  PROVE  IF d \in DOMAIN overrides THEN overrides[d].addr # Nil ELSE tree[d] # Nil
<1>1. \A o \in D!AncestorOverrides(d) : o = d
  BY TwoLevels DEF D!AncestorOverrides, LeavesBelow
<1>2. CASE d \in DOMAIN overrides
  <2>1. D!AncestorOverrides(d) # {}
    BY <1>2 DEF D!AncestorOverrides, D!IsAbove
  <2> QED
    BY <1>1, <1>2, <2>1 DEF BeliefOK
<1>3. CASE d \notin DOMAIN overrides
  <2>1. D!AncestorOverrides(d) = {}
    BY <1>1, <1>3 DEF D!AncestorOverrides
  <2> QED
    BY <1>3, <2>1 DEF BeliefOK
<1> QED
  BY <1>2, <1>3

LEMMA Initially == D!Init => IInv
<1> SUFFICES ASSUME D!Init PROVE IInv
  OBVIOUS
<1>1. DOMAIN overrides = {} /\ queue = <<>> /\ tree = meant
  BY DEF D!Init
<1>2. tree \in Tree
  BY DEF D!Init, Address, Tree
<1>3. Types
  <2>1. overrides \in [{} -> Entry]
    BY DEF D!Init
  <2>2. queue \in Seq(Entry)
    BY <1>1
  <2> QED
    BY <1>1, <1>2, <2>1, <2>2 DEF D!Init, Types
<1>4. QueueOK
  BY <1>1 DEF D!Init, QueueOK
<1>5. OwnWritesOK
  BY <1>1 DEF OwnWritesOK, BeliefOK, D!AncestorOverrides
<1>6. ChecksOK
  BY DEF D!Init, ChecksOK, CheckOK, D!NoWrite, D!NoPrev, Address, Assertion
<1>7. Fresh
  BY DEF D!Init, Fresh, AnswersOK, ToldOK, KnownOK, D!NoWrite
<1> QED
  BY <1>3, <1>4, <1>5, <1>6, <1>7 DEF IInv, Core
-----------------------------------------------------------------------------
(* An entry at the end of the queue.                                       *)
LEMMA EnqueueKeeps ==
  ASSUME LeavesBelow, Core, NEW p \in D!Paths, NEW a \in Address, NEW v \in Assertion,
         D!Enqueue(p, a, v), UNCHANGED tree
  PROVE  Core'
<1> DEFINE new == D!Writing(p, a, v, seq + 1)
<1>1. new \in Entry /\ new.path = p /\ new.addr = a /\ new.prev = v /\ new.seq = seq + 1
  BY DEF Core, Types, D!Writing, Entry
<1>2. /\ queue' = Append(queue, new) /\ queue' \in Seq(Entry) /\ seq' = seq + 1
      /\ seq \in Nat /\ queue \in Seq(Entry)
  BY <1>1 DEF Core, Types, D!Enqueue
<1>3. /\ \A i \in DOMAIN queue : i \in DOMAIN queue' /\ queue'[i] = queue[i]
      /\ \A i \in DOMAIN queue : i < Len(queue')
      /\ Len(queue') \in DOMAIN queue' /\ queue'[Len(queue')] = new
      /\ \A i \in DOMAIN queue' : i \in DOMAIN queue \/ i = Len(queue')
      /\ \A i \in DOMAIN queue : queue[i] \in Entry
      /\ \A i \in DOMAIN queue' : i \in Nat
  BY <1>2
<1> HIDE DEF new
<1>4. /\ DOMAIN overrides' = DOMAIN overrides \union {p} /\ overrides'[p] = new
      /\ \A q \in DOMAIN overrides : q # p => overrides'[q] = overrides[q]
  BY DEF D!Enqueue, new
<1>5. \A q \in DOMAIN overrides : overrides[q] \in Entry /\ overrides[q].seq \in Nat /\ q \in D!Paths
  BY DEF Core, Types, Entry
<1>6. Types'
  <2>1. DOMAIN overrides' \subseteq D!Paths /\ overrides' \in [DOMAIN overrides' -> Entry]
    <3>1. overrides' = [q \in DOMAIN overrides' |-> overrides'[q]]
      BY DEF D!Enqueue
    <3>2. \A q \in DOMAIN overrides' : overrides'[q] \in Entry
      BY <1>1, <1>4, <1>5
    <3> QED
      BY <1>4, <1>5, <3>1, <3>2
  <2>2. meant' \in Tree
    BY DEF Core, Types, Tree, D!Enqueue, D!Put, Address
  <2> QED
    BY <1>2, <2>1, <2>2 DEF Core, Types, D!Enqueue
<1>7. QueueOK'
  <2>1. \A i \in DOMAIN queue : queue[i].seq \in Nat /\ queue[i].seq <= seq
    BY <1>3 DEF Core, QueueOK, Entry
  <2>2. \A i, j \in DOMAIN queue' : i < j => queue'[i].seq < queue'[j].seq
    <3> SUFFICES ASSUME NEW i \in DOMAIN queue', NEW j \in DOMAIN queue', i < j
                 PROVE queue'[i].seq < queue'[j].seq
      OBVIOUS
    <3>1. i \in DOMAIN queue
      BY <1>3
    <3>2. CASE j \in DOMAIN queue
      BY <1>3, <3>1, <3>2 DEF Core, QueueOK
    <3>3. CASE j = Len(queue')
      BY <1>1, <1>2, <1>3, <2>1, <3>1, <3>3
    <3> QED
      BY <1>3, <3>2, <3>3
  <2>3. ASSUME NEW i \in DOMAIN queue'
        PROVE /\ queue'[i].seq <= seq'
              /\ queue'[i].path \in DOMAIN overrides'
              /\ queue'[i].seq <= overrides'[queue'[i].path].seq
    <3>1. CASE i \in DOMAIN queue
      <4>1. /\ queue[i].path \in DOMAIN overrides
            /\ queue[i].seq <= overrides[queue[i].path].seq
        BY <3>1 DEF Core, QueueOK
      <4> QED
        BY <1>1, <1>2, <1>3, <1>4, <2>1, <3>1, <4>1
    <3>2. CASE i = Len(queue')
      BY <1>1, <1>2, <1>3, <1>4, <3>2
    <3> QED
      BY <1>3, <3>1, <3>2
  <2>4. ASSUME NEW q \in DOMAIN overrides'
        PROVE overrides'[q].path = q /\ \E i \in DOMAIN queue' : queue'[i] = overrides'[q]
    <3>1. CASE q = p
      BY <1>1, <1>3, <1>4, <3>1
    <3>2. CASE q # p
      <4>1. overrides[q].path = q /\ \E i \in DOMAIN queue : queue[i] = overrides[q]
        BY <1>4, <3>2 DEF Core, QueueOK
      <4> QED
        BY <1>3, <1>4, <3>2, <4>1
    <3> QED
      BY <3>1, <3>2
  <2>5. queue' # <<>>
    BY <1>2
  <2> QED
    BY <2>2, <2>3, <2>4, <2>5 DEF QueueOK
<1>8. ASSUME ~unsure' PROVE OwnWritesOK'
  <2>1. /\ ~unsure /\ ~v.checked /\ D!CanPut(meant, p) /\ meant' = D!Put(meant, p, a)
    BY <1>8 DEF D!Enqueue
  <2>2. OwnWritesOK
    BY <2>1 DEF Core
  <2>3. ASSUME NEW q \in D!Paths PROVE BeliefOK(q)'
    <3> DEFINE P == D!AncestorOverrides(q)
    <3>1. CASE D!IsAbove(p, q)
      <4>1. Last(P, p)'
        <5>1. p \in P'
          BY <1>4, <3>1 DEF D!AncestorOverrides
        <5>2. \A r \in DOMAIN overrides' : overrides'[r].seq <= overrides'[p].seq
          BY <1>1, <1>2, <1>4, <1>5, <1>7 DEF Core, QueueOK
        <5> QED
          BY <5>1, <5>2 DEF Last, D!AncestorOverrides
      <4>2. meant'[q] = IF p = q THEN overrides'[q].addr ELSE Nil
        BY <1>1, <1>4, <2>1, <3>1 DEF D!Put
      <4> QED
        BY <4>1, <4>2 DEF BeliefOK, Last
    <3>2. CASE ~D!IsAbove(p, q)
      <4>1. P' = P /\ \A r \in P : r # p /\ overrides'[r] = overrides[r]
        BY <1>4, <3>2 DEF D!AncestorOverrides
      <4>2. q # p /\ meant'[q] = meant[q]
        BY <2>1, <3>2 DEF D!Put, D!IsAbove
      <4>3. BeliefOK(q)
        BY <2>2 DEF OwnWritesOK
      <4> QED
        BY <4>1, <4>2, <4>3 DEF BeliefOK, Last
    <3> QED
      BY <3>1, <3>2
  <2>4. ASSUME NEW i \in DOMAIN queue' PROVE ~queue'[i].prev.checked /\ ParentOK(queue[i])'
    <3>1. CASE i \in DOMAIN queue
      <4>1. ~queue[i].prev.checked /\ ParentOK(queue[i])
        BY <2>2, <3>1 DEF OwnWritesOK
      <4>2. queue[i].seq \in Nat /\ queue[i].seq <= seq
        BY <1>3, <3>1 DEF Core, QueueOK, Entry
      <4>3. ASSUME NEW d \in D!Parent(queue[i].path)
            PROVE IF d \in DOMAIN overrides'
                  THEN overrides'[d].seq > queue[i].seq \/ overrides'[d].addr # Nil
                  ELSE tree'[d] # Nil
        <5>1. CASE d = p
          BY <1>1, <1>2, <1>4, <4>2, <5>1
        <5>2. CASE d # p
          BY <1>4, <4>1, <5>2 DEF ParentOK
        <5> QED
          BY <5>1, <5>2
      <4> QED
        BY <1>3, <3>1, <4>1, <4>3 DEF ParentOK, D!Parent
    <3>2. CASE i = Len(queue')
      <4>1. ASSUME NEW d \in D!Parent(p)
            PROVE IF d \in DOMAIN overrides' THEN overrides'[d].addr # Nil ELSE tree'[d] # Nil
        <5>1. d \in Dir /\ d \in D!Paths /\ d # p
          BY ParentIsDir
        <5>2. meant[d] # Nil
          BY <2>1 DEF D!CanPut
        <5>3. IF d \in DOMAIN overrides THEN overrides[d].addr # Nil ELSE tree[d] # Nil
          BY <2>2, <5>1, <5>2, DirBelief DEF Core, OwnWritesOK
        <5> QED
          BY <1>4, <5>1, <5>3
      <4> QED
        BY <1>1, <1>3, <2>1, <3>2, <4>1 DEF ParentOK, D!Parent
    <3> QED
      BY <1>3, <3>1, <3>2
  <2>5. SentOK(Head(queue))'
    <3> SUFFICES ASSUME flushing' \in {"linked", "refused"} PROVE SentOK(Head(queue))'
      BY DEF SentOK
    <3>1. flushing' = flushing /\ queue # <<>>
      BY DEF D!Enqueue, Core, QueueOK
    <3>2. Head(queue') = Head(queue)
      BY <1>2, <3>1
    <3>3. SentOK(Head(queue))
      BY <2>2, <3>1 DEF OwnWritesOK
    <3> QED
      BY <1>4, <3>1, <3>2, <3>3 DEF SentOK, D!Parent, D!IsAbove
  <2> QED
    BY <2>3, <2>4, <2>5 DEF OwnWritesOK
<1> QED
  BY <1>6, <1>7, <1>8 DEF Core
-----------------------------------------------------------------------------
queueVars == <<overrides, queue, seq, tree, meant, unsure>>

(* The worker sends the first entry again, or waits.                       *)
LEMMA WorkerKeeps ==
  ASSUME Core, UNCHANGED queueVars, flushing' \in {"off", "on", "sent", "pause"} \union {flushing},
         flushing' = "sent" => queue # <<>>
  PROVE  Core'
<1>1. Types'
  BY DEF Core, Types, queueVars
<1>2. QueueOK'
  BY DEF Core, QueueOK, queueVars
<1>3. ASSUME ~unsure' PROVE OwnWritesOK'
  <2>1. OwnWritesOK
    BY <1>3 DEF Core, queueVars
  <2>2. ASSUME NEW q \in D!Paths PROVE BeliefOK(q)'
    BY <2>1 DEF OwnWritesOK, BeliefOK, D!AncestorOverrides, D!IsAbove, Last, queueVars
  <2>3. ASSUME NEW i \in DOMAIN queue' PROVE ~queue'[i].prev.checked /\ ParentOK(queue[i])'
    BY <2>1 DEF OwnWritesOK, ParentOK, D!Parent, queueVars
  <2>4. queue' # <<>> => SentOK(Head(queue))'
    BY <2>1 DEF OwnWritesOK, SentOK, D!Parent, D!IsAbove, queueVars
  <2> QED
    BY <2>2, <2>3, <2>4 DEF OwnWritesOK, queueVars
<1> QED
  BY <1>1, <1>2, <1>3 DEF Core

(* What the rest of the queue is.                                          *)
LEMMA Rest ==
  ASSUME Core, queue # <<>>
  PROVE  /\ Tail(queue) \in Seq(Entry) /\ Head(queue) = queue[1] /\ Head(queue) \in Entry
         /\ 1 \in DOMAIN queue
         /\ \A i \in DOMAIN Tail(queue) :
              i + 1 \in DOMAIN queue /\ Tail(queue)[i] = queue[i + 1]
              /\ Head(queue).seq < queue[i + 1].seq
         /\ \A i \in DOMAIN queue : i # 1 => i - 1 \in DOMAIN Tail(queue) /\ Tail(queue)[i - 1] = queue[i]
<1>1. queue \in Seq(Entry) /\ Tail(queue) \in Seq(Entry) /\ Len(queue) > 0 /\ Len(Tail(queue)) = Len(queue) - 1
  BY DEF Core, Types
<1>2. 1 \in DOMAIN queue /\ Head(queue) = queue[1] /\ Head(queue) \in Entry
  BY <1>1
<1>3. ASSUME NEW i \in DOMAIN Tail(queue)
      PROVE i + 1 \in DOMAIN queue /\ Tail(queue)[i] = queue[i + 1] /\ i + 1 > 1
  BY <1>1
<1>4. ASSUME NEW i \in DOMAIN queue, i # 1
      PROVE i - 1 \in DOMAIN Tail(queue) /\ Tail(queue)[i - 1] = queue[i]
  BY <1>1, <1>4
<1>5. ASSUME NEW i \in DOMAIN Tail(queue) PROVE Head(queue).seq < queue[i + 1].seq
  BY <1>2, <1>3 DEF Core, QueueOK
<1> QED
  BY <1>1, <1>2, <1>3, <1>4, <1>5

(* The first entry leaves the queue, and the overrides if it is the last   *)
(* of its path.                                                            *)
LEMMA ShiftKeeps ==
  ASSUME Core, queue # <<>>, queue' = Tail(queue), UNCHANGED <<seq, tree, meant, unsure>>,
         flushing' = "on", D!Clear(Head(queue))
  PROVE  Types' /\ QueueOK'
<1> DEFINE item == Head(queue)
<1>1. /\ DOMAIN overrides' = DOMAIN overrides \ D!Current(item)
      /\ \A q \in DOMAIN overrides' : overrides'[q] = overrides[q]
      /\ overrides' = [q \in DOMAIN overrides' |-> overrides[q]]
  BY DEF D!Clear
<1>2. Types'
  <2>1. DOMAIN overrides' \subseteq D!Paths /\ overrides' \in [DOMAIN overrides' -> Entry]
    BY <1>1 DEF Core, Types
  <2> QED
    BY <2>1, Rest DEF Core, Types
<1>3. QueueOK'
  <2>1. \A i, j \in DOMAIN queue' : i < j => queue'[i].seq < queue'[j].seq
    <3> SUFFICES ASSUME NEW i \in DOMAIN queue', NEW j \in DOMAIN queue', i < j
                 PROVE queue'[i].seq < queue'[j].seq
      OBVIOUS
    <3>1. i \in Nat /\ j \in Nat
      BY Rest
    <3>2. i + 1 < j + 1
      BY <3>1
    <3>3. /\ i + 1 \in DOMAIN queue /\ queue'[i] = queue[i + 1]
          /\ j + 1 \in DOMAIN queue /\ queue'[j] = queue[j + 1]
      BY Rest
    <3>4. \A k, l \in DOMAIN queue : k < l => queue[k].seq < queue[l].seq
      BY DEF Core, QueueOK
    <3> QED
      BY ONLY <3>2, <3>3, <3>4
  <2>2. ASSUME NEW i \in DOMAIN queue'
        PROVE /\ queue'[i].seq <= seq'
              /\ queue'[i].path \in DOMAIN overrides'
              /\ queue'[i].seq <= overrides'[queue'[i].path].seq
    <3> DEFINE k == i + 1
    <3>1. k \in DOMAIN queue /\ queue'[i] = queue[k] /\ item.seq < queue[k].seq
      BY Rest
    <3>2. /\ queue[k].seq <= seq /\ queue[k].path \in DOMAIN overrides
          /\ queue[k].seq <= overrides[queue[k].path].seq
      BY <3>1 DEF Core, QueueOK
    <3>3. queue[k].seq \in Nat /\ item.seq \in Nat /\ overrides[queue[k].path].seq \in Nat
      <4>1. queue[k] \in Entry /\ item \in Entry
        BY <3>1, Rest DEF Core, Types
      <4>2. overrides[queue[k].path] \in Entry
        BY <3>2 DEF Core, Types
      <4> QED
        BY <4>1, <4>2 DEF Entry
    <3>4. queue[k].path \notin D!Current(item)
      BY <3>1, <3>2, <3>3 DEF D!Current
    <3> QED
      BY <1>1, <3>1, <3>2, <3>4
  <2>3. ASSUME NEW q \in DOMAIN overrides'
        PROVE overrides'[q].path = q /\ \E i \in DOMAIN queue' : queue'[i] = overrides'[q]
    <3>1. q \in DOMAIN overrides /\ q \notin D!Current(item) /\ overrides'[q] = overrides[q]
      BY <1>1
    <3>2. PICK i \in DOMAIN queue : queue[i] = overrides[q]
      BY <3>1 DEF Core, QueueOK
    <3>3. overrides[q].path = q
      BY <3>1 DEF Core, QueueOK
    <3>4. i # 1
      BY <3>1, <3>2, <3>3, Rest DEF D!Current
    <3> QED
      BY <3>1, <3>2, <3>3, <3>4, Rest
  <2> QED
    BY <2>1, <2>2, <2>3 DEF QueueOK
<1> QED
  BY <1>2, <1>3

(* What an entry that is no path's last one leaves behind.                 *)
LEMMA SkipKeeps == ASSUME Core, D!Skip PROVE Core'
<1> DEFINE item == Head(queue)
<1>1. queue # <<>> /\ queue' = Tail(queue) /\ flushing' = "on" /\ D!Superseded(item)
  BY DEF D!Skip
<1>2. D!Current(item) = {} /\ D!Clear(item)
  <2>1. D!Current(item) = {}
    BY <1>1 DEF D!Superseded, D!Current
  <2>2. overrides' = [q \in DOMAIN overrides |-> overrides[q]]
    BY DEF Core, Types, D!Skip
  <2> QED
    BY <2>1, <2>2 DEF D!Clear
<1>3. Types' /\ QueueOK'
  BY <1>1, <1>2, ShiftKeeps DEF D!Skip
<1>4. ASSUME ~unsure' PROVE OwnWritesOK'
  <2>1. OwnWritesOK
    BY <1>4 DEF Core, D!Skip
  <2>2. ASSUME NEW q \in D!Paths PROVE BeliefOK(q)'
    BY <2>1 DEF OwnWritesOK, BeliefOK, D!AncestorOverrides, D!IsAbove, Last, D!Skip
  <2>3. ASSUME NEW i \in DOMAIN queue' PROVE ~queue'[i].prev.checked /\ ParentOK(queue[i])'
    <3>1. i + 1 \in DOMAIN queue /\ queue'[i] = queue[i + 1]
      BY <1>1, Rest
    <3>2. ~queue[i + 1].prev.checked /\ ParentOK(queue[i + 1])
      BY <2>1, <3>1 DEF OwnWritesOK
    <3> QED
      BY <3>1, <3>2 DEF ParentOK, D!Parent, D!Skip
  <2>4. SentOK(Head(queue))'
    BY <1>1 DEF SentOK
  <2> QED
    BY <2>2, <2>3, <2>4 DEF OwnWritesOK
<1> QED
  BY <1>3, <1>4 DEF Core

(* The first entry, and the directory it goes to.                          *)
LEMMA ServerKeeps == ASSUME LeavesBelow, Core, D!ServerLinks PROVE Core'
<1> DEFINE item == Head(queue)
<1>1. queue # <<>> /\ flushing' \in {"refused", "linked"} /\ UNCHANGED <<overrides, queue, seq, meant, unsure>>
  BY DEF D!ServerLinks, Core, QueueOK
<1>2. item \in Entry /\ item = queue[1] /\ 1 \in DOMAIN queue
  BY <1>1, Rest
<1>3. item.path \in D!Paths /\ item.path \in DOMAIN overrides /\ item.addr \in Address
  BY <1>2 DEF Core, QueueOK, Entry
<1>4. Types'
  <2>1. tree' \in Tree
    BY <1>3 DEF D!ServerLinks, Core, Types, Tree, D!Put, Address
  <2> QED
    BY <1>1, <2>1 DEF Core, Types
<1>5. QueueOK'
  BY <1>1 DEF Core, QueueOK
<1>6. ASSUME ~unsure' PROVE OwnWritesOK'
  <2>1. OwnWritesOK
    BY <1>1, <1>6 DEF Core
  <2>2. \A q \in D!Paths : tree'[q] # tree[q] => D!IsAbove(item.path, q)
    BY DEF D!ServerLinks, D!Put, D!IsAbove
  <2>3. ASSUME NEW q \in D!Paths PROVE BeliefOK(q)'
    <3>1. D!AncestorOverrides(q)' = D!AncestorOverrides(q)
      BY <1>1 DEF D!AncestorOverrides
    <3>2. D!AncestorOverrides(q) = {} => tree'[q] = tree[q]
      BY <1>3, <2>2 DEF D!AncestorOverrides
    <3>3. BeliefOK(q)
      BY <2>1 DEF OwnWritesOK
    <3> QED
      BY <1>1, <3>1, <3>2, <3>3 DEF BeliefOK, Last
  <2>4. ASSUME NEW i \in DOMAIN queue' PROVE ~queue'[i].prev.checked /\ ParentOK(queue[i])'
    <3>1. ~queue[i].prev.checked /\ ParentOK(queue[i])
      BY <1>1, <2>1 DEF OwnWritesOK
    <3>2. ASSUME NEW d \in D!Parent(queue[i].path), d \notin DOMAIN overrides PROVE tree'[d] # Nil
      <4>1. d \in Dir /\ d \in D!Paths /\ d # item.path
        BY <1>3, <3>2, ParentIsDir
      <4>2. ~D!IsAbove(item.path, d)
        BY <4>1, TwoLevels DEF LeavesBelow
      <4> QED
        BY <2>2, <3>1, <3>2, <4>1, <4>2 DEF ParentOK
    <3> QED
      BY <1>1, <3>1, <3>2 DEF ParentOK, D!Parent
  <2>5. SentOK(Head(queue))'
    <3>1. CASE D!Refused(tree, item)
      <4>1. ~item.prev.checked /\ ParentOK(item)
        BY <1>2, <2>1 DEF OwnWritesOK
      <4>2. PICK d \in D!Parent(item.path) : tree[d] = Nil
        BY <3>1, <4>1 DEF D!Refused, D!CanPut
      <4>3. d \in DOMAIN overrides
        BY <4>1, <4>2 DEF ParentOK
      <4>4. flushing' = "refused"
        BY <3>1 DEF D!ServerLinks
      <4> QED
        BY <1>1, <4>3, <4>4 DEF SentOK, D!Parent
    <3>2. CASE ~D!Refused(tree, item)
      <4>1. flushing' = "linked" /\ tree' = D!Put(tree, item.path, item.addr)
        BY <3>2 DEF D!ServerLinks
      <4> QED
        BY <1>1, <4>1 DEF SentOK, D!Put, D!IsAbove
    <3> QED
      BY <3>1, <3>2
  <2> QED
    BY <2>3, <2>4, <2>5 DEF OwnWritesOK
<1> QED
  BY <1>4, <1>5, <1>6 DEF Core

LEMMA FirstOverride ==
  ASSUME Core, queue # <<>>, NEW r \in DOMAIN overrides
  PROVE  /\ overrides[r].seq \in Nat /\ Head(queue).seq \in Nat
         /\ Head(queue).seq <= overrides[r].seq
         /\ overrides[r].seq = Head(queue).seq => overrides[r] = Head(queue) /\ r = Head(queue).path
<1>1. PICK i \in DOMAIN queue : queue[i] = overrides[r]
  BY DEF Core, QueueOK
<1>2. overrides[r].path = r
  BY DEF Core, QueueOK
<1>3. overrides[r] \in Entry /\ Head(queue) \in Entry
  BY Rest DEF Core, Types
<1>4. CASE i = 1
  BY <1>1, <1>2, <1>3, <1>4, Rest DEF Entry
<1>5. CASE i # 1
  <2>1. i - 1 \in DOMAIN Tail(queue) /\ Tail(queue)[i - 1] = queue[i]
    BY <1>5, Rest
  <2>2. i - 1 + 1 = i
    BY DEF Core, Types
  <2>3. Head(queue).seq < queue[i].seq
    BY <2>1, <2>2, Rest
  <2> QED
    BY <1>1, <1>3, <2>3 DEF Entry
<1> QED
  BY <1>4, <1>5

(* The entry that was sent and is now made or refused.                     *)
LEMMA FinishKeeps == ASSUME LeavesBelow, Core, D!Finish PROVE Core'
<1> DEFINE item == Head(queue)
           p == item.path
<1>1. /\ flushing \in {"linked", "refused"} /\ flushing' = "on" /\ queue # <<>>
      /\ queue' = Tail(queue) /\ UNCHANGED <<seq, tree, meant, unsure>> /\ D!Clear(item)
  BY DEF D!Finish, D!Shift, Core, QueueOK
<1>2. Types' /\ QueueOK'
  BY <1>1, ShiftKeeps
<1>3. /\ DOMAIN overrides' = DOMAIN overrides \ D!Current(item)
      /\ \A q \in DOMAIN overrides' : overrides'[q] = overrides[q]
  BY <1>1 DEF D!Clear
<1>4. item \in Entry /\ p \in D!Paths /\ item = queue[1] /\ 1 \in DOMAIN queue
  BY <1>1, Rest DEF Entry
<1>5. ASSUME NEW q \in D!Current(item) PROVE q = p /\ q \in DOMAIN overrides /\ overrides[q] = item
  BY <1>1, <1>5, FirstOverride DEF D!Current
<1>6. ASSUME ~unsure' PROVE OwnWritesOK'
  <2>1. OwnWritesOK /\ SentOK(item)
    BY <1>1, <1>6 DEF Core, OwnWritesOK
  <2>2. ASSUME flushing = "refused"
        PROVE p \in Leaf /\ \E d \in DOMAIN overrides : d \in D!Parent(p) /\ d # p
    BY <2>1, <2>2, ParentIsDir DEF SentOK
  <2>3. ASSUME NEW q \in D!Paths PROVE BeliefOK(q)'
    <3> DEFINE P == D!AncestorOverrides(q)
    <3>1. P' = P \ D!Current(item) /\ \A r \in P' : overrides'[r] = overrides[r]
      BY <1>3 DEF D!AncestorOverrides
    <3>2. BeliefOK(q)
      BY <2>1 DEF OwnWritesOK
    <3>3. CASE P = {}
      BY <1>1, <3>1, <3>2, <3>3 DEF BeliefOK
    <3>4. CASE P # {}
      <4>1. PICK o \in P : Last(P, o) /\ meant[q] = IF o = q THEN overrides[q].addr ELSE Nil
        BY <3>2, <3>4 DEF BeliefOK
      <4>2. CASE o \notin D!Current(item)
        <5>1. o \in P' /\ Last(P, o)'
          BY <3>1, <4>1, <4>2 DEF Last
        <5> QED
          BY <1>1, <3>1, <4>1, <5>1 DEF BeliefOK, Last
      <4>3. CASE o \in D!Current(item)
        <5>1. o = p /\ overrides[p] = item
          BY <1>5, <4>3
        <5>2. ASSUME NEW r \in P PROVE r = p
          <6>1. r \in DOMAIN overrides /\ overrides[r].seq <= item.seq
            BY <4>1, <5>1 DEF Last, D!AncestorOverrides
          <6> QED
            BY <1>1, <6>1, FirstOverride
        <5>3. P' = {}
          BY <3>1, <4>3, <5>1, <5>2
        <5>4. D!IsAbove(p, q)
          BY <4>1, <5>1 DEF D!AncestorOverrides
        <5>5. flushing = "linked"
          <6> SUFFICES ASSUME flushing = "refused" PROVE FALSE
            BY <1>1
          <6>1. q = p
            BY <2>2, <5>4, TwoLevels
          <6>2. PICK d \in DOMAIN overrides : d \in D!Parent(p) /\ d # p
            BY <2>2
          <6>3. d \in P
            BY <6>1, <6>2 DEF D!AncestorOverrides, D!IsAbove, D!Parent
          <6> QED
            BY <5>2, <6>2, <6>3
        <5>6. tree[q] = meant[q]
          BY <2>1, <4>1, <5>1, <5>4, <5>5 DEF SentOK
        <5> QED
          BY <1>1, <5>3, <5>6 DEF BeliefOK
      <4> QED
        BY <4>2, <4>3
    <3> QED
      BY <3>3, <3>4
  <2>4. ASSUME NEW i \in DOMAIN queue' PROVE ~queue'[i].prev.checked /\ ParentOK(queue[i])'
    <3> DEFINE k == i + 1
    <3>1. k \in DOMAIN queue /\ queue'[i] = queue[k] /\ item.seq < queue[k].seq
      BY <1>1, Rest
    <3>2. ~queue[k].prev.checked /\ ParentOK(queue[k])
      BY <2>1, <3>1 DEF OwnWritesOK
    <3>3. queue[k].seq \in Nat /\ item.seq \in Nat
      <4>1. queue[k] \in Entry
        BY <3>1 DEF Core, Types
      <4> QED
        BY <1>4, <4>1 DEF Entry
    <3>4. ASSUME NEW d \in D!Parent(queue[k].path)
          PROVE IF d \in DOMAIN overrides'
                THEN overrides'[d].seq > queue[k].seq \/ overrides'[d].addr # Nil ELSE tree'[d] # Nil
      <4>1. CASE d \notin D!Current(item)
        BY <1>1, <1>3, <3>2, <4>1 DEF ParentOK
      <4>2. CASE d \in D!Current(item)
        <5>1. d = p /\ d \in DOMAIN overrides /\ overrides[d] = item
          BY <1>5, <4>2
        <5>2. d \in Dir /\ d \notin Leaf
          BY ParentIsDir DEF LeavesBelow
        <5>3. flushing = "linked"
          BY <1>1, <2>2, <5>1, <5>2
        <5>4. tree[d] = item.addr
          BY <1>4, <2>1, <5>1, <5>3 DEF SentOK, D!IsAbove
        <5>5. item.addr # Nil
          BY <3>1, <3>2, <3>3, <5>1 DEF ParentOK
        <5> QED
          BY <1>1, <1>3, <4>2, <5>4, <5>5
      <4> QED
        BY <4>1, <4>2
    <3> QED
      BY <3>1, <3>2, <3>4 DEF ParentOK, D!Parent
  <2>5. SentOK(Head(queue))'
    BY <1>1 DEF SentOK
  <2> QED
    BY <2>3, <2>4, <2>5 DEF OwnWritesOK
<1> QED
  BY <1>2, <1>6 DEF Core

(* Another client.                                                         *)
LEMMA OthersKeep == ASSUME Core, D!OtherWrites PROVE Core'
<1>1. Types'
  <2>0. PICK p \in D!Paths : \E a \in D!Addrs(p) : tree' = D!Put(tree, p, a)
    BY DEF D!OtherWrites
  <2>1. PICK a \in D!Addrs(p) : tree' = D!Put(tree, p, a)
    BY <2>0
  <2>2. a \in Address /\ Nil \in Address
    BY DEF D!Addrs, Address
  <2>3. tree' \in Tree
    BY <2>1, <2>2 DEF Core, Types, Tree, D!Put
  <2> QED
    BY <2>3 DEF Core, Types, D!OtherWrites
<1>2. QueueOK' /\ unsure'
  BY DEF Core, QueueOK, D!OtherWrites
<1> QED
  BY <1>1, <1>2 DEF Core
-----------------------------------------------------------------------------
(* Whatever the answer and the mini-roots say stays so while the server's  *)
(* tree is the same and no override is taken back.                         *)
LEMMA FreshKeeps ==
  ASSUME IInv, ~unsure', ~unsure, UNCHANGED <<tree, told>>, DOMAIN overrides \subseteq DOMAIN overrides',
         flushing' = "linked" => flushing = "linked"
  PROVE  /\ ToldOK'
         /\ UNCHANGED linking => AnswersOK'
         /\ UNCHANGED <<known, misled>> => KnownOK'
<1>1. Fresh /\ AnswersOK /\ ToldOK /\ KnownOK
  BY DEF IInv, Fresh
<1>2. ToldOK' /\ (UNCHANGED linking => AnswersOK')
  BY <1>1 DEF ToldOK, AnswersOK
<1>3. ASSUME NEW q \in Leaf, D!AncestorOverrides(q)' = {} PROVE D!AncestorOverrides(q) = {}
  BY <1>3 DEF D!AncestorOverrides, D!IsAbove
<1> QED
  BY <1>1, <1>2, <1>3 DEF KnownOK

LEMMA NoWriteOK ==
  CheckOK(D!NoWrite) /\ D!NoWrite.stage = "idle" /\ D!NoWrite.answer = {} /\ D!NoWrite.old = FALSE
BY DEF D!NoWrite, CheckOK, D!NoPrev, Assertion, Address

(* A lookup goes on, which the queue and the server know nothing of.       *)
LEMMA LookupKeeps ==
  ASSUME IInv, D!LookupOnly, NEW w \in Linkers, NEW r, D!To(w, r), CheckOK(r),
         ~unsure => (r.stage = "served" /\ ~r.old => r.answer = {tree}),
         UNCHANGED <<known, misled>> \/ (known' \subseteq Tree /\ (~unsure => KnownOK'))
  PROVE  IInv'
<1>1. /\ linking' = [linking EXCEPT ![w] = r] /\ linking = [v \in Linkers |-> linking[v]]
      /\ linking' = [v \in Linkers |-> linking'[v]]
      /\ \A v \in Linkers : linking'[v] = IF v = w THEN r ELSE linking[v]
  BY DEF D!To, IInv, ChecksOK
<1>2. ChecksOK'
  BY <1>1 DEF IInv, ChecksOK, CheckOK, D!LookupOnly, Tree, Address, Assertion
<1>3. Core'
  <2>1. flushing = "sent" => queue # <<>>
    BY DEF IInv, Core, QueueOK
  <2> QED
    BY <2>1, WorkerKeeps DEF IInv, D!LookupOnly, queueVars
<1>4. Fresh'
  <2> SUFFICES ASSUME ~unsure' PROVE AnswersOK' /\ ToldOK' /\ KnownOK'
    BY DEF Fresh
  <2>1. ~unsure /\ AnswersOK
    BY DEF D!LookupOnly, IInv, Fresh
  <2>2. AnswersOK'
    BY <1>1, <2>1 DEF AnswersOK, D!LookupOnly
  <2>3. ToldOK' /\ (UNCHANGED <<known, misled>> => KnownOK')
    BY <2>1, FreshKeeps DEF D!LookupOnly
  <2> QED
    BY <2>1, <2>2, <2>3
<1> QED
  BY <1>2, <1>3, <1>4 DEF IInv

LEMMA LinkBegins ==
  ASSUME IInv, NEW w \in Linkers, NEW p \in Leaf, NEW a \in D!Addrs(p), NEW old \in D!Addrs(p),
         D!LinkBegin(w, p, a, old)
  PROVE  IInv'
<1> DEFINE Goes(where, found) == [D!NoWrite EXCEPT !.stage = where, !.path = p, !.addr = a,
                                                   !.prev = D!Prev(old), !.found = found]
<1>1. D!LookupOnly /\ UNCHANGED <<known, misled>>
  BY DEF D!LinkBegin
<1>2. \E where \in {"asking", "found"} : \E found : D!To(w, Goes(where, found))
  BY DEF D!LinkBegin
<1>3. PICK where \in {"asking", "found"} : \E found : D!To(w, Goes(where, found))
  BY <1>2
<1>4. PICK found : D!To(w, Goes(where, found))
  BY <1>3
<1> DEFINE r == Goes(where, found)
<1>5. CheckOK(r) /\ r.stage \in {"asking", "found"}
  <2>1. D!Prev(old) \in Assertion /\ D!Prev(old).checked /\ a \in Address
    BY DEF D!Prev, Assertion, D!Addrs, Address
  <2> QED
    BY <1>3, <2>1, NoWriteOK DEF CheckOK, D!NoWrite
<1> HIDE DEF r
<1> QED
  BY <1>1, <1>4, <1>5, LookupKeeps DEF r

LEMMA LookupSteps ==
  ASSUME IInv, NEW w \in Linkers,
         \/ \E p \in Leaf : D!LookupBegin(w, p)
         \/ D!ServerAnswers(w) \/ D!LookupReceives(w) \/ D!LookupFails(w)
  PROVE  IInv'
<1> DEFINE at == linking[w]
<1>0. CheckOK(at) /\ D!LookupOnly
  BY DEF IInv, ChecksOK, D!LookupBegin, D!ServerAnswers, D!LookupReceives, D!LookupFails
<1>1. ASSUME NEW p \in Leaf, D!LookupBegin(w, p) PROVE IInv'
  <2> DEFINE r == [D!NoWrite EXCEPT !.stage = "asking", !.path = p]
  <2>1. CheckOK(r) /\ r.stage = "asking"
    BY NoWriteOK DEF CheckOK, D!NoWrite
  <2>2. D!To(w, r) /\ UNCHANGED <<known, misled>>
    BY <1>1 DEF D!LookupBegin
  <2> HIDE DEF r
  <2> QED
    BY <1>0, <2>1, <2>2, LookupKeeps
<1>2. ASSUME D!ServerAnswers(w) PROVE IInv'
  <2> DEFINE r == [at EXCEPT !.stage = "served", !.answer = {tree}]
  <2>1. CheckOK(r) /\ r.answer = {tree}
    <3>1. tree \in Tree /\ at.path \in Leaf
      BY <1>0, <1>2 DEF IInv, Core, Types, D!ServerAnswers, CheckOK
    <3>2. /\ r.stage = "served" /\ r.path = at.path /\ r.addr = at.addr /\ r.prev = at.prev
          /\ r.answer = {tree} /\ r.old = at.old /\ r.found = at.found
      BY <1>0 DEF CheckOK
    <3> QED
      BY <1>0, <3>1, <3>2 DEF CheckOK
  <2>2. D!To(w, r) /\ UNCHANGED <<known, misled>>
    BY <1>2 DEF D!ServerAnswers
  <2> HIDE DEF r
  <2> QED
    BY <1>0, <2>1, <2>2, LookupKeeps
<1>3. ASSUME NEW v, D!Ends(w, v), at.stage # "idle"
      PROVE \E r : D!To(w, r) /\ CheckOK(r) /\ r.stage # "served"
  <2> DEFINE r == [at EXCEPT !.stage = "found", !.found = v, !.answer = {}, !.old = FALSE]
  <2>1. CASE at.prev.checked
    <3>1. /\ at.path \in Leaf /\ r.stage = "found" /\ r.path = at.path /\ r.addr = at.addr
          /\ r.prev = at.prev /\ r.answer = {} /\ r.old = FALSE /\ r.found = v
      BY <1>0, <1>3 DEF CheckOK
    <3>2. CheckOK(r) /\ r.stage = "found"
      BY <1>0, <2>1, <3>1 DEF CheckOK
    <3>3. D!To(w, r)
      BY <1>3, <2>1 DEF D!Ends
    <3> QED
      BY <3>2, <3>3
  <2>2. CASE ~at.prev.checked
    BY <1>3, <2>2, NoWriteOK DEF D!Ends
  <2> QED
    BY <2>1, <2>2
<1>4. ASSUME D!LookupReceives(w) PROVE IInv'
  <2>1. /\ at.stage = "served" /\ \E t \in at.answer : D!Ends(w, t[at.path])
        /\ known' = at.answer /\ misled' = at.old
    BY <1>4 DEF D!LookupReceives
  <2>2. PICK r : D!To(w, r) /\ CheckOK(r) /\ r.stage # "served"
    <3>1. PICK t \in at.answer : D!Ends(w, t[at.path])
      BY <2>1
    <3> QED
      BY <1>3, <2>1, <3>1
  <2>3. known' \subseteq Tree
    BY <1>0, <2>1 DEF CheckOK
  <2>4. ASSUME ~unsure PROVE KnownOK'
    <3>1. AnswersOK
      BY <2>4 DEF IInv, Fresh
    <3>2. ~at.old => known' = {tree'}
      BY <1>0, <2>1, <3>1 DEF AnswersOK, D!LookupOnly
    <3> QED
      BY <2>1, <3>2 DEF KnownOK
  <2> QED
    BY <1>0, <2>2, <2>3, <2>4, LookupKeeps
<1>5. ASSUME D!LookupFails(w) PROVE IInv'
  <2>1. at.stage # "idle" /\ D!Ends(w, Nil) /\ UNCHANGED <<known, misled>>
    BY <1>5 DEF D!LookupFails
  <2>2. PICK r : D!To(w, r) /\ CheckOK(r) /\ r.stage # "served"
    BY <1>3, <2>1
  <2> QED
    BY <1>0, <2>1, <2>2, LookupKeeps
<1> QED
  BY <1>1, <1>2, <1>4, <1>5

(* The mini-roots expire. *)
LEMMA ExpireKeeps == ASSUME IInv, D!Expire PROVE IInv'
<1>1. D!LookupOnly /\ UNCHANGED linking /\ known' = {}
  BY DEF D!Expire
<1>2. Core'
  <2>1. flushing = "sent" => queue # <<>>
    BY DEF IInv, Core, QueueOK
  <2> QED
    BY <1>1, <2>1, WorkerKeeps DEF IInv, D!LookupOnly, queueVars
<1>3. ChecksOK'
  BY <1>1 DEF IInv, ChecksOK, CheckOK, D!LookupOnly
<1>4. Fresh'
  BY <1>1, FreshKeeps DEF Fresh, KnownOK, D!LookupOnly
<1> QED
  BY <1>2, <1>3, <1>4 DEF IInv

(* An entry is enqueued, after a check or without one.                     *)
LEMMA LinkKeeps ==
  ASSUME LeavesBelow, IInv, NEW p \in D!Paths, NEW a \in Address, NEW v \in Assertion,
         D!Enqueue(p, a, v), UNCHANGED <<tree, D!cacheVars>>,
         ChecksOK', UNCHANGED linking \/ v.checked
  PROVE  IInv'
<1>1. Core'
  BY EnqueueKeeps DEF IInv
<1>2. Fresh'
  <2> SUFFICES ASSUME ~unsure' PROVE AnswersOK' /\ ToldOK' /\ KnownOK'
    BY DEF Fresh
  <2>1. ~unsure /\ UNCHANGED linking /\ (flushing' = "linked" => flushing = "linked")
    BY DEF D!Enqueue
  <2>2. DOMAIN overrides \subseteq DOMAIN overrides'
    BY DEF D!Enqueue
  <2> QED
    BY <2>1, <2>2, FreshKeeps DEF D!cacheVars
<1> QED
  BY <1>1, <1>2 DEF IInv

LEMMA CheckedKeeps ==
  ASSUME LeavesBelow, IInv, NEW w \in Linkers, D!LinkChecked(w), linking[w].prev.checked
  PROVE  IInv'
<1> DEFINE r == linking[w]
<1>1. r.path \in D!Paths /\ r.addr \in Address /\ r.prev \in Assertion
  BY DEF D!LinkChecked, IInv, ChecksOK, CheckOK, D!Paths
<1>2. D!To(w, D!NoWrite) /\ UNCHANGED <<tree, D!cacheVars>>
  BY DEF D!LinkChecked
<1>3. ChecksOK'
  BY <1>2, NoWriteOK DEF D!To, IInv, ChecksOK, CheckOK, D!cacheVars
<1>4. CASE r.found = r.prev.addr
  BY <1>1, <1>2, <1>3, <1>4, LinkKeeps DEF D!LinkChecked
<1>5. CASE r.found # r.prev.addr
  <2>1. D!LookupOnly
    BY <1>5 DEF D!LinkChecked, D!LookupOnly, D!cacheVars
  <2> QED
    BY <1>2, <2>1, NoWriteOK, LookupKeeps DEF D!cacheVars
<1> QED
  BY <1>4, <1>5

(* Only who waits for the queue changes, or nothing.                       *)
LEMMA RestKeeps ==
  ASSUME IInv, UNCHANGED <<queueVars, flushing, linking, D!cacheVars>>
  PROVE  IInv'
<1>1. Core'
  <2>1. flushing = "sent" => queue # <<>>
    BY DEF IInv, Core, QueueOK
  <2> QED
    BY <2>1, WorkerKeeps DEF IInv
<1>2. ChecksOK' /\ Fresh'
  <2>1. DOMAIN overrides \subseteq DOMAIN overrides'
    BY DEF queueVars
  <2>2. ChecksOK'
    BY DEF IInv, ChecksOK, CheckOK, D!cacheVars
  <2> QED
    BY <2>1, <2>2, FreshKeeps DEF Fresh, queueVars, D!cacheVars
<1> QED
  BY <1>1, <1>2 DEF IInv

(* The worker.                                                             *)
LEMMA ServerFresh == ASSUME IInv, D!ServerLinks PROVE ChecksOK' /\ Fresh'
<1> DEFINE item == Head(queue)
<1>0. /\ queue # <<>> /\ item.path \in DOMAIN overrides /\ item.addr \in Address
      /\ UNCHANGED <<overrides, known, misled, unsure>>
  <2>1. queue # <<>>
    BY DEF IInv, Core, QueueOK, D!ServerLinks
  <2>2. item \in Entry /\ item = queue[1] /\ 1 \in DOMAIN queue
    BY <2>1, Rest DEF IInv
  <2> QED
    BY <2>1, <2>2 DEF IInv, Core, QueueOK, Entry, D!ServerLinks
<1>1. CASE D!Refused(tree, item)
  <2>1. UNCHANGED <<tree, told, linking>> /\ flushing' = "refused"
    BY <1>1 DEF D!ServerLinks
  <2>2. ChecksOK'
    BY <1>0, <2>1 DEF IInv, ChecksOK, CheckOK
  <2>3. Fresh'
    BY <1>0, <2>1, FreshKeeps DEF Fresh
  <2> QED
    BY <2>2, <2>3
<1>2. CASE ~D!Refused(tree, item)
  <2>1. /\ tree' = D!Put(tree, item.path, item.addr) /\ told' = {tree'} /\ linking' = D!Outdated
        /\ flushing' = "linked"
    BY <1>2 DEF D!ServerLinks
  <2>2. told' \subseteq Tree
    BY <1>0, <2>1 DEF IInv, Core, Types, Tree, D!Put, Address
  <2>3. ASSUME NEW w \in Linkers
        PROVE CheckOK(linking'[w]) /\ (linking'[w].stage = "served" => linking'[w].old)
    <3>1. CheckOK(linking[w])
      BY DEF IInv, ChecksOK
    <3>2. CASE linking[w].stage = "served"
      <4> DEFINE r == [linking[w] EXCEPT !.old = TRUE]
      <4>1. linking'[w] = r
        BY <2>1, <3>2 DEF D!Outdated
      <4>2. /\ r.stage = "served" /\ r.path = linking[w].path /\ r.found = linking[w].found
            /\ r.old = TRUE
        BY <3>1, <3>2 DEF CheckOK
      <4> QED
        BY <3>1, <3>2, <4>1, <4>2 DEF CheckOK
    <3>3. CASE linking[w].stage # "served"
      BY <2>1, <3>1, <3>3 DEF D!Outdated
    <3> QED
      BY <3>2, <3>3
  <2>4. ChecksOK'
    <3>1. linking' = [w \in Linkers |-> linking'[w]]
      BY <2>1 DEF D!Outdated
    <3> QED
      BY <1>0, <2>2, <2>3, <3>1 DEF IInv, ChecksOK, CheckOK
  <2>5. ASSUME ~unsure' PROVE KnownOK'
    <3>1. KnownOK
      BY <1>0, <2>5 DEF IInv, Fresh
    <3>2. ASSUME NEW q \in Leaf, D!AncestorOverrides(q)' = {}
          PROVE D!AncestorOverrides(q) = {} /\ tree'[q] = tree[q]
      <4>1. D!AncestorOverrides(q) = {}
        BY <1>0, <3>2 DEF D!AncestorOverrides, D!IsAbove
      <4>2. ~D!IsAbove(item.path, q) /\ q # item.path
        BY <1>0, <4>1 DEF D!AncestorOverrides, D!IsAbove
      <4> QED
        BY <2>1, <4>1, <4>2 DEF D!Put, D!Paths
    <3> QED
      BY <1>0, <3>1, <3>2 DEF KnownOK
  <2> QED
    BY <2>1, <2>3, <2>4, <2>5 DEF Fresh, AnswersOK, ToldOK
<1> QED
  BY <1>1, <1>2

LEMMA FinishFresh == ASSUME LeavesBelow, IInv, D!Finish PROVE ChecksOK' /\ Fresh'
<1> DEFINE item == Head(queue)
<1>1. /\ flushing \in {"linked", "refused"} /\ flushing' = "on" /\ queue # <<>>
      /\ UNCHANGED <<linking, tree, unsure>> /\ D!Clear(item) /\ told' = {}
  BY DEF D!Finish, IInv, Core, QueueOK
<1>2. ChecksOK'
  <2>1. known' \subseteq Tree
    BY DEF D!Finish, IInv, ChecksOK
  <2> QED
    BY <1>1, <2>1 DEF IInv, ChecksOK, CheckOK
<1>3. ASSUME ~unsure' PROVE AnswersOK' /\ ToldOK' /\ KnownOK'
  <2>1. AnswersOK /\ ToldOK /\ KnownOK /\ OwnWritesOK
    BY <1>1, <1>3 DEF IInv, Core, Fresh
  <2>2. CASE flushing = "linked"
    <3>1. known' \subseteq {tree'}
      BY <1>1, <2>1, <2>2 DEF D!Finish, ToldOK
    <3> QED
      BY <1>1, <2>1, <3>1 DEF AnswersOK, ToldOK, KnownOK
  <2>3. CASE flushing = "refused"
    <3>1. PICK d \in D!Parent(item.path) : d \in DOMAIN overrides
      BY <1>1, <2>1, <2>3 DEF OwnWritesOK, SentOK
    <3>2. item.path \in Leaf /\ d # item.path
      BY <3>1, ParentIsDir
    <3>3. ASSUME NEW q \in Leaf, D!AncestorOverrides(q)' = {} PROVE D!AncestorOverrides(q) = {}
      <4> SUFFICES ASSUME NEW o \in D!AncestorOverrides(q) PROVE FALSE
        OBVIOUS
      <4>1. DOMAIN overrides' = DOMAIN overrides \ D!Current(item)
        BY <1>1 DEF D!Clear
      <4>2. o \in DOMAIN overrides /\ D!IsAbove(o, q)
        BY DEF D!AncestorOverrides
      <4>3. o \in D!Current(item)
        BY <3>3, <4>1, <4>2 DEF D!AncestorOverrides, D!IsAbove
      <4>4. o = item.path
        BY <4>3 DEF D!Current
      <4>5. q = item.path
        BY <3>2, <4>2, <4>4, TwoLevels
      <4>6. d \in DOMAIN overrides' /\ D!IsAbove(d, q)
        BY <3>1, <3>2, <4>1, <4>5 DEF D!Current, D!Parent, D!IsAbove
      <4> QED
        BY <3>3, <4>6 DEF D!AncestorOverrides, D!IsAbove
    <3>4. UNCHANGED <<known, misled>>
      BY <2>3 DEF D!Finish
    <3> QED
      BY <1>1, <2>1, <3>3, <3>4 DEF AnswersOK, ToldOK, KnownOK
  <2> QED
    BY <1>1, <2>2, <2>3
<1> QED
  BY <1>2, <1>3 DEF Fresh

LEMMA WorkKeeps == ASSUME LeavesBelow, IInv, D!Work PROVE IInv'
<1>1. CASE D!ServerLinks
  BY <1>1, ServerKeeps, ServerFresh DEF IInv
<1>2. CASE D!Finish
  BY <1>2, FinishKeeps, FinishFresh DEF IInv
<1>3. ASSUME D!Skip \/ D!Send \/ D!Transient \/ D!Resume \/ D!Stop
      PROVE  /\ UNCHANGED <<linking, tree, known, misled, unsure, overrides>>
             /\ flushing' # "linked" /\ (told' = {} \/ told' = told)
  BY <1>3 DEF D!Skip, D!Send, D!Transient, D!Resume, D!Stop, D!cacheVars
<1>4. ASSUME D!Skip \/ D!Send \/ D!Transient \/ D!Resume \/ D!Stop PROVE ChecksOK' /\ Fresh'
  <2>1. ChecksOK'
    BY <1>3, <1>4 DEF IInv, ChecksOK, CheckOK
  <2>2. AnswersOK => AnswersOK'
    BY <1>3, <1>4 DEF AnswersOK
  <2>3. KnownOK => KnownOK'
    BY <1>3, <1>4 DEF KnownOK, D!AncestorOverrides, D!IsAbove
  <2>4. ToldOK'
    BY <1>3, <1>4 DEF ToldOK
  <2> QED
    BY <1>3, <1>4, <2>1, <2>2, <2>3, <2>4 DEF IInv, Fresh
<1>5. CASE D!Skip
  BY <1>4, <1>5, SkipKeeps DEF IInv
<1>6. CASE D!Send \/ D!Transient \/ D!Resume \/ D!Stop
  <2>1. Core'
    BY <1>6, WorkerKeeps DEF IInv, D!Send, D!Transient, D!Resume, D!Stop, queueVars
  <2> QED
    BY <1>4, <1>6, <2>1 DEF IInv
<1> QED
  BY <1>1, <1>2, <1>5, <1>6 DEF D!Work
-----------------------------------------------------------------------------
LEMMA StepKeeps == ASSUME LeavesBelow PROVE IInv /\ [D!Next]_(D!desyncVars) => IInv'
<1> SUFFICES ASSUME IInv, [D!Next]_(D!desyncVars) PROVE IInv'
  OBVIOUS
<1>1. ASSUME NEW p \in D!Paths, NEW a \in D!Addrs(p), D!LinkNow(p, a) PROVE IInv'
  <2>1. a \in Address /\ D!NoPrev \in Assertion
    BY DEF D!Addrs, Address, D!NoPrev, Assertion
  <2>2. ChecksOK'
    BY <1>1 DEF D!LinkNow, D!cacheVars, IInv, ChecksOK, CheckOK
  <2> QED
    BY <1>1, <2>1, <2>2, LinkKeeps DEF D!LinkNow
<1>2. ASSUME NEW w \in Linkers, D!LinkChecked(w) PROVE IInv'
  BY <1>2, CheckedKeeps DEF IInv, ChecksOK, CheckOK, D!LinkChecked
<1>3. ASSUME NEW w \in Listers, NEW d \in D!Paths, D!Wait(w, d) PROVE IInv'
  BY <1>3, RestKeeps DEF D!Wait, queueVars, D!cacheVars
<1>4. ASSUME D!OtherWrites PROVE IInv'
  BY <1>4, OthersKeep DEF D!OtherWrites, D!cacheVars, IInv, ChecksOK, CheckOK, Fresh
<1>5. ASSUME UNCHANGED D!desyncVars PROVE IInv'
  BY <1>5, RestKeeps DEF D!desyncVars, queueVars, D!cacheVars
<1> QED
  BY <1>1, <1>2, <1>3, <1>4, <1>5, LinkBegins, LookupSteps, ExpireKeeps, WorkKeeps DEF D!Next

LEMMA BeliefIsMeant == ASSUME IInv PROVE D!OwnWritesHold
<1> SUFFICES ASSUME ~unsure
             PROVE  /\ \A p \in Leaf :
                         IF D!AncestorOverrides(p) # {} THEN D!Believed(p) = meant[p]
                         ELSE tree[p] = meant[p] /\ (D!Cached(p) \subseteq {meant[p]} \/ misled)
                    /\ queue = <<>> => tree = meant
  BY DEF D!OwnWritesHold
<1>1. \A q \in D!Paths : BeliefOK(q)
  BY DEF IInv, Core, OwnWritesOK
<1>2. ASSUME NEW p \in Leaf
      PROVE  IF D!AncestorOverrides(p) # {} THEN D!Believed(p) = meant[p]
             ELSE tree[p] = meant[p] /\ (D!Cached(p) \subseteq {meant[p]} \/ misled)
  <2> DEFINE P == D!AncestorOverrides(p)
  <2>1. BeliefOK(p)
    BY <1>1 DEF D!Paths
  <2>2. CASE P = {}
    <3>1. KnownOK
      BY DEF IInv, Fresh
    <3>2. D!Cached(p) \subseteq {tree[p]} \/ misled
      BY <2>2, <3>1 DEF KnownOK, D!Cached
    <3> QED
      BY <2>1, <2>2, <3>2 DEF BeliefOK
  <2>3. CASE P # {}
    <3>1. PICK o \in P : Last(P, o) /\ meant[p] = IF o = p THEN overrides[p].addr ELSE Nil
      BY <2>1, <2>3 DEF BeliefOK
    <3>2. D!Newest(P) \in P /\ \A r \in P : overrides[r].seq <= overrides[D!Newest(P)].seq
      BY <3>1 DEF D!Newest, Last
    <3>3. D!Newest(P) = o
      <4> DEFINE n == D!Newest(P)
      <4> HIDE DEF n
      <4>1. n \in DOMAIN overrides /\ o \in DOMAIN overrides
        BY <3>2 DEF n, D!AncestorOverrides
      <4>2. PICK i \in DOMAIN queue : queue[i] = overrides[n]
        BY <4>1 DEF IInv, Core, QueueOK
      <4>3. PICK j \in DOMAIN queue : queue[j] = overrides[o]
        BY <4>1 DEF IInv, Core, QueueOK
      <4>4. overrides[n] \in Entry /\ overrides[o] \in Entry
        BY <4>1 DEF IInv, Core, Types
      <4>5. overrides[n].seq = overrides[o].seq
        BY <3>1, <3>2, <4>4 DEF n, Last, Entry
      <4>6. i = j
        <5>1. i \in Nat /\ j \in Nat /\ queue[i].seq \in Nat /\ queue[j].seq \in Nat
          BY <4>2, <4>3, <4>4 DEF IInv, Core, Types, Entry
        <5>2. ~(i < j) /\ ~(j < i)
          BY <4>2, <4>3, <4>5, <5>1 DEF IInv, Core, QueueOK
        <5> QED
          BY <5>1, <5>2
      <4>7. overrides[n].path = n /\ overrides[o].path = o
        BY <4>1 DEF IInv, Core, QueueOK
      <4> QED
        BY <4>2, <4>3, <4>6, <4>7 DEF n
    <3> QED
      BY <2>3, <3>1, <3>3 DEF D!Believed
  <2> QED
    BY <2>2, <2>3
<1>3. ASSUME queue = <<>> PROVE tree = meant
  <2>1. DOMAIN queue = {}
    BY <1>3
  <2>2. DOMAIN overrides = {}
    BY <2>1 DEF IInv, Core, QueueOK
  <2>3. \A q \in D!Paths : tree[q] = meant[q]
    BY <1>1, <2>2 DEF BeliefOK, D!AncestorOverrides
  <2> QED
    BY <2>3 DEF IInv, Core, Types, Tree
<1> QED
  BY <1>2, <1>3

(* As long as a client's links carry no assertion, find their directories  *)
(* and are the only ones, lookups find what the client meant to write,     *)
(* whatever is queued, under way, skipped or sent again: in the overrides, *)
(* in the server's answers, and below the mini-roots, unless these are of  *)
(* an answer from before a link that came after it. And the server has     *)
(* exactly that when the queue is empty.                                   *)
THEOREM OwnWritesAreKept == LeavesBelow => (D!Spec => []OwnWritesHold)
<1> SUFFICES ASSUME LeavesBelow PROVE D!Spec => []OwnWritesHold
  OBVIOUS
<1>1. IInv /\ [D!Next]_(D!desyncVars) => IInv'
  BY StepKeeps
<1>2. IInv => OwnWritesHold
  BY BeliefIsMeant DEF IInv, OwnWritesHold
<1> QED
  BY <1>1, <1>2, Initially, PTL DEF D!Spec
-----------------------------------------------------------------------------
(* The uploads before a link.                                              *)

(* What the server has was there since the puts of it began, and so was    *)
(* what a put is done with.                                                *)
UploadsOK ==
  /\ onServer \subseteq wasThere
  /\ put = [c \in Puts |-> put[c]]
  /\ \A c \in Puts : put[c] = [stage |-> put[c].stage, blob |-> put[c].blob]
  /\ U!PutMeansStored

LEMMA UploadsInitially == U!Init => UploadsOK
<1> SUFFICES ASSUME U!Init PROVE UploadsOK
  OBVIOUS
<1>1. \E b : U!NoPut = [stage |-> "idle", blob |-> b]
  BY DEF U!NoPut
<1>2. onServer = {} /\ wasThere = {} /\ put = [c \in Puts |-> U!NoPut]
  BY DEF U!Init
<1> QED
  BY <1>1, <1>2 DEF UploadsOK, U!PutMeansStored

(* A step of one put that stays about its blob.                            *)
LEMMA PutStep ==
  ASSUME UploadsOK, NEW c \in Puts, NEW s, put' = [put EXCEPT ![c].stage = s],
         onServer' \subseteq wasThere', wasThere \subseteq wasThere',
         s = "done" => put[c].blob \in wasThere'
  PROVE  UploadsOK'
BY DEF UploadsOK, U!PutMeansStored

LEMMA UploadsStep == UploadsOK /\ [U!Next]_(U!uploadVars) => UploadsOK'
<1> SUFFICES ASSUME UploadsOK, [U!Next]_(U!uploadVars) PROVE UploadsOK'
  OBVIOUS
<1> USE DEF U!Nothing, U!Arrive, U!SetPut
<1>1. CASE UNCHANGED U!uploadVars
  BY <1>1 DEF UploadsOK, U!PutMeansStored, U!uploadVars
<1>2. ASSUME NEW c \in Puts, NEW b \in Blob, U!PutBegin(c, b) PROVE UploadsOK'
  <2>1. /\ put[c].stage = "idle" /\ onServer' = onServer
        /\ put' = [put EXCEPT ![c] = [stage |-> "asking", blob |-> b]]
    BY <1>2 DEF U!PutBegin
  <2>2. \/ wasThere' = wasThere
        \/ /\ wasThere' = wasThere \ {b} /\ b \notin onServer
           /\ \A d \in Puts : put[d].stage # "idle" => put[d].blob # b
    BY <1>2 DEF U!PutBegin
  <2>3. onServer' \subseteq wasThere'
    BY <2>1, <2>2 DEF UploadsOK
  <2>4. ASSUME NEW d \in Puts, put'[d].stage = "done" PROVE put'[d].blob \in wasThere'
    BY <2>1, <2>2, <2>4 DEF UploadsOK, U!PutMeansStored
  <2> QED
    BY <2>1, <2>3, <2>4 DEF UploadsOK, U!PutMeansStored
<1>3. ASSUME NEW c \in Puts, U!PutAsk(c) \/ U!PutConfirm(c) PROVE UploadsOK'
  <2>1. UNCHANGED <<onServer, wasThere>>
    BY <1>3 DEF U!PutAsk, U!PutConfirm
  <2>2. \/ put[c].blob \in onServer /\ put' = [put EXCEPT ![c].stage = "done"]
        \/ put' = [put EXCEPT ![c].stage = "sending"]
        \/ put' = [put EXCEPT ![c].stage = "failed"]
    BY <1>3 DEF U!PutAsk, U!PutConfirm, U!BrokenPresent
  <2> QED
    BY <2>1, <2>2, PutStep DEF UploadsOK
<1>4. ASSUME NEW c \in Puts, U!PutSend(c) PROVE UploadsOK'
  <2>1. \/ U!Arrive(put[c].blob) /\ put' = [put EXCEPT ![c].stage = "done"]
        \/ UNCHANGED <<onServer, wasThere>> /\ put' = [put EXCEPT ![c].stage = "failed"]
        \/ (U!Arrive(put[c].blob) \/ UNCHANGED <<onServer, wasThere>>)
             /\ put' = [put EXCEPT ![c].stage = "broken"]
    BY <1>4 DEF U!PutSend
  <2> QED
    BY <2>1, PutStep DEF UploadsOK
<1>5. ASSUME NEW c \in Puts, U!PutReturn(c) PROVE UploadsOK'
  BY <1>5 DEF UploadsOK, U!PutMeansStored, U!PutReturn, U!NoPut
<1>6. ASSUME NEW b \in Blob, U!Make(b) \/ U!ServerEvict(b) \/ U!BrowserEvict(b)
      PROVE  UploadsOK'
  BY <1>6 DEF UploadsOK, U!PutMeansStored, U!Make, U!ServerEvict, U!BrowserEvict
<1>7. ASSUME NEW l \in Posts,
             \/ \E N \in SUBSET Blob : U!PostBegin(l, N)
             \/ U!ServerAnswers(l) \/ U!Upload(l) \/ U!PostReturn(l)
      PROVE  UploadsOK'
  <2>1. put' = put
    BY <1>7 DEF U!PostBegin, U!ServerAnswers, U!Upload, U!PostReturn
  <2>2. \/ UNCHANGED <<onServer, wasThere>>
        \/ \E b : U!Arrive(b)
    BY <1>7 DEF U!PostBegin, U!ServerAnswers, U!Upload, U!PostReturn
  <2> QED
    BY <2>1, <2>2 DEF UploadsOK, U!PutMeansStored
<1> QED
  BY <1>1, <1>2, <1>3, <1>4, <1>5, <1>6, <1>7 DEF U!Next

(* put: when it returns a CID, the server had the blob during the call,    *)
(* whatever other calls, broken connections and sweeps did meanwhile.      *)
THEOREM PutIsStored == U!Spec => []PutMeansStored
<1>1. UploadsOK => PutMeansStored
  BY DEF UploadsOK, PutMeansStored
<1> QED
  BY <1>1, UploadsInitially, UploadsStep, PTL DEF U!Spec
-----------------------------------------------------------------------------
(* The service worker.                                                     *)

(* Versions are numbers, none of them ahead of the server's; a navigation  *)
(* whose check is passed is answered by a worker new enough.               *)
PagesOK ==
  /\ serverHash \in Nat /\ worker.hash \in Nat
  /\ worker = [hash |-> worker.hash, state |-> worker.state]
  /\ tab = [t \in Tab |-> tab[t]] /\ since = [t \in Tab |-> since[t]]
  /\ \A t \in Tab :
       /\ tab[t] = [stage |-> tab[t].stage, by |-> tab[t].by, attempted |-> tab[t].attempted]
       /\ tab[t].by \in Nat /\ since[t] \in Nat /\ since[t] <= serverHash
  /\ W!ServedByCurrentWorker

LEMMA PagesInitially == W!Init => PagesOK
BY DEF W!Init, W!NoWorker, W!Blank, PagesOK, W!ServedByCurrentWorker

(* A step that only moves tabs on, to stages other than the worker's look. *)
LEMMA TabsMove ==
  ASSUME PagesOK, serverHash' = serverHash, since' = since,
         worker' = worker \/ (worker'.hash \in Nat
                              /\ worker' = [hash |-> worker'.hash, state |-> worker'.state]),
         tab' = [t \in Tab |-> tab'[t]],
         \A t \in Tab :
           /\ tab'[t] = [stage |-> tab'[t].stage, by |-> tab'[t].by, attempted |-> tab'[t].attempted]
           /\ tab'[t].by = tab[t].by
           /\ tab'[t].stage = "lookup" => tab[t].stage = "lookup"
  PROVE  PagesOK'
BY DEF PagesOK, W!ServedByCurrentWorker

LEMMA PagesStep == PagesOK /\ [W!Next]_(W!swVars) => PagesOK'
<1> SUFFICES ASSUME PagesOK, [W!Next]_(W!swVars) PROVE PagesOK'
  OBVIOUS
<1>1. CASE UNCHANGED W!swVars
  BY <1>1 DEF PagesOK, W!ServedByCurrentWorker, W!swVars
<1>2. ASSUME NEW t \in Tab, W!Navigate(t) \/ W!Bounce(t) PROVE PagesOK'
  <2>0. PICK f : W!Blank = [stage |-> "idle", by |-> 0, attempted |-> f]
    BY DEF W!Blank
  <2>1. /\ UNCHANGED <<serverHash, worker>> /\ since' = [since EXCEPT ![t] = serverHash]
        /\ \E s \in {"checking", "shown", "interstitial"}, h \in {0, worker.hash} :
             tab' = [tab EXCEPT ![t] = [stage |-> s, by |-> h, attempted |-> f]]
    <3>1. ASSUME NEW s PROVE [W!Blank EXCEPT !.stage = s] = [stage |-> s, by |-> 0, attempted |-> f]
      BY ONLY <2>0
    <3>2. [W!Blank EXCEPT !.stage = "checking", !.by = worker.hash] =
            [stage |-> "checking", by |-> worker.hash, attempted |-> f]
      <4> DEFINE checking == [stage |-> "checking", by |-> 0, attempted |-> f]
      <4>1. [W!Blank EXCEPT !.stage = "checking", !.by = worker.hash] =
              [[W!Blank EXCEPT !.stage = "checking"] EXCEPT !.by = worker.hash]
        BY Zenon
      <4>2. [checking EXCEPT !.by = worker.hash] = [stage |-> "checking", by |-> worker.hash, attempted |-> f]
        OBVIOUS
      <4> QED
        BY <3>1, <4>1, <4>2
    <3>3. UNCHANGED <<serverHash, worker>> /\ W!GoTo(t)
      BY <1>2 DEF W!Navigate, W!Bounce
    <3>4. CASE W!Controls
      BY <3>2, <3>3, <3>4 DEF W!GoTo
    <3>5. CASE ~W!Controls
      BY <3>1, <3>3, <3>5 DEF W!GoTo, W!Direct
    <3> QED
      BY <3>4, <3>5
  <2>2. PICK s \in {"checking", "shown", "interstitial"}, h \in {0, worker.hash} :
          tab' = [tab EXCEPT ![t] = [stage |-> s, by |-> h, attempted |-> f]]
    BY <2>1
  <2>3. h \in Nat
    BY DEF PagesOK
  <2>4. \A u \in Tab : /\ tab'[u] = IF u = t THEN [stage |-> s, by |-> h, attempted |-> f] ELSE tab[u]
                       /\ since'[u] = IF u = t THEN serverHash ELSE since[u]
    BY <2>1, <2>2 DEF PagesOK
  <2>5. tab' = [u \in Tab |-> tab'[u]] /\ since' = [u \in Tab |-> since'[u]]
    BY <2>1, <2>2 DEF PagesOK
  <2>6. ASSUME NEW u \in Tab
        PROVE  /\ tab'[u] = [stage |-> tab'[u].stage, by |-> tab'[u].by, attempted |-> tab'[u].attempted]
               /\ tab'[u].by \in Nat /\ since'[u] \in Nat /\ since'[u] <= serverHash
               /\ tab'[u].stage = "lookup" => tab'[u].by >= since'[u]
    BY <2>3, <2>4 DEF PagesOK, W!ServedByCurrentWorker
  <2> QED
    BY <2>1, <2>5, <2>6 DEF PagesOK, W!ServedByCurrentWorker
<1>3. ASSUME NEW t \in Tab, W!HashCheck(t) PROVE PagesOK'
  <2>1. /\ UNCHANGED <<serverHash, since>>
        /\ worker' \in {worker, [worker EXCEPT !.state = "leaving"]}
        /\ \/ tab' = [tab EXCEPT ![t].stage = "lookup"] /\ serverHash = tab[t].by
           \/ tab' = [tab EXCEPT ![t].stage = "redirected"]
    BY <1>3 DEF W!HashCheck, W!Matches, W!At
  <2>2. serverHash' \in Nat /\ worker'.hash \in Nat
        /\ worker' = [hash |-> worker'.hash, state |-> worker'.state]
    BY <2>1 DEF PagesOK
  <2> QED
    BY <2>1, <2>2 DEF PagesOK, W!ServedByCurrentWorker
<1>4. ASSUME NEW t \in Tab, W!HashCheckFails(t) PROVE PagesOK'
  <2>1. /\ UNCHANGED <<serverHash, worker>>
        /\ tab' = [tab EXCEPT ![t].stage = "lookup"] /\ since' = [since EXCEPT ![t] = 0]
    BY <1>4 DEF W!HashCheckFails, W!At
  <2>2. since' = [u \in Tab |-> since'[u]] /\ \A u \in Tab : since'[u] = IF u = t THEN 0 ELSE since[u]
    BY <2>1 DEF PagesOK
  <2>3. tab' = [u \in Tab |-> tab'[u]] /\ \A u \in Tab : u # t => tab'[u] = tab[u]
    BY <2>1 DEF PagesOK
  <2>4. tab'[t] = [stage |-> "lookup", by |-> tab[t].by, attempted |-> tab[t].attempted]
    <3>1. tab'[t] = [tab[t] EXCEPT !.stage = "lookup"]
      BY <2>1 DEF PagesOK
    <3>2. tab[t] = [stage |-> tab[t].stage, by |-> tab[t].by, attempted |-> tab[t].attempted]
      BY DEF PagesOK
    <3> QED
      BY <3>1, <3>2
  <2>5. ASSUME NEW u \in Tab
        PROVE  /\ tab'[u] = [stage |-> tab'[u].stage, by |-> tab'[u].by, attempted |-> tab'[u].attempted]
               /\ tab'[u].by \in Nat /\ since'[u] \in Nat /\ since'[u] <= serverHash
               /\ tab'[u].stage = "lookup" => tab'[u].by >= since'[u]
    BY <2>2, <2>3, <2>4 DEF PagesOK, W!ServedByCurrentWorker
  <2> QED
    BY <2>1, <2>2, <2>3, <2>5 DEF PagesOK, W!ServedByCurrentWorker
<1>5. ASSUME NEW t \in Tab,
             W!Serve(t) \/ W!Redirected(t) \/ W!Register(t) \/ W!RegisterFails(t) \/ W!PageRegisters(t)
      PROVE  PagesOK'
  <2>1. /\ UNCHANGED <<serverHash, since>> /\ worker' \in {worker, W!Registered}
        /\ \/ UNCHANGED tab
           \/ tab' = [tab EXCEPT ![t].attempted = TRUE]
           \/ \E s \in {"shown", "interstitial", "waiting", "vain", "bouncing"} :
                tab' = [tab EXCEPT ![t].stage = s]
    BY <1>5 DEF W!Serve, W!Redirected, W!Register, W!RegisterFails, W!PageRegisters, W!At
  <2>2. worker'.hash \in Nat /\ worker' = [hash |-> worker'.hash, state |-> worker'.state]
    BY <2>1 DEF PagesOK, W!Registered
  <2> QED
    BY <2>1, <2>2, TabsMove DEF PagesOK
<1>6. ASSUME NEW t \in Tab, W!CleanUp(t) PROVE PagesOK'
  <2>1. /\ UNCHANGED <<serverHash, since>> /\ worker' = [hash |-> 0, state |-> "none"]
        /\ tab' = [u \in Tab |->
               IF u = t THEN [tab[u] EXCEPT !.stage = "registering"]
               ELSE IF tab[u].stage = "waiting" THEN [tab[u] EXCEPT !.stage = "vain"] ELSE tab[u]]
    BY <1>6 DEF W!CleanUp, W!CleanedUp, W!NoWorker
  <2> QED
    BY <2>1, TabsMove DEF PagesOK
<1>7. CASE W!Activate
  <2>1. /\ UNCHANGED <<serverHash, since>> /\ worker' = [worker EXCEPT !.state = "activated"]
        /\ tab' = [t \in Tab |-> IF tab[t].stage = "waiting" THEN [tab[t] EXCEPT !.stage = "bouncing"]
                                 ELSE tab[t]]
    BY <1>7 DEF W!Activate
  <2> QED
    BY <2>1, TabsMove DEF PagesOK
<1>8. CASE W!Unregistered \/ W!DeleteCooldown \/ W!CookieExpires
  <2>1. UNCHANGED <<serverHash, since, tab>> /\ worker' \in {worker, [hash |-> 0, state |-> "none"]}
    BY <1>8 DEF W!Unregistered, W!DeleteCooldown, W!CookieExpires, W!NoWorker
  <2> QED
    BY <2>1, TabsMove DEF PagesOK
<1>9. CASE W!ServerChanges
  BY <1>9 DEF PagesOK, W!ServedByCurrentWorker, W!ServerChanges
<1> QED
  BY <1>1, <1>2, <1>3, <1>4, <1>5, <1>6, <1>7, <1>8, <1>9 DEF W!Next, W!Step

(* handleRequest: a worker answers a navigation only when its version was  *)
(* the server's at some time since the navigation began.                   *)
THEOREM NavigationsAreServedByCurrentWorker == W!Spec => []ServedByCurrentWorker
<1>1. PagesOK => ServedByCurrentWorker
  BY DEF PagesOK, ServedByCurrentWorker
<1> QED
  BY <1>1, PagesInitially, PagesStep, PTL DEF W!Spec
=============================================================================
