-------------------------- MODULE NodeCache_proofs --------------------------
(***************************************************************************)
(* Proofs about NodeCache, for any addresses, callers and objects, and for *)
(* whatever is done at each address, with the lock of the tree or without. *)
(* Where CreateTreeNode has replaced an entry in flight nothing is claimed *)
(* but that what is in flight has its loader; the invariant says that this *)
(* is the only thing that makes the entries and the counts of an address   *)
(* go wrong, and that it stays at that address.                            *)
(***************************************************************************)
EXTENDS NodeCache, FiniteSetTheorems, TLAPS

Stages == {"idle", "ask", "wait", "load", "missed", "loaded", "create", "created", "got", "hold"}
Claims == {"load", "missed", "loaded"}
Owning == {"loaded", "created"}

Types ==
  /\ present \subseteq Addr
  /\ cache \in [Addr -> Object \union Callers \union {Absent}]
  /\ addrOf \in [Object -> Addr \union {Absent}]
  /\ pinned \subseteq Object /\ \A o \in pinned : addrOf[o] \in Addr
  /\ refs \in [Object -> Int]
  /\ managed \subseteq Addr
  /\ op \in [Callers -> Operations \union {"idle"}]
  /\ at \in [Callers -> Addr \union {Absent}]
  /\ stage \in [Callers -> Stages]
  /\ node \in [Callers -> Object \union {Absent}]
  /\ overtaken \subseteq Addr

(* Where a caller is, and what it has there.                               *)
PlaceOK ==
  \A c \in Callers :
    /\ stage[c] = "idle" => node[c] = Absent
    /\ stage[c] # "idle" => at[c] \in Addr /\ op[c] \in Ops[at[c]]
    /\ stage[c] \in {"ask", "wait"} \union Claims => op[c] \notin Creating
    /\ stage[c] \in {"create", "created"} => op[c] \in Creating
    /\ stage[c] \in {"ask", "wait", "load", "missed", "create"} => node[c] = Absent
    /\ stage[c] \in {"loaded", "created", "got", "hold"} =>
         node[c] \in Object /\ addrOf[node[c]] = at[c]

(* A load has its own entry; what it made nobody else has yet.             *)
ClaimOK ==
  \A c \in Callers :
    /\ stage[c] \in Claims /\ at[c] \notin overtaken => cache[at[c]] = c
    /\ stage[c] \in Owning =>
         /\ node[c] \in pinned
         /\ \A a \in Addr : cache[a] # node[c]
         /\ \A d \in Callers : d # c => node[d] # node[c]

(* Under the lock of the tree the node one got stays in the cache, and the *)
(* tree as it is.                                                          *)
LockOK ==
  /\ \A c, d \in Callers :
       c # d /\ Working(c) /\ Working(d) /\ op[c] \in Exclusive => op[d] \in Unlocked
  /\ \A c \in Callers :
       /\ stage[c] = "got" /\ op[c] \notin Unlocked /\ at[c] \notin overtaken =>
            cache[at[c]] = node[c]
       /\ Working(c) /\ op[c] \in {"lookup", "unlink"} => at[c] \in managed

(* Entries: an object's is that of its address, a caller's that of the     *)
(* load it is in; what the tree holds is there.                            *)
CacheOK ==
  \A a \in Addr :
    /\ cache[a] \in Object => addrOf[cache[a]] = a /\ cache[a] \in pinned
    /\ cache[a] \in Callers => at[cache[a]] = a /\ stage[cache[a]] \in Claims
    /\ a \in managed \ overtaken => cache[a] \in Object

Holders(o) == {c \in Callers : stage[c] = "hold" /\ node[c] = o}
InTree == {o \in Object : addrOf[o] \in managed /\ cache[addrOf[o]] = o}

CountOf(o) == Cardinality(Holders(o)) + (IF o \in InTree THEN 1 ELSE 0)

(* A count is the number of those who hold the object, and the tree's one. *)
RefsExact == \A o \in Object : addrOf[o] \notin overtaken => refs[o] = CountOf(o)

(* The conjuncts that say nothing of counts.                               *)
Shape ==
  Types /\ PlaceOK /\ ClaimOK /\ LockOK /\ CacheOK /\ PinnedIsReachable /\ LookedUpIsWhole

IInv == Shape /\ RefsExact
-----------------------------------------------------------------------------
LEMMA HoldersFinite ==
  ASSUME NEW o PROVE IsFiniteSet(Holders(o)) /\ Cardinality(Holders(o)) \in Nat
<1>1. Holders(o) \subseteq Callers
  BY DEF Holders
<1> QED
  BY <1>1, CallersAssumption, FS_Subset, FS_CardinalityType

(* The counts, when nobody takes or gives back, and the tree's part of     *)
(* the cache stays.                                                        *)
LEMMA RefsKept ==
  ASSUME RefsExact, refs' = refs, addrOf' = addrOf, overtaken \subseteq overtaken',
         \A c \in Callers : \/ stage'[c] = "hold" /\ stage[c] = "hold" /\ node'[c] = node[c]
                            \/ stage'[c] # "hold" /\ stage[c] # "hold",
         managed' = managed, \A a \in managed \ overtaken' : cache'[a] = cache[a]
  PROVE  RefsExact'
<1>1. \A o \in Object : Holders(o)' = Holders(o)
  BY DEF Holders
<1>2. \A o \in Object : addrOf[o] \notin overtaken' => (o \in InTree' <=> o \in InTree)
  BY DEF InTree
<1> QED
  BY <1>1, <1>2 DEF RefsExact, CountOf

LEMMA Initially == Init => IInv
<1> SUFFICES ASSUME Init PROVE IInv
  OBVIOUS
<1>1. Types /\ PlaceOK /\ ClaimOK /\ LockOK /\ CacheOK /\ PinnedIsReachable /\ LookedUpIsWhole
  BY DistinctAssumption
  DEF Init, Types, Stages, PlaceOK, ClaimOK, Claims, Owning, LockOK, Working, CacheOK,
      PinnedIsReachable, LookedUpIsWhole
<1>2. RefsExact
  <2> SUFFICES ASSUME NEW o \in Object PROVE refs[o] = CountOf(o)
    BY DEF RefsExact
  <2>1. Holders(o) = {} /\ InTree = {}
    BY DEF Init, Holders, InTree
  <2> QED
    BY <2>1, FS_EmptySet DEF Init, CountOf
<1> QED
  BY <1>1, <1>2 DEF IInv, Shape

(* What is held or in the tree has a count.                                *)
LEMMA Counted ==
  ASSUME IInv, NEW o \in Object, addrOf[o] \notin overtaken, o \in InTree \/ Holders(o) # {}
  PROVE  refs[o] > 0
<1>1. refs[o] = Cardinality(Holders(o)) + (IF o \in InTree THEN 1 ELSE 0)
  BY DEF IInv, RefsExact, CountOf
<1>2. Cardinality(Holders(o)) \in Nat /\ (Holders(o) # {} => Cardinality(Holders(o)) # 0)
  BY HoldersFinite, FS_EmptySet
<1> QED
  BY <1>1, <1>2

(* A new object has no count, nobody holds it and it is not in the tree.   *)
LEMMA FreshCounts ==
  ASSUME IInv, NEW c \in Callers, NewNode(c), node[c] = Absent,
         stage[c] # "hold", stage'[c] # "hold", \A d \in Callers : d # c => stage'[d] = stage[d],
         cache' = cache, managed' = managed, overtaken' = overtaken
  PROVE  RefsExact'
<1>1. PICK n \in Free : /\ refs' = [refs EXCEPT ![n] = 0]
                        /\ node' = [node EXCEPT ![c] = n]
                        /\ addrOf' = [addrOf EXCEPT ![n] = at[c]]
  BY DEF NewNode
<1>2. Types /\ CacheOK
  BY DEF IInv, Shape
<1>3. \A o : Holders(o)' = Holders(o)
  BY <1>1, <1>2 DEF Holders, Types
<1>4. n \in Object /\ Holders(n) = {} /\ n \notin InTree'
  BY <1>2 DEF Free, Holders, InTree, Types
<1>5. \A o \in Object \ {n} : addrOf'[o] = addrOf[o] /\ (o \in InTree' <=> o \in InTree)
  BY <1>1, <1>2 DEF InTree, Types
<1>6. \A o \in Object : refs'[o] = IF o = n THEN 0 ELSE refs[o]
  BY <1>1, <1>2 DEF Types
<1> QED
  BY <1>3, <1>4, <1>5, <1>6, FS_EmptySet DEF IInv, RefsExact, CountOf
-----------------------------------------------------------------------------
(* The blobs of a node arrive.                                             *)
LEMMA ArriveKeeps ==
  ASSUME IInv, NEW a \in Addr, Arrive(a) PROVE IInv'
<1> USE OpsAssumption, DistinctAssumption
<1>0. Types /\ PlaceOK /\ ClaimOK /\ LockOK /\ CacheOK /\ PinnedIsReachable
      /\ LookedUpIsWhole /\ RefsExact
  BY DEF IInv, Shape
<1>1. Types'
  BY <1>0 DEF Arrive, caller, Types
<1>2. PlaceOK'
  BY <1>0 DEF Arrive, caller, PlaceOK
<1>3. ClaimOK'
  BY <1>0 DEF Arrive, caller, ClaimOK
<1>4. LockOK'
  BY <1>0 DEF Arrive, caller, LockOK, Working
<1>5. CacheOK'
  BY <1>0 DEF Arrive, caller, CacheOK
<1>6. PinnedIsReachable'
  BY <1>0 DEF Arrive, caller, PinnedIsReachable
<1>7. LookedUpIsWhole'
  BY <1>0 DEF Arrive, caller, LookedUpIsWhole
<1>8. RefsExact'
  <2>1. \A d \in Callers : \/ stage'[d] = "hold" /\ stage[d] = "hold" /\ node'[d] = node[d]
                           \/ stage'[d] # "hold" /\ stage[d] # "hold"
    BY <1>0 DEF Arrive, caller
  <2>2. UNCHANGED <<refs, addrOf, managed>> /\ overtaken \subseteq overtaken'
        /\ \A b \in managed \ overtaken' : cache'[b] = cache[b]
    BY <1>0 DEF Arrive, caller
  <2> QED
    BY <1>0, <2>1, <2>2, RefsKept
<1> QED
  BY <1>1, <1>2, <1>3, <1>4, <1>5, <1>6, <1>7, <1>8 DEF IInv, Shape

(* The blobs of a node that nobody references vanish.                      *)
LEMMA VanishKeeps ==
  ASSUME IInv, NEW a \in Addr, Vanish(a) PROVE IInv'
<1> USE OpsAssumption, DistinctAssumption
<1>0. Types /\ PlaceOK /\ ClaimOK /\ LockOK /\ CacheOK /\ PinnedIsReachable
      /\ LookedUpIsWhole /\ RefsExact
  BY DEF IInv, Shape
<1>1. Types'
  BY <1>0 DEF Vanish, caller, Types
<1>2. PlaceOK'
  BY <1>0 DEF Vanish, caller, PlaceOK
<1>3. ClaimOK'
  BY <1>0 DEF Vanish, caller, ClaimOK
<1>4. LockOK'
  BY <1>0 DEF Vanish, caller, LockOK, Working
<1>5. CacheOK'
  BY <1>0 DEF Vanish, caller, CacheOK
<1>6. PinnedIsReachable'
  BY <1>0 DEF Vanish, caller, PinnedIsReachable
<1>7. LookedUpIsWhole'
  BY <1>0 DEF Vanish, caller, LookedUpIsWhole
<1>8. RefsExact'
  <2>1. \A d \in Callers : \/ stage'[d] = "hold" /\ stage[d] = "hold" /\ node'[d] = node[d]
                           \/ stage'[d] # "hold" /\ stage[d] # "hold"
    BY <1>0 DEF Vanish, caller
  <2>2. UNCHANGED <<refs, addrOf, managed>> /\ overtaken \subseteq overtaken'
        /\ \A b \in managed \ overtaken' : cache'[b] = cache[b]
    BY <1>0 DEF Vanish, caller
  <2> QED
    BY <1>0, <2>1, <2>2, RefsKept
<1> QED
  BY <1>1, <1>2, <1>3, <1>4, <1>5, <1>6, <1>7, <1>8 DEF IInv, Shape

(* An operation starts, with the lock it needs.                            *)
LEMMA StartKeeps ==
  ASSUME IInv, NEW c \in Callers, NEW a \in Addr, NEW o \in Ops[a],
         Start(c, o, a)
  PROVE  IInv'
<1> USE OpsAssumption, DistinctAssumption
<1>0. Types /\ PlaceOK /\ ClaimOK /\ LockOK /\ CacheOK /\ PinnedIsReachable
      /\ LookedUpIsWhole /\ RefsExact
  BY DEF IInv, Shape
<1>1. Types'
  BY <1>0 DEF Start, Types, Stages
<1>2. PlaceOK'
  <2>1. /\ stage'[c] = IF o \in Creating THEN "create" ELSE "ask"
        /\ at'[c] = a /\ op'[c] = o /\ node'[c] = Absent /\ addrOf' = addrOf
    BY <1>0 DEF Start, Types, PlaceOK
  <2>2. \A d \in Callers : d # c =>
          stage'[d] = stage[d] /\ at'[d] = at[d] /\ op'[d] = op[d] /\ node'[d] = node[d]
    BY <1>0 DEF Start, Types
  <2> QED
    BY <1>0, <2>1, <2>2 DEF PlaceOK, Claims
<1>3. ClaimOK'
  BY <1>0 DEF Start, Types, ClaimOK, Claims, Owning
<1>4. LockOK'
  BY <1>0 DEF Start, CanLock, Writing, Reading, Types, PlaceOK, LockOK, Working, Operations
<1>5. CacheOK'
  BY <1>0 DEF Start, Types, CacheOK, Claims
<1>6. PinnedIsReachable'
  BY <1>0 DEF Start, PinnedIsReachable
<1>7. LookedUpIsWhole'
  BY <1>0 DEF Start, LookedUpIsWhole
<1>8. RefsExact'
  <2>1. \A d \in Callers : \/ stage'[d] = "hold" /\ stage[d] = "hold" /\ node'[d] = node[d]
                           \/ stage'[d] # "hold" /\ stage[d] # "hold"
    BY <1>0 DEF Start, Types
  <2>2. UNCHANGED <<refs, addrOf, managed>> /\ overtaken \subseteq overtaken'
        /\ \A b \in managed \ overtaken' : cache'[b] = cache[b]
    BY <1>0 DEF Start, Types
  <2> QED
    BY <1>0, <2>1, <2>2, RefsKept
<1> QED
  BY <1>1, <1>2, <1>3, <1>4, <1>5, <1>6, <1>7, <1>8 DEF IInv, Shape

(* The cache is asked: found, in flight, or claimed.                       *)
LEMMA AskKeeps ==
  ASSUME IInv, NEW c \in Callers, Ask(c) PROVE IInv'
<1> USE OpsAssumption, DistinctAssumption
<1>0. Types /\ PlaceOK /\ ClaimOK /\ LockOK /\ CacheOK /\ PinnedIsReachable
      /\ LookedUpIsWhole /\ RefsExact
  BY DEF IInv, Shape
<1>1. Types'
  BY <1>0 DEF Ask, InFlight, Types, Stages
<1>2. PlaceOK'
  <2>1. /\ stage[c] = "ask" /\ UNCHANGED <<addrOf, at, op>>
        /\ \/ stage'[c] = "got" /\ cache[at[c]] \in Object /\ node'[c] = cache[at[c]]
           \/ stage'[c] \in {"wait", "load"} /\ node'[c] = node[c]
    BY <1>0 DEF Ask, Types
  <2>2. \A d \in Callers : d # c => stage'[d] = stage[d] /\ node'[d] = node[d]
    BY <1>0 DEF Ask, Types
  <2>3. at[c] \in Addr
    BY <1>0, <2>1 DEF PlaceOK
  <2> QED
    BY <1>0, <2>1, <2>2, <2>3 DEF PlaceOK, CacheOK
<1>3. ClaimOK'
  BY <1>0 DEF Ask, InFlight, Claimed, Types, PlaceOK, ClaimOK, Claims, Owning
<1>4. LockOK'
  BY <1>0 DEF Ask, InFlight, Types, PlaceOK, LockOK, Working
<1>5. CacheOK'
  BY <1>0 DEF Ask, InFlight, Types, CacheOK, Claims
<1>6. PinnedIsReachable'
  <2>1. /\ UNCHANGED <<addrOf, pinned, overtaken>>
        /\ \A a \in Addr : cache[a] \in Object => cache'[a] = cache[a]
        /\ \A d \in Callers : stage[d] \in Owning => stage'[d] = stage[d] /\ node'[d] = node[d]
    BY <1>0 DEF Ask, Types, Owning
  <2>2. \A n \in pinned : n \in Object /\ addrOf[n] \in Addr
    BY <1>0 DEF Types
  <2> QED
    BY <1>0, <2>1, <2>2 DEF PinnedIsReachable, Owning
<1>7. LookedUpIsWhole'
  BY <1>0 DEF Ask, InFlight, LookedUpIsWhole, Types
<1>8. RefsExact'
  <2>1. \A d \in Callers : \/ stage'[d] = "hold" /\ stage[d] = "hold" /\ node'[d] = node[d]
                           \/ stage'[d] # "hold" /\ stage[d] # "hold"
    BY <1>0 DEF Ask, InFlight, Types
  <2>2. UNCHANGED <<refs, addrOf, managed>> /\ overtaken \subseteq overtaken'
        /\ \A b \in managed \ overtaken' : cache'[b] = cache[b]
    BY <1>0 DEF Ask, InFlight, Types, CacheOK
  <2> QED
    BY <1>0, <2>1, <2>2, RefsKept
<1> QED
  BY <1>1, <1>2, <1>3, <1>4, <1>5, <1>6, <1>7, <1>8 DEF IInv, Shape

(* The blobs are read into a new object.                                   *)
LEMMA LoadReadKeeps ==
  ASSUME IInv, NEW c \in Callers, LoadRead(c) PROVE IInv'
<1> USE OpsAssumption, DistinctAssumption
<1>0. Types /\ PlaceOK /\ ClaimOK /\ LockOK /\ CacheOK /\ PinnedIsReachable
      /\ LookedUpIsWhole /\ RefsExact
  BY DEF IInv, Shape
<1>1. Types'
  <2>1. at[c] \in Addr
    BY <1>0 DEF LoadRead, PlaceOK
  <2> QED
    BY <1>0, <2>1 DEF LoadRead, NewNode, Free, Types, Stages
<1>2. PlaceOK'
  BY <1>0 DEF LoadRead, NewNode, Free, Types, PlaceOK, Claims
<1>3. ClaimOK'
  BY <1>0 DEF LoadRead, NewNode, Free, Types, ClaimOK, Claims
<1>4. LockOK'
  BY <1>0 DEF LoadRead, NewNode, LockOK, Working
<1>5. CacheOK'
  BY <1>0 DEF LoadRead, NewNode, Free, CacheOK, Claims
<1>6. PinnedIsReachable'
  BY <1>0 DEF LoadRead, NewNode, PinnedIsReachable, Types
<1>7. LookedUpIsWhole'
  BY <1>0 DEF LoadRead, NewNode, LookedUpIsWhole
<1>8. RefsExact'
  <2>1. node[c] = Absent /\ stage[c] # "hold" /\ stage'[c] # "hold" /\ NewNode(c)
        /\ (\A d \in Callers : d # c => stage'[d] = stage[d]) /\ UNCHANGED <<cache, managed, overtaken>>
    BY <1>0 DEF LoadRead, Types, PlaceOK
  <2> QED
    BY <2>1, FreshCounts
<1> QED
  BY <1>1, <1>2, <1>3, <1>4, <1>5, <1>6, <1>7, <1>8 DEF IInv, Shape

(* The blobs are not there.                                                *)
LEMMA LoadMissesKeeps ==
  ASSUME IInv, NEW c \in Callers, LoadMisses(c) PROVE IInv'
<1> USE OpsAssumption, DistinctAssumption
<1>0. Types /\ PlaceOK /\ ClaimOK /\ LockOK /\ CacheOK /\ PinnedIsReachable
      /\ LookedUpIsWhole /\ RefsExact
  BY DEF IInv, Shape
<1>1. Types'
  BY <1>0 DEF LoadMisses, Types, Stages
<1>2. PlaceOK'
  BY <1>0 DEF LoadMisses, Types, PlaceOK, Claims
<1>3. ClaimOK'
  BY <1>0 DEF LoadMisses, Types, ClaimOK, Claims, Owning
<1>4. LockOK'
  BY <1>0 DEF LoadMisses, Types, LockOK, Working
<1>5. CacheOK'
  BY <1>0 DEF LoadMisses, Types, CacheOK, Claims
<1>6. PinnedIsReachable'
  BY <1>0 DEF LoadMisses, PinnedIsReachable
<1>7. LookedUpIsWhole'
  BY <1>0 DEF LoadMisses, LookedUpIsWhole
<1>8. RefsExact'
  <2>1. \A d \in Callers : \/ stage'[d] = "hold" /\ stage[d] = "hold" /\ node'[d] = node[d]
                           \/ stage'[d] # "hold" /\ stage[d] # "hold"
    BY <1>0 DEF LoadMisses, Types
  <2>2. UNCHANGED <<refs, addrOf, managed>> /\ overtaken \subseteq overtaken'
        /\ \A b \in managed \ overtaken' : cache'[b] = cache[b]
    BY <1>0 DEF LoadMisses, Types
  <2> QED
    BY <1>0, <2>1, <2>2, RefsKept
<1> QED
  BY <1>1, <1>2, <1>3, <1>4, <1>5, <1>6, <1>7, <1>8 DEF IInv, Shape

(* The entry is filled, and who waits looks again.                         *)
LEMMA LoadFillsKeeps ==
  ASSUME IInv, NEW c \in Callers, LoadFills(c) PROVE IInv'
<1> USE OpsAssumption, DistinctAssumption
<1>0. Types /\ PlaceOK /\ ClaimOK /\ LockOK /\ CacheOK /\ PinnedIsReachable
      /\ LookedUpIsWhole /\ RefsExact
  BY DEF IInv, Shape
<1>1. Types'
  BY <1>0 DEF LoadFills, Broadcast, Wake, Types, Stages
<1>2. PlaceOK'
  BY <1>0 DEF LoadFills, Broadcast, Wake, PlaceOK, Claims
<1>3. ClaimOK'
  BY <1>0 DEF LoadFills, Broadcast, Wake, Types, ClaimOK, Claims, Owning
<1>4. LockOK'
  BY <1>0 DEF LoadFills, Broadcast, Wake, Types, PlaceOK, ClaimOK, LockOK, Working, Claims
<1>5. CacheOK'
  BY <1>0 DEF LoadFills, Broadcast, Wake, Types, PlaceOK, ClaimOK, CacheOK, Claims, Owning
<1>6. PinnedIsReachable'
  BY <1>0 DEF LoadFills, Broadcast, Wake, PinnedIsReachable, Types, PlaceOK, ClaimOK, Claims
<1>7. LookedUpIsWhole'
  BY <1>0 DEF LoadFills, Broadcast, Wake, LookedUpIsWhole
<1>8. RefsExact'
  <2>1. \A d \in Callers : \/ stage'[d] = "hold" /\ stage[d] = "hold" /\ node'[d] = node[d]
                           \/ stage'[d] # "hold" /\ stage[d] # "hold"
    BY <1>0 DEF LoadFills, Broadcast, Wake
  <2>2. UNCHANGED <<refs, addrOf, managed>> /\ overtaken \subseteq overtaken'
        /\ \A b \in managed \ overtaken' : cache'[b] = cache[b]
    BY <1>0 DEF LoadFills, Broadcast, PlaceOK, CacheOK
  <2> QED
    BY <1>0, <2>1, <2>2, RefsKept
<1> QED
  BY <1>1, <1>2, <1>3, <1>4, <1>5, <1>6, <1>7, <1>8 DEF IInv, Shape

(* The entry is taken back, and who waits looks again.                     *)
LEMMA LoadFailsKeeps ==
  ASSUME IInv, NEW c \in Callers, LoadFails(c) PROVE IInv'
<1> USE OpsAssumption, DistinctAssumption
<1>0. Types /\ PlaceOK /\ ClaimOK /\ LockOK /\ CacheOK /\ PinnedIsReachable
      /\ LookedUpIsWhole /\ RefsExact
  BY DEF IInv, Shape
<1>1. Types'
  BY <1>0 DEF LoadFails, Forget, Remove, Broadcast, Wake, Done, Types, Stages
<1>2. PlaceOK'
  BY <1>0 DEF LoadFails, Forget, Broadcast, Wake, Done, Types, PlaceOK, Creating
<1>3. ClaimOK'
  BY <1>0 DEF LoadFails, Forget, Remove, Broadcast, Wake, Done, Types, ClaimOK, Claims, Owning
<1>4. LockOK'
  BY <1>0
  DEF LoadFails, Forget, Remove, Broadcast, Wake, Done, Types, ClaimOK, LockOK, Working, Claims
<1>5. CacheOK'
  BY <1>0 DEF LoadFails, Forget, Remove, Broadcast, Wake, Done, Types, ClaimOK, CacheOK, Claims
<1>6. PinnedIsReachable'
  BY <1>0
  DEF LoadFails, Forget, Remove, Broadcast, Wake, Done, PinnedIsReachable, Types, ClaimOK, Claims
<1>7. LookedUpIsWhole'
  BY <1>0 DEF LoadFails, Forget, Broadcast, Wake, Done, LookedUpIsWhole
<1>8. RefsExact'
  <2>1. \A d \in Callers : \/ stage'[d] = "hold" /\ stage[d] = "hold" /\ node'[d] = node[d]
                           \/ stage'[d] # "hold" /\ stage[d] # "hold"
    BY <1>0 DEF LoadFails, Forget, Broadcast, Wake, Done
  <2>2. UNCHANGED <<refs, addrOf, managed>> /\ overtaken \subseteq overtaken'
        /\ \A b \in managed \ overtaken' : cache'[b] = cache[b]
    BY <1>0 DEF LoadFails, Forget, Remove, ClaimOK, PlaceOK, CacheOK, Claims
  <2> QED
    BY <1>0, <2>1, <2>2, RefsKept
<1> QED
  BY <1>1, <1>2, <1>3, <1>4, <1>5, <1>6, <1>7, <1>8 DEF IInv, Shape

(* A node is made, under the lock of the tree.                             *)
LEMMA CreateBlobsKeeps ==
  ASSUME IInv, NEW c \in Callers, CreateBlobs(c) PROVE IInv'
<1> USE OpsAssumption, DistinctAssumption
<1>0. Types /\ PlaceOK /\ ClaimOK /\ LockOK /\ CacheOK /\ PinnedIsReachable
      /\ LookedUpIsWhole /\ RefsExact
  BY DEF IInv, Shape
<1>1. Types'
  <2>1. at[c] \in Addr
    BY <1>0 DEF CreateBlobs, PlaceOK
  <2> QED
    BY <1>0, <2>1 DEF CreateBlobs, NewNode, Free, Types, Stages
<1>2. PlaceOK'
  BY <1>0 DEF CreateBlobs, NewNode, Free, Types, PlaceOK, Claims
<1>3. ClaimOK'
  BY <1>0 DEF CreateBlobs, NewNode, Free, Types, ClaimOK, Claims
<1>4. LockOK'
  BY <1>0 DEF CreateBlobs, NewNode, LockOK, Working
<1>5. CacheOK'
  BY <1>0 DEF CreateBlobs, NewNode, Free, CacheOK, Claims
<1>6. PinnedIsReachable'
  BY <1>0 DEF CreateBlobs, NewNode, PinnedIsReachable, Types
<1>7. LookedUpIsWhole'
  BY <1>0 DEF CreateBlobs, NewNode, LookedUpIsWhole
<1>8. RefsExact'
  <2>1. node[c] = Absent /\ stage[c] # "hold" /\ stage'[c] # "hold" /\ NewNode(c)
        /\ (\A d \in Callers : d # c => stage'[d] = stage[d]) /\ UNCHANGED <<cache, managed, overtaken>>
    BY <1>0 DEF CreateBlobs, Types, PlaceOK
  <2> QED
    BY <2>1, FreshCounts
<1> QED
  BY <1>1, <1>2, <1>3, <1>4, <1>5, <1>6, <1>7, <1>8 DEF IInv, Shape

(* The node enters the cache, or gives way to the one there.               *)
LEMMA CreateInstallsKeeps ==
  ASSUME IInv, NEW c \in Callers, CreateInstalls(c) PROVE IInv'
<1> USE OpsAssumption, DistinctAssumption
<1>0. Types /\ PlaceOK /\ ClaimOK /\ LockOK /\ CacheOK /\ PinnedIsReachable
      /\ LookedUpIsWhole /\ RefsExact
  BY DEF IInv, Shape
<1>a. at[c] \in Addr /\ stage[c] = "created" /\ node[c] \in Object /\ addrOf[node[c]] = at[c]
  BY <1>0 DEF CreateInstalls, PlaceOK
<1>b. /\ overtaken \subseteq overtaken' /\ overtaken' \subseteq Addr
      /\ cache[at[c]] \in Callers => at[c] \in overtaken'
  BY <1>0, <1>a DEF CreateInstalls, Claimed, Types
<1>1. Types'
  BY <1>0, <1>a, <1>b DEF CreateInstalls, GivenUp, Types, Stages
<1>2. PlaceOK'
  <2>1. /\ stage[c] = "created" /\ stage'[c] = "got" /\ UNCHANGED <<addrOf, at, op>>
        /\ \/ cache[at[c]] \in Object /\ node'[c] = cache[at[c]]
           \/ node'[c] = node[c]
    BY <1>0 DEF CreateInstalls, Types
  <2>2. \A d \in Callers : d # c => stage'[d] = stage[d] /\ node'[d] = node[d]
    BY <1>0 DEF CreateInstalls, Types
  <2>3. at[c] \in Addr
    BY <1>0, <2>1 DEF PlaceOK
  <2> QED
    BY <1>0, <2>1, <2>2, <2>3 DEF PlaceOK, CacheOK, Claims
<1>3. ClaimOK'
  <2>1. \A d \in Callers : stage'[d] \in Claims => stage[d] \in Claims /\ d # c
    BY <1>0 DEF CreateInstalls, Types, Claims
  <2>2. ASSUME NEW d \in Callers, stage[d] \in Claims, at[d] \notin overtaken'
        PROVE  cache'[at[d]] = d
    <3>1. at[d] \notin overtaken /\ cache[at[d]] = d /\ at[d] # at[c] /\ at[d] \in Addr
      BY <1>0, <1>b, <2>2 DEF ClaimOK, PlaceOK, Claims
    <3> QED
      BY <1>0, <1>a, <3>1 DEF CreateInstalls, Types
  <2>3. \A d \in Callers : stage'[d] \in Owning =>
          /\ node'[d] \in pinned'
          /\ \A a \in Addr : cache'[a] # node'[d]
          /\ \A f \in Callers : f # d => node'[f] # node'[d]
    BY <1>0, <1>a DEF CreateInstalls, GivenUp, Types, PlaceOK, ClaimOK, Owning
  <2> QED
    BY <2>1, <2>2, <2>3 DEF ClaimOK, CreateInstalls
<1>4. LockOK'
  BY <1>0 DEF CreateInstalls, GivenUp, Types, PlaceOK, LockOK, Working
<1>5. CacheOK'
  BY <1>0 DEF CreateInstalls, GivenUp, Types, PlaceOK, ClaimOK, CacheOK, Owning
<1>6. PinnedIsReachable'
  <2>1. \A n \in pinned : n \in Object /\ addrOf[n] \in Addr
    BY <1>0 DEF Types
  <2>2. stage[c] = "created" /\ node[c] \in Object /\ addrOf[node[c]] = at[c] /\ at[c] \in Addr
    BY <1>0 DEF CreateInstalls, PlaceOK
  <2>3. \A d \in Callers : d # c => stage'[d] = stage[d] /\ node'[d] = node[d]
    BY <1>0 DEF CreateInstalls, Types
  <2>4. CASE cache[at[c]] \in Object
    <3>1. UNCHANGED <<addrOf, cache>> /\ pinned' = pinned \ {node[c]}
      BY <2>4 DEF CreateInstalls, GivenUp
    <3> QED
      BY <1>0, <1>b, <2>1, <2>2, <2>3, <3>1 DEF PinnedIsReachable
  <2>5. CASE cache[at[c]] \notin Object
    <3>1. UNCHANGED <<addrOf, pinned>> /\ cache' = [cache EXCEPT ![at[c]] = node[c]]
      BY <2>5 DEF CreateInstalls
    <3>2. \A b \in Addr : cache'[b] = IF b = at[c] THEN node[c] ELSE cache[b]
      BY <1>0, <3>1 DEF Types
    <3> QED
      BY <1>0, <1>b, <2>1, <2>2, <2>3, <2>5, <3>1, <3>2 DEF PinnedIsReachable
  <2> QED
    BY <2>4, <2>5
<1>7. LookedUpIsWhole'
  BY <1>0 DEF CreateInstalls, GivenUp, LookedUpIsWhole, Types, ClaimOK, Owning
<1>8. RefsExact'
  <2>1. \A d \in Callers : \/ stage'[d] = "hold" /\ stage[d] = "hold" /\ node'[d] = node[d]
                           \/ stage'[d] # "hold" /\ stage[d] # "hold"
    BY <1>0 DEF CreateInstalls, GivenUp, Types
  <2>2. UNCHANGED <<refs, addrOf, managed>> /\ overtaken \subseteq overtaken'
        /\ \A b \in managed \ overtaken' : cache'[b] = cache[b]
    BY <1>0 DEF CreateInstalls, GivenUp, Types, CacheOK
  <2> QED
    BY <1>0, <2>1, <2>2, RefsKept
<1> QED
  BY <1>1, <1>2, <1>3, <1>4, <1>5, <1>6, <1>7, <1>8 DEF IInv, Shape

(* A reference is taken.                                                   *)
LEMMA TakeKeeps ==
  ASSUME IInv, NEW c \in Callers, Take(c) PROVE IInv'
<1> USE OpsAssumption, DistinctAssumption
<1>0. Types /\ PlaceOK /\ ClaimOK /\ LockOK /\ CacheOK /\ PinnedIsReachable
      /\ LookedUpIsWhole /\ RefsExact
  BY DEF IInv, Shape
<1>1. Types'
  <2>1. node[c] \in Object /\ refs[node[c]] \in Int /\ at[c] \in Addr
    BY <1>0 DEF Take, Types, PlaceOK
  <2> QED
    BY <1>0, <2>1 DEF Take, Types, Stages
<1>2. PlaceOK'
  BY <1>0 DEF Take, Types, PlaceOK, Claims
<1>3. ClaimOK'
  BY <1>0 DEF Take, Types, ClaimOK, Claims, Owning
<1>4. LockOK'
  BY <1>0 DEF Take, Types, LockOK, Working
<1>5. CacheOK'
  BY <1>0 DEF Take, Types, CacheOK, Claims
<1>6. PinnedIsReachable'
  BY <1>0 DEF Take, PinnedIsReachable
<1>7. LookedUpIsWhole'
  BY <1>0 DEF Take, LookedUpIsWhole, PlaceOK, LockOK, CacheOK, Unlocked
<1>8. RefsExact'
  <2> DEFINE n == node[c]
  <2>1. n \in Object /\ stage[c] = "got"
    BY <1>0 DEF Take, PlaceOK
  <2>2. \A o \in Object : refs'[o] = IF o = n THEN refs[o] + 1 ELSE refs[o]
    BY <1>0, <2>1 DEF Take, Types
  <2>3. \A o \in Object : Holders(o)' = IF o = n THEN Holders(o) \union {c} ELSE Holders(o)
    BY <1>0, <2>1 DEF Take, Holders, Types
  <2>4. InTree' = InTree /\ UNCHANGED <<addrOf, overtaken>>
    BY DEF Take, InTree
  <2>5. c \notin Holders(n)
    BY <2>1 DEF Holders
  <2>6. Cardinality(Holders(n) \union {c}) = Cardinality(Holders(n)) + 1
    BY <2>5, HoldersFinite, FS_AddElement
  <2>7. \A o \in Object : Cardinality(Holders(o)) \in Nat
    BY HoldersFinite
  <2>8. ASSUME NEW o \in Object, addrOf[o] \notin overtaken
        PROVE  refs'[o] = Cardinality(Holders(o)') + (IF o \in InTree' THEN 1 ELSE 0)
    <3>1. refs[o] = Cardinality(Holders(o)) + (IF o \in InTree THEN 1 ELSE 0)
      BY <1>0, <2>8 DEF RefsExact, CountOf
    <3>2. CASE o = n
      <4>1. Holders(o)' = Holders(n) \union {c}
        BY <2>3, <3>2
      <4>2. Cardinality(Holders(o)') = Cardinality(Holders(n)) + 1
        BY <2>6, <4>1
      <4> QED
        BY <2>2, <2>4, <2>7, <3>1, <3>2, <4>2
    <3>3. CASE o # n
      BY <2>2, <2>3, <2>4, <3>1, <3>3
    <3> QED
      BY <3>2, <3>3
  <2> QED
    BY <2>4, <2>8 DEF RefsExact, CountOf
<1> QED
  BY <1>1, <1>2, <1>3, <1>4, <1>5, <1>6, <1>7, <1>8 DEF IInv, Shape

(* A reference is given back.                                              *)
LEMMA ReleaseKeeps ==
  ASSUME IInv, NEW c \in Callers, Release(c) PROVE IInv'
<1> USE OpsAssumption, DistinctAssumption
<1>0. Types /\ PlaceOK /\ ClaimOK /\ LockOK /\ CacheOK /\ PinnedIsReachable
      /\ LookedUpIsWhole /\ RefsExact
  BY DEF IInv, Shape
<1>1. Types'
  <2>1. node[c] \in Object /\ refs[node[c]] \in Int /\ at[c] \in Addr
    BY <1>0 DEF Release, Types, PlaceOK
  <2> QED
    BY <1>0, <2>1 DEF Release, Done, Types, Stages
<1>2. PlaceOK'
  BY <1>0 DEF Release, Done, Types, PlaceOK, Creating
<1>3. ClaimOK'
  BY <1>0 DEF Release, Done, PlaceOK, ClaimOK, Claims, Owning
<1>4. LockOK'
  BY <1>0 DEF Release, Done, LockOK, Working
<1>5. CacheOK'
  BY <1>0 DEF Release, Done, CacheOK, Claims
<1>6. PinnedIsReachable'
  BY <1>0 DEF Release, Done, PinnedIsReachable
<1>7. LookedUpIsWhole'
  BY <1>0 DEF Release, Done, LookedUpIsWhole, Types
<1>8. RefsExact'
  <2> DEFINE n == node[c]
  <2>1. n \in Object /\ stage[c] = "hold"
    BY <1>0 DEF Release, PlaceOK
  <2>2. \A o \in Object : refs'[o] = IF o = n THEN refs[o] - 1 ELSE refs[o]
    BY <1>0, <2>1 DEF Release, Done, Types
  <2>3. \A o \in Object : Holders(o)' = IF o = n THEN Holders(o) \ {c} ELSE Holders(o)
    BY <1>0, <2>1 DEF Release, Done, Holders, Types
  <2>4. InTree' = InTree /\ UNCHANGED <<addrOf, overtaken>>
    BY DEF Release, InTree
  <2>5. c \in Holders(n)
    BY <2>1 DEF Holders
  <2>6. Cardinality(Holders(n) \ {c}) = Cardinality(Holders(n)) - 1
    BY <2>5, HoldersFinite, FS_RemoveElement
  <2>7. \A o \in Object : Cardinality(Holders(o)) \in Nat
    BY HoldersFinite
  <2>8. ASSUME NEW o \in Object, addrOf[o] \notin overtaken
        PROVE  refs'[o] = Cardinality(Holders(o)') + (IF o \in InTree' THEN 1 ELSE 0)
    <3>1. refs[o] = Cardinality(Holders(o)) + (IF o \in InTree THEN 1 ELSE 0)
      BY <1>0, <2>8 DEF RefsExact, CountOf
    <3>2. CASE o = n
      <4>1. Holders(o)' = Holders(n) \ {c}
        BY <2>3, <3>2
      <4>2. Cardinality(Holders(o)') = Cardinality(Holders(n)) - 1
        BY <2>6, <4>1
      <4> QED
        BY <2>2, <2>4, <2>7, <3>1, <3>2, <4>2
    <3>3. CASE o # n
      BY <2>2, <2>3, <2>4, <3>1, <3>3
    <3> QED
      BY <3>2, <3>3
  <2> QED
    BY <2>4, <2>8 DEF RefsExact, CountOf
<1> QED
  BY <1>1, <1>2, <1>3, <1>4, <1>5, <1>6, <1>7, <1>8 DEF IInv, Shape

(* The first count of an address is one of its node.                       *)
LEMMA LinkNodeKeeps ==
  ASSUME IInv, NEW c \in Callers, LinkNode(c) PROVE IInv'
<1> USE OpsAssumption, DistinctAssumption
<1>0. Types /\ PlaceOK /\ ClaimOK /\ LockOK /\ CacheOK /\ PinnedIsReachable
      /\ LookedUpIsWhole /\ RefsExact
  BY DEF IInv, Shape
<1>1. Types'
  <2>1. node[c] \in Object /\ refs[node[c]] \in Int /\ at[c] \in Addr
    BY <1>0 DEF LinkNode, Types, PlaceOK
  <2> QED
    BY <1>0, <2>1 DEF LinkNode, Done, Types, Stages
<1>2. PlaceOK'
  BY <1>0 DEF LinkNode, Done, Types, PlaceOK, Creating
<1>3. ClaimOK'
  BY <1>0 DEF LinkNode, Done, PlaceOK, ClaimOK, Claims, Owning
<1>4. LockOK'
  BY <1>0 DEF LinkNode, Done, Types, LockOK, Working
<1>5. CacheOK'
  <2>1. /\ UNCHANGED <<cache, addrOf, pinned, overtaken>> /\ managed' = managed \union {at[c]}
        /\ at[c] \notin overtaken => cache[at[c]] \in Object
    BY <1>0 DEF LinkNode, PlaceOK, LockOK, Unlocked
  <2>2. \A d \in Callers : stage[d] \in Claims => stage'[d] = stage[d] /\ at'[d] = at[d]
    BY <1>0 DEF LinkNode, Done, Types, Claims
  <2> QED
    BY <1>0, <2>1, <2>2 DEF CacheOK
<1>6. PinnedIsReachable'
  BY <1>0 DEF LinkNode, Done, PinnedIsReachable
<1>7. LookedUpIsWhole'
  BY <1>0 DEF LinkNode, Done, LookedUpIsWhole
<1>8. RefsExact'
  <2> DEFINE n == node[c]
  <2>1. n \in Object /\ at[c] \in Addr /\ addrOf[n] = at[c] /\ UNCHANGED <<addrOf, overtaken>>
    BY <1>0 DEF LinkNode, PlaceOK
  <2>2. \A o : Holders(o)' = Holders(o)
    BY <1>0 DEF LinkNode, Done, Holders
  <2>3. \A o \in Object : refs'[o] = IF o = n /\ at[c] \notin managed THEN refs[o] + 1 ELSE refs[o]
    BY <1>0, <2>1 DEF LinkNode, FirstCount, Types
  <2>4. CASE at[c] \in overtaken
    <3>1. \A o \in Object : addrOf[o] \notin overtaken =>
            o # n /\ addrOf[o] # at[c] /\ (o \in InTree' <=> o \in InTree)
      BY <2>1, <2>4 DEF LinkNode, InTree
    <3> QED
      BY <1>0, <2>1, <2>2, <2>3, <3>1 DEF RefsExact, CountOf
  <2>5. CASE at[c] \notin overtaken
    <3>1. n = cache[at[c]]
      BY <1>0, <2>5 DEF LinkNode, LockOK, Unlocked
    <3>2. InTree' = InTree \union {n}
      BY <2>1, <3>1 DEF LinkNode, InTree
    <3>3. at[c] \in managed <=> n \in InTree
      BY <2>1, <3>1 DEF InTree
    <3>4. \A o \in Object : Cardinality(Holders(o)) \in Nat
      BY HoldersFinite
    <3> QED
      BY <1>0, <2>1, <2>2, <2>3, <3>2, <3>3, <3>4 DEF RefsExact, CountOf
  <2> QED
    BY <2>4, <2>5
<1> QED
  BY <1>1, <1>2, <1>3, <1>4, <1>5, <1>6, <1>7, <1>8 DEF IInv, Shape

(* The last count of an address goes.                                      *)
LEMMA UnlinkNodeKeeps ==
  ASSUME IInv, NEW c \in Callers, UnlinkNode(c) PROVE IInv'
<1> USE OpsAssumption, DistinctAssumption
<1>0. Types /\ PlaceOK /\ ClaimOK /\ LockOK /\ CacheOK /\ PinnedIsReachable
      /\ LookedUpIsWhole /\ RefsExact
  BY DEF IInv, Shape
<1>1. Types'
  <2>1. node[c] \in Object /\ refs[node[c]] \in Int /\ at[c] \in Addr
    BY <1>0 DEF UnlinkNode, Types, PlaceOK
  <2> QED
    BY <1>0, <2>1 DEF UnlinkNode, Done, Types, Stages
<1>2. PlaceOK'
  BY <1>0 DEF UnlinkNode, Done, Types, PlaceOK, Creating
<1>3. ClaimOK'
  BY <1>0 DEF UnlinkNode, Done, PlaceOK, ClaimOK, Claims, Owning
<1>4. LockOK'
  BY <1>0 DEF UnlinkNode, Done, Types, LockOK, Working, Unlocked, Operations
<1>5. CacheOK'
  BY <1>0 DEF UnlinkNode, Done, CacheOK, Claims
<1>6. PinnedIsReachable'
  BY <1>0 DEF UnlinkNode, Done, PinnedIsReachable
<1>7. LookedUpIsWhole'
  BY <1>0 DEF UnlinkNode, Done, LookedUpIsWhole
<1>8. RefsExact'
  <2> DEFINE n == node[c]
  <2>1. /\ n \in Object /\ at[c] \in Addr /\ addrOf[n] = at[c] /\ at[c] \in managed
        /\ UNCHANGED <<addrOf, overtaken>>
    BY <1>0 DEF UnlinkNode, PlaceOK, LockOK, Working
  <2>2. \A o : Holders(o)' = Holders(o)
    BY <1>0 DEF UnlinkNode, Done, Holders
  <2>3. \A o \in Object : refs'[o] = IF o = n THEN refs[o] - 1 ELSE refs[o]
    BY <1>0, <2>1 DEF UnlinkNode, Types
  <2>4. CASE at[c] \in overtaken
    <3>1. \A o \in Object : addrOf[o] \notin overtaken =>
            o # n /\ addrOf[o] # at[c] /\ (o \in InTree' <=> o \in InTree)
      BY <2>1, <2>4 DEF UnlinkNode, InTree
    <3> QED
      BY <1>0, <2>1, <2>2, <2>3, <3>1 DEF RefsExact, CountOf
  <2>5. CASE at[c] \notin overtaken
    <3>1. n = cache[at[c]]
      BY <1>0, <2>5 DEF UnlinkNode, LockOK, Unlocked
    <3>2. InTree' = InTree \ {n} /\ n \in InTree
      BY <2>1, <3>1 DEF UnlinkNode, InTree
    <3>3. \A o \in Object : Cardinality(Holders(o)) \in Nat
      BY HoldersFinite
    <3> QED
      BY <1>0, <2>1, <2>2, <2>3, <3>2, <3>3 DEF RefsExact, CountOf
  <2> QED
    BY <2>4, <2>5
<1> QED
  BY <1>1, <1>2, <1>3, <1>4, <1>5, <1>6, <1>7, <1>8 DEF IInv, Shape

(* Objects without a count are dropped; nobody is in the tree then.        *)
LEMMA CleanupKeeps ==
  ASSUME IInv, Cleanup PROVE IInv'
<1> USE OpsAssumption, DistinctAssumption
<1>0. Types /\ PlaceOK /\ ClaimOK /\ LockOK /\ CacheOK /\ PinnedIsReachable
      /\ LookedUpIsWhole /\ RefsExact
  BY DEF IInv, Shape
<1>a. /\ UNCHANGED <<addrOf, refs, managed, op, at, stage, node, overtaken>>
      /\ pinned' = pinned \ Dropped
      /\ \A a \in Addr : cache'[a] = IF cache[a] \in Dropped THEN Absent ELSE cache[a]
  BY DEF Cleanup, caller
<1>b. \A o \in Dropped :
        /\ o \in Object /\ (\E a \in Addr : cache[a] = o)
        /\ addrOf[o] \notin overtaken =>
             o \notin InTree /\ \A c \in Callers : stage[c] = "hold" => node[c] # o
  BY Counted DEF Dropped, Unreferenced, Holders
<1>c. \A c \in Callers : Working(c) => op[c] \in Unlocked
  BY <1>0 DEF Cleanup, Writing, Reading, PlaceOK, Working, Operations
<1>d. \A b \in managed \ overtaken : b \in Addr /\ cache'[b] = cache[b]
  BY <1>0, <1>a, <1>b DEF InTree, Types, CacheOK
<1>1. Types'
  BY <1>0, <1>a DEF Cleanup, Types
<1>2. PlaceOK'
  BY <1>0, <1>a DEF PlaceOK
<1>3. ClaimOK'
  BY <1>0, <1>a, <1>b DEF ClaimOK, PlaceOK, Claims, Owning
<1>4. LockOK'
  BY <1>0, <1>a, <1>c DEF LockOK, Working
<1>5. CacheOK'
  BY <1>0, <1>a, <1>b, <1>d DEF CacheOK
<1>6. PinnedIsReachable'
  <2>1. \A n \in pinned : addrOf[n] \in Addr
    BY <1>0 DEF Types
  <2> QED
    BY <1>0, <1>a, <2>1 DEF PinnedIsReachable
<1>7. LookedUpIsWhole'
  <2>1. \A c \in Callers : stage[c] = "hold" => node[c] \in Object /\ addrOf[node[c]] = at[c]
    BY <1>0 DEF PlaceOK
  <2> QED
    BY <1>0, <1>a, <1>b, <2>1 DEF LookedUpIsWhole
<1>8. RefsExact'
  BY <1>0, <1>a, <1>d, RefsKept
<1> QED
  BY <1>1, <1>2, <1>3, <1>4, <1>5, <1>6, <1>7, <1>8 DEF IInv, Shape

LEMMA StutterKeeps == ASSUME IInv, UNCHANGED vars PROVE IInv'
  BY DEF IInv, Shape, vars, caller, Types, PlaceOK, ClaimOK, LockOK, Working, CacheOK,
         PinnedIsReachable, LookedUpIsWhole, RefsExact, CountOf, Holders, InTree
-----------------------------------------------------------------------------
LEMMA StepKeeps == ASSUME IInv, [Next]_vars PROVE IInv'
<1>1. ASSUME NEW a \in Addr, Arrive(a) \/ Vanish(a) PROVE IInv'
  BY <1>1, ArriveKeeps, VanishKeeps
<1>2. ASSUME NEW c \in Callers, NEW a \in Addr, NEW o \in Ops[a],
         Start(c, o, a)
  PROVE  IInv'
  BY <1>2, StartKeeps
<1>3. ASSUME NEW c \in Callers, Loading(c) PROVE IInv'
  BY <1>3, AskKeeps, LoadReadKeeps, LoadMissesKeeps, LoadFillsKeeps, LoadFailsKeeps DEF Loading
<1>4. ASSUME NEW c \in Callers, CreateBlobs(c) \/ CreateInstalls(c) PROVE IInv'
  BY <1>4, CreateBlobsKeeps, CreateInstallsKeeps
<1>5. ASSUME NEW c \in Callers, Take(c) \/ Release(c) \/ LinkNode(c) \/ UnlinkNode(c) PROVE IInv'
  BY <1>5, TakeKeeps, ReleaseKeeps, LinkNodeKeeps, UnlinkNodeKeeps
<1>6. ASSUME Cleanup PROVE IInv'
  BY <1>6, CleanupKeeps
<1> QED
  BY <1>1, <1>2, <1>3, <1>4, <1>5, <1>6, StutterKeeps DEF Next

(* One load of an address at a time, every object with references in the   *)
(* cache or on its way there, and blobs for what a lookup under RLockTree  *)
(* found, of every address where CreateTreeNode has replaced no entry in   *)
(* flight; and of all of them a loader for every entry in flight. For any  *)
(* callers, addresses and objects, and whatever they do at each address.   *)
THEOREM NodesStaySound == Spec => []NodesAreSound
<1>1. IInv /\ [Next]_vars => IInv'
  BY StepKeeps
<1>2. IInv => NodesAreSound
  <2> SUFFICES ASSUME IInv PROVE NodesAreSound
    OBVIOUS
  <2>1. LoadedOnce
    BY DEF IInv, Shape, ClaimOK, LoadedOnce, Claims
  <2>2. InFlightHasLoader
    BY DEF IInv, Shape, CacheOK, InFlightHasLoader, Claims
  <2> QED
    BY <2>1, <2>2 DEF IInv, Shape, NodesAreSound
<1> QED
  BY <1>1, <1>2, Initially, PTL DEF Spec

(* Neither assertion ends the server, unless CreateTreeNode has replaced   *)
(* an entry in flight of the address: cleanup finds no uncounted node in   *)
(* the tree, and no count falls below zero. For any callers, addresses and *)
(* objects, and whatever they do at each address.                          *)
THEOREM NothingBecomesFatal == Spec => []NothingIsFatal
<1>1. IInv /\ [Next]_vars => IInv'
  BY StepKeeps
<1>2. IInv => NothingIsFatal
  <2> SUFFICES ASSUME IInv PROVE NothingIsFatal
    OBVIOUS
  <2>1. CleanupFindsItsNodes
    <3> SUFFICES ASSUME NEW a \in (Addr \intersect managed) \ overtaken, cache[a] \in Dropped
                 PROVE  FALSE
      BY DEF CleanupFindsItsNodes
    <3>1. cache[a] \in Object /\ addrOf[cache[a]] = a /\ cache[a] \in InTree
      BY DEF Dropped, InTree, IInv, Shape, CacheOK
    <3> QED
      BY <3>1, Counted DEF Dropped, Unreferenced
  <2>2. ReleaseNotNegative
    <3> SUFFICES ASSUME NEW o \in Object, addrOf[o] \notin overtaken PROVE refs[o] >= 0
      BY DEF ReleaseNotNegative
    <3>1. Cardinality(Holders(o)) \in Nat
      BY HoldersFinite
    <3> QED
      BY <3>1 DEF IInv, RefsExact, CountOf
  <2> QED
    BY <2>1, <2>2 DEF NothingIsFatal
<1> QED
  BY <1>1, <1>2, Initially, PTL DEF Spec
=============================================================================
