-------------------------- MODULE DenseRefs_proofs --------------------------
(***************************************************************************)
(* Theorems about DenseRefs, for every universe of trees and every set of  *)
(* readers.                                                                *)
(*                                                                         *)
(* The inductive invariant says what the call stack of a walk looks like   *)
(* (a path down the tree: ranks fall, so no node is on it twice), that     *)
(* counts are names at every step, and, for the sake of a rollback, that   *)
(* what is not in the list of taken nodes was consistent before the walk.  *)
(***************************************************************************)
EXTENDS MCServer, FiniteSetTheorems, SequenceTheorems, TLAPS

(* Who holds treeMtx, and what for.                                        *)
LockOK ==
  /\ mode = "idle" <=> op = "none"
  /\ mode = "idle" => next = NoNode
  /\ mode # "idle" => next \in cached
  /\ mode = "idle" => taken = Nothing
  /\ mode \notin {"take", "release"} => stack = <<>>
  /\ origin = "new" => root = Empty
  /\ op = "link" => origin # "new"
  /\ op = "open" => origin = "new" /\ mode \in {"take", "taken", "undo"}
  /\ mode = "release" => stack # <<>>

(* The stack is a path of loaded nodes; each is entered by a name of the   *)
(* one below it that is not dealt with.                                    *)
StackOK ==
  /\ \A i \in 1..Len(stack) :
       /\ stack[i].node \in cached
       /\ stack[i].left \subseteq Names(stack[i].node)
       /\ mode = "take" => rc[stack[i].node] = 0
       /\ mode = "release" => rc[stack[i].node] = 1
  /\ \A i, j \in 1..Len(stack) : i < j => Rank[stack[j].node] < Rank[stack[i].node]
  /\ \A i \in 1..Len(stack) :
       IF i = 1
       THEN /\ stack[i].via = NoNode
            /\ stack[i].node = IF mode = "take" THEN next ELSE root
       ELSE /\ stack[i].via \in stack[i-1].left
            /\ stack[i].node = Child[stack[i-1].node][stack[i].via]

(* What was counted before the walk began.                                 *)
OldNamesOf(m) ==
  {e \in Node \X Name : /\ e[2] \in Names(e[1])
                        /\ rc[e[1]] > taken[e[1]]
                        /\ Child[e[1]][e[2]] = m}

UndoOK ==
  mode \in {"take", "undo"} =>
    \A n \in Node :
      /\ taken[n] <= rc[n]
      /\ rc[n] - taken[n] = Pins(n) + Cardinality(OldNamesOf(n))

CountedIsCached == \A n \in Node : rc[n] > 0 => n \in cached

IInv ==
  /\ TypeOK
  /\ LockOK
  /\ StackOK
  /\ CountsAreNames
  /\ UndoOK
  /\ NodeRefsExact
  /\ CountedIsCached
  /\ TreeStaysWhole
-----------------------------------------------------------------------------
(* Sets of names, and what one name more or less does to their size.       *)

LEMMA NamesFinite ==
  ASSUME NEW S \in SUBSET (Node \X Name)
  PROVE  IsFiniteSet(S) /\ Cardinality(S) \in Nat
<1>1. IsFiniteSet(Node \X Name)
  BY FiniteAssumption, FS_Product
<1> QED
  BY <1>1, FS_Subset, FS_CardinalityType

LEMMA NamesOfType ==
  ASSUME NEW m
  PROVE  NamesOf(m) \subseteq Node \X Name /\ OldNamesOf(m) \subseteq Node \X Name
BY DEF NamesOf, OldNamesOf

SameCountsBut(p, x) ==
  \A q \in Node, z \in Name :
    <<q, z>> # <<p, x>> => (Counts(q, z)' <=> Counts(q, z))

LEMMA NamesGain ==
  ASSUME NEW m \in Node, NEW p \in Node, NEW x \in Name, Child[p][x] = m,
         ~Counts(p, x), Counts(p, x)', SameCountsBut(p, x)
  PROVE  /\ Cardinality(NamesOf(m)') = Cardinality(NamesOf(m)) + 1
         /\ \A k \in Node \ {m} : NamesOf(k)' = NamesOf(k)
<1>1. NamesOf(m)' = NamesOf(m) \union {<<p, x>>}
  BY DEF NamesOf, SameCountsBut
<1>2. <<p, x>> \notin NamesOf(m)
  BY DEF NamesOf
<1>3. \A k \in Node \ {m} : NamesOf(k)' = NamesOf(k)
  BY DEF NamesOf, SameCountsBut
<1>4. IsFiniteSet(NamesOf(m))
  BY NamesFinite, NamesOfType
<1>5. Cardinality(NamesOf(m) \union {<<p, x>>}) = Cardinality(NamesOf(m)) + 1
  BY <1>2, <1>4, FS_AddElement
<1> QED
  BY <1>1, <1>3, <1>5

LEMMA NamesLose ==
  ASSUME NEW m \in Node, NEW p \in Node, NEW x \in Name, Child[p][x] = m,
         Counts(p, x), ~Counts(p, x)', SameCountsBut(p, x)
  PROVE  /\ Cardinality(NamesOf(m)') = Cardinality(NamesOf(m)) - 1
         /\ \A k \in Node \ {m} : NamesOf(k)' = NamesOf(k)
<1>1. NamesOf(m)' = NamesOf(m) \ {<<p, x>>}
  BY DEF NamesOf, SameCountsBut
<1>2. <<p, x>> \in NamesOf(m)
  BY DEF NamesOf
<1>3. \A k \in Node \ {m} : NamesOf(k)' = NamesOf(k)
  BY DEF NamesOf, SameCountsBut
<1>4. IsFiniteSet(NamesOf(m))
  BY NamesFinite, NamesOfType
<1>5. Cardinality(NamesOf(m) \ {<<p, x>>}) = Cardinality(NamesOf(m)) - 1
  BY <1>2, <1>4, FS_RemoveElement
<1> QED
  BY <1>1, <1>3, <1>5

LEMMA NamesSame ==
  ASSUME \A q \in Node, z \in Name : Counts(q, z)' <=> Counts(q, z)
  PROVE  \A k \in Node : NamesOf(k)' = NamesOf(k)
BY DEF NamesOf
-----------------------------------------------------------------------------
(* The call stack as a sequence.                                           *)

Frames == [node : Node, left : SUBSET Name, via : Name \union {NoNode}]

LEMMA FrameType ==
  ASSUME NEW n \in Node, NEW x \in Name \union {NoNode}
  PROVE  Frame(n, x) \in Frames
BY DEF Frame, Frames, Names

LEMMA WithoutProperties ==
  ASSUME NEW s \in Seq(Frames), NEW x
  PROVE  /\ s = <<>> => Without(s, x) = <<>>
         /\ s # <<>> =>
              /\ Without(s, x) \in Seq(Frames)
              /\ Without(s, x) # <<>>
              /\ Len(Without(s, x)) = Len(s)
              /\ \A i \in 1..Len(s) : i < Len(s) => Without(s, x)[i] = s[i]
              /\ Without(s, x)[Len(s)].node = s[Len(s)].node
              /\ Without(s, x)[Len(s)].via = s[Len(s)].via
              /\ Without(s, x)[Len(s)].left = s[Len(s)].left \ {x}
<1>1. CASE s = <<>>
  BY <1>1 DEF Without
<1>2. CASE s # <<>>
  <2> DEFINE l == Len(s)
             e == [s[l] EXCEPT !.left = s[l].left \ {x}]
  <2>1. l \in 1..Len(s) /\ l \in Nat \ {0}
    BY <1>2, EmptySeq
  <2>2. s[l] \in Frames
    BY <2>1, ElementOfSeq
  <2>3. e \in Frames
    BY <2>2 DEF Frames
  <2>4. Without(s, x) = [s EXCEPT ![l] = e]
    BY <1>2, <2>1 DEF Without
  <2>5. /\ [s EXCEPT ![l] = e] \in Seq(Frames)
        /\ Len([s EXCEPT ![l] = e]) = Len(s)
        /\ \A j \in 1..Len(s) : [s EXCEPT ![l] = e][j] = IF j = l THEN e ELSE s[j]
    BY <2>1, <2>3, ExceptSeq
  <2>6. e.node = s[l].node /\ e.via = s[l].via /\ e.left = s[l].left \ {x}
    BY <2>2 DEF Frames
  <2>7. [s EXCEPT ![l] = e] # <<>>
    BY <2>1, <2>5, EmptySeq
  <2> QED
    BY <1>2, <2>1, <2>4, <2>5, <2>6, <2>7
<1> QED
  BY <1>1, <1>2

LEMMA CallerProperties ==
  ASSUME stack \in Seq(Frames), stack # <<>>
  PROVE  /\ Len(stack) \in Nat \ {0}
         /\ Caller \in Seq(Frames)
         /\ Len(Caller) = Len(stack) - 1
         /\ \A i \in 1..(Len(stack) - 1) : Caller[i] = stack[i]
         /\ Caller = <<>> <=> Len(stack) = 1
<1>1. Len(stack) \in Nat \ {0}
  BY EmptySeq
<1>2. \A i \in 1..(Len(stack) - 1) : stack[i] \in Frames
  BY <1>1, ElementOfSeq
<1> DEFINE l == Len(stack)
           m == l - 1
           t == SubSeq(stack, 1, m)
<1>3. t \in Seq(Frames) /\ Len(t) = m /\ \A i \in 1..m : t[i] = stack[i]
  <2>1. m \in Nat /\ 1 \in Int /\ m \in Int
    BY <1>1
  <2>2. /\ t \in Seq(Frames)
        /\ Len(t) = IF 1 <= m THEN m - 1 + 1 ELSE 0
        /\ \A i \in 1..(m - 1 + 1) : t[i] = stack[1 + i - 1]
    BY <1>2, <2>1, SubSeqProperties
  <2> HIDE DEF m, t
  <2> QED
    BY <2>1, <2>2
<1>4. Caller = <<>> <=> Len(Caller) = 0
  BY <1>3, EmptySeq DEF Caller
<1> QED
  BY <1>1, <1>3, <1>4 DEF Caller
-----------------------------------------------------------------------------
(* What a call, a return inside a walk and the end of a node's call do to  *)
(* the stack and to the names that count.                                  *)

LEMMA TopFacts ==
  ASSUME TypeOK, StackOK, stack # <<>>
  PROVE  /\ Len(stack) \in Nat \ {0}
         /\ \A i \in 1..Len(stack) : stack[i] \in Frames
         /\ Top \in Frames
         /\ \A i \in 1..Len(stack) : Rank[stack[i].node] >= Rank[Top.node]
         /\ \A i \in 1..Len(stack) : i # Len(stack) => stack[i].node # Top.node
         /\ Running(Top.node) = {Len(stack)}
<1>1. stack \in Seq(Frames)
  BY DEF TypeOK, Frames
<1>2. Len(stack) \in Nat \ {0}
  BY <1>1, EmptySeq
<1>3. \A i \in 1..Len(stack) : stack[i] \in Frames
  BY <1>1, ElementOfSeq
<1>4. Top \in Frames
  BY <1>2, <1>3 DEF Top
<1>5. \A i \in 1..Len(stack) : i # Len(stack) => Rank[Top.node] < Rank[stack[i].node]
  BY <1>2 DEF StackOK, Top
<1>6. \A i \in 1..Len(stack) : Rank[stack[i].node] \in Nat
  BY <1>3, RankAssumption DEF Frames
<1>7. \A i \in 1..Len(stack) : i # Len(stack) => stack[i].node # Top.node
  BY <1>2, <1>5, <1>6 DEF Top
<1>8. \A i \in 1..Len(stack) : Rank[stack[i].node] >= Rank[Top.node]
  BY <1>2, <1>5, <1>6 DEF Top
<1>9. Running(Top.node) = {Len(stack)}
  BY <1>2, <1>7 DEF Running, Top
<1> QED
  BY <1>2, <1>3, <1>4, <1>7, <1>8, <1>9

LEMMA ChildFacts ==
  ASSUME TypeOK, StackOK, stack # <<>>, NEW x \in Top.left
  PROVE  /\ x \in Name
         /\ Child[Top.node][x] \in Node
         /\ Rank[Child[Top.node][x]] < Rank[Top.node]
         /\ Running(Child[Top.node][x]) = {}
         /\ \A i \in 1..Len(stack) : /\ stack[i].node # Child[Top.node][x]
                                     /\ Rank[Child[Top.node][x]] < Rank[stack[i].node]
<1>1. x \in Names(Top.node) /\ Top.node \in Node
  BY TopFacts DEF StackOK, Top, Frames
<1>2. /\ x \in Name
      /\ Child[Top.node][x] \in Node
      /\ Rank[Child[Top.node][x]] < Rank[Top.node]
  BY <1>1, ChildAssumption, RankAssumption DEF Names
<1>3. \A i \in 1..Len(stack) : Rank[Child[Top.node][x]] < Rank[stack[i].node]
  <2> SUFFICES ASSUME NEW i \in 1..Len(stack)
               PROVE  Rank[Child[Top.node][x]] < Rank[stack[i].node]
    OBVIOUS
  <2>1. stack[i].node \in Node
    BY TopFacts DEF Frames
  <2> QED
    BY <1>1, <1>2, <2>1, TopFacts, RankAssumption
<1>4. \A i \in 1..Len(stack) : stack[i].node # Child[Top.node][x]
  BY <1>2, <1>3, RankAssumption
<1> QED
  BY <1>2, <1>3, <1>4 DEF Running

LEMMA ReturnCounts ==
  ASSUME TypeOK, StackOK, stack # <<>>, NEW x \in Top.left,
         NEW t \in Node, t = Top.node,
         stack' = Without(stack, x), mode' = mode,
         mode \in {"take", "release"},
         \A q \in Node : rc'[q] > 0 <=> rc[q] > 0
  PROVE  /\ SameCountsBut(t, x)
         /\ mode = "take" => ~Counts(t, x) /\ Counts(t, x)'
         /\ mode = "release" => Counts(t, x) /\ ~Counts(t, x)'
<1>1. stack \in Seq(Frames)
  BY DEF TypeOK, Frames
<1>2. /\ Len(stack') = Len(stack)
      /\ \A i \in 1..Len(stack) : i # Len(stack) => stack'[i] = stack[i]
      /\ \A i \in 1..Len(stack) : stack'[i].node = stack[i].node
      /\ stack'[Len(stack)].left = Top.left \ {x}
  BY <1>1, WithoutProperties, TopFacts DEF Top
<1>3. \A q \in Node : Running(q)' = Running(q)
  BY <1>2 DEF Running
<1>4. Running(t) = {Len(stack)} /\ stack[Len(stack)] = Top
  BY TopFacts DEF Top
<1>5. x \in Names(t)
  BY TopFacts DEF StackOK, Top
<1>6. SameCountsBut(t, x)
  <2> SUFFICES ASSUME NEW q \in Node, NEW z \in Name, <<q, z>> # <<t, x>>
               PROVE  Counts(q, z)' <=> Counts(q, z)
    BY DEF SameCountsBut
  <2>1. CASE q = t
    BY <1>2, <1>3, <1>4, <2>1 DEF Counts, Top
  <2>2. CASE q # t
    <3>1. \A i \in Running(q) : stack'[i] = stack[i]
      BY <1>2, <2>2 DEF Running, Top
    <3> QED
      BY <1>3, <3>1 DEF Counts
  <2> QED
    BY <2>1, <2>2
<1>7. Counts(t, x) <=> mode = "release"
  BY <1>4, <1>5 DEF Counts
<1>8. Counts(t, x)' <=> mode # "release"
  BY <1>2, <1>3, <1>4, <1>5 DEF Counts
<1> QED
  BY <1>6, <1>7, <1>8

LEMMA ReturnStack ==
  ASSUME TypeOK, StackOK, stack # <<>>, NEW x \in Top.left,
         stack' = Without(stack, x), mode' = mode, next' = next, root' = root,
         mode \in {"take", "release"}, cached \subseteq cached',
         \A q \in Node : q # Child[Top.node][x] => rc'[q] = rc[q]
  PROVE  StackOK' /\ stack' \in Seq(Frames) /\ stack' # <<>>
<1>1. stack \in Seq(Frames)
  BY DEF TypeOK, Frames
<1>2. /\ Len(stack') = Len(stack)
      /\ Len(stack) \in Nat \ {0}
      /\ \A i \in 1..Len(stack) : i # Len(stack) => stack'[i] = stack[i]
      /\ \A i \in 1..Len(stack) : /\ stack'[i].node = stack[i].node
                                  /\ stack'[i].via = stack[i].via
      /\ stack'[Len(stack)].left = stack[Len(stack)].left \ {x}
      /\ stack' \in Seq(Frames)
      /\ stack' # <<>>
  BY <1>1, WithoutProperties, TopFacts
<1>3. \A i \in 1..Len(stack) :
        /\ stack'[i].left \subseteq stack[i].left
        /\ i # Len(stack) => stack'[i].left = stack[i].left
        /\ stack[i].node \in Node
        /\ rc'[stack[i].node] = rc[stack[i].node]
  BY <1>2, ChildFacts, TopFacts DEF Frames
<1>4. \A i \in 1..Len(stack') :
        /\ stack'[i].node \in cached'
        /\ stack'[i].left \subseteq Names(stack'[i].node)
        /\ mode' = "take" => rc'[stack'[i].node] = 0
        /\ mode' = "release" => rc'[stack'[i].node] = 1
  BY <1>2, <1>3 DEF StackOK
<1>5. \A i, j \in 1..Len(stack') : i < j => Rank[stack'[j].node] < Rank[stack'[i].node]
  BY <1>2 DEF StackOK
<1>6. ASSUME NEW i \in 1..Len(stack')
      PROVE  IF i = 1
             THEN /\ stack'[i].via = NoNode
                  /\ stack'[i].node = IF mode' = "take" THEN next' ELSE root'
             ELSE /\ stack'[i].via \in stack'[i-1].left
                  /\ stack'[i].node = Child[stack'[i-1].node][stack'[i].via]
  <2>1. CASE i = 1
    BY <1>2, <2>1 DEF StackOK
  <2>2. CASE i # 1
    <3>1. i - 1 \in 1..Len(stack) /\ i - 1 # Len(stack) /\ i \in 1..Len(stack)
      BY <1>2, <2>2
    <3> QED
      BY <1>2, <1>3, <2>2, <3>1 DEF StackOK
  <2> QED
    BY <2>1, <2>2
<1>7. StackOK'
  BY <1>4, <1>5, <1>6 DEF StackOK, Names
<1> QED
  BY <1>2, <1>7

LEMMA CallStack ==
  ASSUME TypeOK, StackOK, NEW n \in Node, NEW x \in Name \union {NoNode},
         stack' = Append(stack, Frame(n, x)), next' = next, root' = root, rc' = rc,
         \/ stack = <<>> /\ x = NoNode /\ n = (IF mode' = "take" THEN next ELSE root)
         \/ /\ stack # <<>>
            /\ x \in Top.left
            /\ n = Child[Top.node][x]
            /\ mode' = mode,
         mode' \in {"take", "release"}, cached \subseteq cached', n \in cached',
         mode' = "take" => rc[n] = 0, mode' = "release" => rc[n] = 1
  PROVE  /\ StackOK'
         /\ stack' \in Seq(Frames)
         /\ stack' # <<>>
         /\ \A q \in Node, z \in Name : Counts(q, z)' <=> Counts(q, z)
<1> DEFINE l == Len(stack)
<1>1. stack \in Seq(Frames) /\ l \in Nat
  BY LenProperties DEF TypeOK, Frames
<1>2. /\ Len(stack') = l + 1
      /\ \A i \in 1..l : stack'[i] = stack[i]
      /\ stack'[l + 1] = Frame(n, x)
      /\ stack' \in Seq(Frames)
      /\ stack' # <<>>
  BY <1>1, FrameType, AppendProperties
<1>3. /\ stack'[l + 1].node = n
      /\ stack'[l + 1].via = x
      /\ stack'[l + 1].left = Names(n)
  BY <1>2 DEF Frame
<1>4. stack = <<>> => l = 0
  OBVIOUS
<1>5. stack # <<>> => l \in Nat \ {0} /\ Top = stack[l]
  BY <1>1, EmptySeq DEF Top
<1>6. \A i \in 1..l : stack[i].node # n /\ Rank[n] < Rank[stack[i].node]
  BY <1>4, ChildFacts
<1>7. \A i \in 1..Len(stack') : i \in 1..l \/ i = l + 1
  BY <1>1, <1>2
<1>8. ASSUME NEW i \in 1..Len(stack')
      PROVE  /\ stack'[i].node \in cached'
             /\ stack'[i].left \subseteq Names(stack'[i].node)
             /\ mode' = "take" => rc'[stack'[i].node] = 0
             /\ mode' = "release" => rc'[stack'[i].node] = 1
  <2>1. CASE i \in 1..l
    <3>1. mode' = mode
      BY <1>4, <2>1
    <3> QED
      BY <1>2, <2>1, <3>1 DEF StackOK
  <2>2. CASE i = l + 1
    BY <1>3, <2>2
  <2> QED
    BY <1>7, <2>1, <2>2
<1>9. ASSUME NEW i \in 1..Len(stack'), NEW j \in 1..Len(stack'), i < j
      PROVE  Rank[stack'[j].node] < Rank[stack'[i].node]
  <2>1. i \in 1..l
    BY <1>1, <1>2, <1>7, <1>9
  <2>2. CASE j \in 1..l
    BY <1>2, <1>9, <2>1, <2>2 DEF StackOK
  <2>3. CASE j = l + 1
    BY <1>2, <1>3, <1>6, <2>1, <2>3
  <2> QED
    BY <1>7, <2>2, <2>3
<1>10. ASSUME NEW i \in 1..Len(stack')
       PROVE  IF i = 1
              THEN /\ stack'[i].via = NoNode
                   /\ stack'[i].node = IF mode' = "take" THEN next' ELSE root'
              ELSE /\ stack'[i].via \in stack'[i-1].left
                   /\ stack'[i].node = Child[stack'[i-1].node][stack'[i].via]
  <2>1. CASE i \in 1..l
    <3>1. mode' = mode /\ i \in 1..l
      BY <1>4, <2>1
    <3>2. CASE i = 1
      BY <1>2, <3>1, <3>2 DEF StackOK
    <3>3. CASE i # 1
      <4>1. i - 1 \in 1..l
        BY <1>1, <3>1, <3>3
      <4> QED
        BY <1>2, <3>1, <3>3, <4>1 DEF StackOK
    <3> QED
      BY <3>2, <3>3
  <2>2. CASE i = l + 1
    <3>1. CASE stack = <<>>
      BY <1>3, <1>4, <2>2, <3>1
    <3>2. CASE stack # <<>>
      <4>1. i # 1 /\ i - 1 = l /\ l \in 1..l
        BY <1>5, <2>2, <3>2
      <4> QED
        BY <1>2, <1>3, <1>5, <2>2, <3>2, <4>1
    <3> QED
      BY <3>1, <3>2
  <2> QED
    BY <1>7, <2>1, <2>2
<1>11. StackOK'
  BY <1>8, <1>9, <1>10 DEF StackOK, Names
<1>12. ASSUME NEW q \in Node, NEW z \in Name
       PROVE  Counts(q, z)' <=> Counts(q, z)
  <2>1. CASE q = n
    <3>1. Running(n) = {} /\ Running(n)' = {l + 1}
      BY <1>1, <1>2, <1>3, <1>6 DEF Running
    <3> QED
      BY <1>3, <2>1, <3>1 DEF Counts, Names
  <2>2. CASE q # n
    <3>1. Running(q)' = Running(q)
      BY <1>1, <1>2, <1>3, <1>7, <2>2 DEF Running
    <3>2. \A i \in Running(q) : stack'[i] = stack[i] /\ mode' = mode
      BY <1>2, <1>4 DEF Running
    <3> QED
      BY <3>1, <3>2 DEF Counts, Names
  <2> QED
    BY <2>1, <2>2
<1> QED
  BY <1>2, <1>11, <1>12

(* The end of the call for the node on top: its own names count as before, *)
(* the name it was called for changes sides.                               *)
LEMMA DoneStack ==
  ASSUME TypeOK, StackOK, stack # <<>>, Top.left = {},
         NEW t \in Node, t = Top.node, NEW c, NEW m,
         \/ mode = "take" /\ c = 1 /\ m = "taken"
         \/ mode = "release" /\ c = 0 /\ m = "released",
         stack' = Without(Caller, Top.via), rc' = [rc EXCEPT ![t] = c],
         mode' = (IF Caller = <<>> THEN m ELSE mode),
         next' = next, root' = root, cached \subseteq cached'
  PROVE  /\ StackOK'
         /\ stack' \in Seq(Frames)
         /\ stack' = <<>> <=> Caller = <<>>
         /\ Caller = <<>> =>
              /\ t = IF mode = "take" THEN next ELSE root
              /\ \A q \in Node, z \in Name : Counts(q, z)' <=> Counts(q, z)
         /\ Caller # <<>> =>
              \E p \in Node, x \in Name :
                /\ Child[p][x] = t
                /\ SameCountsBut(p, x)
                /\ mode = "take" => ~Counts(p, x) /\ Counts(p, x)'
                /\ mode = "release" => Counts(p, x) /\ ~Counts(p, x)'
<1> DEFINE l == Len(stack)
           k == l - 1
<1>1. stack \in Seq(Frames)
  BY DEF TypeOK, Frames
<1>2. /\ l \in Nat \ {0}
      /\ Caller \in Seq(Frames)
      /\ Len(Caller) = k
      /\ \A i \in 1..k : Caller[i] = stack[i]
      /\ Caller = <<>> <=> l = 1
  BY <1>1, CallerProperties
<1>3. /\ Top = stack[l]
      /\ l \in 1..l
      /\ Running(t) = {l}
      /\ \A i \in 1..l : stack[i] \in Frames /\ stack[i].node \in Node
      /\ \A i \in 1..k : stack[i].node # t
  BY <1>2, TopFacts DEF Top, Frames
<1>4. ASSUME NEW z \in Name
      PROVE  Counts(t, z) <=> z \in Names(t) /\ mode = "take"
  BY <1>3 DEF Counts
<1>5. \A q \in Node : rc'[q] = IF q = t THEN c ELSE rc[q]
  BY DEF TypeOK
<1>6. CASE Caller = <<>>
  <2>1. stack' = <<>> /\ l = 1 /\ Len(stack') = 0
    BY <1>2, <1>6, WithoutProperties, EmptySeq
  <2>2. t = IF mode = "take" THEN next ELSE root
    BY <1>3, <2>1 DEF StackOK
  <2>3. \A q \in Node : Running(q)' = {}
    BY <2>1 DEF Running
  <2>4. \A q \in Node : q # t => Running(q) = {}
    BY <1>3, <2>1 DEF Running
  <2>5. ASSUME NEW q \in Node, NEW z \in Name
        PROVE  Counts(q, z)' <=> Counts(q, z)
    <3>1. CASE q = t
      BY <1>4, <1>5, <2>3, <3>1 DEF Counts, Names
    <3>2. CASE q # t
      BY <1>5, <2>3, <2>4, <3>2 DEF Counts, Names
    <3> QED
      BY <3>1, <3>2
  <2>6. StackOK'
    BY <2>1 DEF StackOK
  <2> QED
    BY <1>6, <2>1, <2>2, <2>5, <2>6, EmptySeq
<1>7. CASE Caller # <<>>
  <2>1. k \in Nat \ {0} /\ k \in 1..l /\ k # l /\ mode' = mode
    BY <1>2, <1>7
  <2>2. PICK p \in Node : p = stack[k].node
    BY <1>3, <2>1
  <2>3. PICK x \in Name : /\ x = stack[l].via
                          /\ x \in stack[k].left
                          /\ x \in Names(p)
                          /\ Child[p][x] = t
    <3>1. l # 1 /\ l - 1 = k
      BY <1>2, <1>7
    <3>2. /\ stack[l].via \in stack[k].left
          /\ stack[l].node = Child[stack[k].node][stack[l].via]
          /\ stack[k].left \subseteq Names(stack[k].node)
      BY <1>3, <2>1, <3>1 DEF StackOK
    <3> QED
      BY <1>3, <2>2, <3>2 DEF Names
  <2>4. /\ Len(stack') = k
        /\ stack' \in Seq(Frames)
        /\ stack' # <<>>
        /\ \A i \in 1..k : i < k => stack'[i] = stack[i]
        /\ \A i \in 1..k : stack'[i].node = stack[i].node /\ stack'[i].via = stack[i].via
        /\ stack'[k].left = stack[k].left \ {x}
    <3>1. stack' = Without(Caller, x)
      BY <1>3, <2>3
    <3>2. /\ Len(stack') = k
          /\ stack' \in Seq(Frames)
          /\ stack' # <<>>
          /\ \A i \in 1..k : i < k => stack'[i] = Caller[i]
          /\ stack'[k].node = Caller[k].node
          /\ stack'[k].via = Caller[k].via
          /\ stack'[k].left = Caller[k].left \ {x}
      BY <1>2, <1>7, <3>1, WithoutProperties
    <3>3. \A i \in 1..k : Caller[i] = stack[i] /\ (i < k \/ i = k)
      BY <1>2, <2>1
    <3>4. k \in 1..k
      BY <2>1
    <3>5. stack'[k].node = stack[k].node /\ stack'[k].via = stack[k].via
      BY <3>2, <3>3, <3>4
    <3>6. \A i \in 1..k : i < k => stack'[i] = stack[i]
      BY <3>2, <3>3
    <3>7. \A i \in 1..k : stack'[i].node = stack[i].node /\ stack'[i].via = stack[i].via
      BY <3>3, <3>5, <3>6
    <3> QED
      BY <3>2, <3>3, <3>4, <3>6, <3>7
  <2>5. Running(t)' = {} /\ Running(p) = {k} /\ Running(p)' = {k} /\ p # t
    <3>1. ASSUME NEW i \in 1..l, i # k
          PROVE  stack[i].node # p
      <4>1. i < k \/ k < i
        BY <1>2, <2>1, <3>1
      <4>2. Rank[stack[i].node] # Rank[p]
        BY <1>3, <2>1, <2>2, <3>1, <4>1, RankAssumption DEF StackOK
      <4> QED
        BY <4>2
    <3>2. k \in 1..k /\ (\A i \in 1..k : i \in 1..l)
      BY <1>2, <2>1
    <3>3. Running(p) = {k}
      BY <2>1, <2>2, <3>1 DEF Running
    <3>4. Running(p)' = {k}
      <4>1. Running(p)' = {i \in 1..k : stack'[i].node = p}
        BY <2>4 DEF Running
      <4>2. \A i \in 1..k : stack'[i].node = p <=> i = k
        BY <2>2, <2>4, <3>1, <3>2
      <4> QED
        BY <3>2, <4>1, <4>2
    <3>5. Running(t)' = {}
      BY <1>3, <2>4 DEF Running
    <3>6. p # t
      BY <1>3, <2>2, <3>2
    <3> QED
      BY <3>3, <3>4, <3>5, <3>6
  <2>6. ASSUME NEW q \in Node, q # t, q # p
        PROVE  Running(q)' = Running(q) /\ \A i \in Running(q) : stack'[i] = stack[i]
    <3>1. Running(q)' = {i \in 1..k : stack'[i].node = q}
      BY <2>4 DEF Running
    <3>2. Running(q) = {i \in 1..k : stack[i].node = q}
      <4>1. \A i \in 1..l : i \in 1..k \/ i = l
        BY <1>2, <2>1
      <4>2. \A i \in 1..k : i \in 1..l
        BY <1>2, <2>1
      <4>3. stack[l].node # q
        BY <1>3, <2>6
      <4> QED
        BY <4>1, <4>2, <4>3 DEF Running
    <3>3. \A i \in 1..k : i < k \/ i = k
      BY <2>1
    <3>4. stack[k].node # q
      BY <2>2, <2>6
    <3> HIDE DEF k
    <3> QED
      BY <2>4, <3>1, <3>2, <3>3, <3>4
  <2>7. SameCountsBut(p, x)
    <3> SUFFICES ASSUME NEW q \in Node, NEW z \in Name, <<q, z>> # <<p, x>>
                 PROVE  Counts(q, z)' <=> Counts(q, z)
      BY DEF SameCountsBut
    <3>1. CASE q = t
      BY <1>4, <1>5, <2>5, <3>1 DEF Counts, Names
    <3>2. CASE q = p
      BY <2>1, <2>4, <2>5, <3>2 DEF Counts, Names
    <3>3. CASE q # t /\ q # p
      BY <1>5, <2>1, <2>6, <3>3 DEF Counts, Names
    <3> QED
      BY <3>1, <3>2, <3>3
  <2>8. Counts(p, x) <=> mode = "release"
    BY <2>3, <2>5 DEF Counts
  <2>9. Counts(p, x)' <=> mode # "release"
    BY <2>1, <2>3, <2>4, <2>5 DEF Counts, Names
  <2>10. \A i \in 1..k : /\ stack'[i].left \subseteq stack[i].left
                         /\ i # k => stack'[i].left = stack[i].left
                         /\ rc'[stack[i].node] = rc[stack[i].node]
    <3> SUFFICES ASSUME NEW i \in 1..k
                 PROVE  /\ stack'[i].left \subseteq stack[i].left
                        /\ i # k => stack'[i].left = stack[i].left
                        /\ rc'[stack[i].node] = rc[stack[i].node]
      OBVIOUS
    <3>1. i \in 1..l /\ (i < k \/ i = k)
      BY <1>2, <2>1
    <3>2. rc'[stack[i].node] = rc[stack[i].node]
      BY <1>3, <1>5, <3>1
    <3>3. CASE i < k
      BY <2>4, <3>2, <3>3
    <3>4. CASE i = k
      BY <2>4, <3>2, <3>4
    <3> QED
      BY <3>1, <3>3, <3>4
  <2>11. ASSUME NEW i \in 1..Len(stack')
         PROVE  /\ stack'[i].node \in cached'
                /\ stack'[i].left \subseteq Names(stack'[i].node)
                /\ mode' = "take" => rc'[stack'[i].node] = 0
                /\ mode' = "release" => rc'[stack'[i].node] = 1
    <3>1. i \in 1..k /\ i \in 1..l
      BY <1>2, <2>4
    <3> QED
      BY <2>1, <2>4, <2>10, <3>1 DEF StackOK
  <2>12. ASSUME NEW i \in 1..Len(stack'), NEW j \in 1..Len(stack'), i < j
         PROVE  Rank[stack'[j].node] < Rank[stack'[i].node]
    <3>1. i \in 1..k /\ j \in 1..k /\ i \in 1..l /\ j \in 1..l
      BY <1>2, <2>4
    <3> QED
      BY <2>4, <2>12, <3>1 DEF StackOK
  <2>13. ASSUME NEW i \in 1..Len(stack')
         PROVE  IF i = 1
                THEN /\ stack'[i].via = NoNode
                     /\ stack'[i].node = IF mode' = "take" THEN next' ELSE root'
                ELSE /\ stack'[i].via \in stack'[i-1].left
                     /\ stack'[i].node = Child[stack'[i-1].node][stack'[i].via]
    <3>1. i \in 1..k /\ i \in 1..l
      BY <1>2, <2>4
    <3>2. CASE i = 1
      BY <2>1, <2>4, <3>1, <3>2 DEF StackOK
    <3>3. CASE i # 1
      <4>1. i - 1 \in 1..k /\ i - 1 # k
        BY <2>1, <3>1, <3>3
      <4> QED
        BY <2>4, <2>10, <3>1, <3>3, <4>1 DEF StackOK
    <3> QED
      BY <3>2, <3>3
  <2>14. StackOK'
    BY <2>11, <2>12, <2>13 DEF StackOK, Names
  <2>15. \E q \in Node, z \in Name :
           /\ Child[q][z] = t
           /\ SameCountsBut(q, z)
           /\ mode = "take" => ~Counts(q, z) /\ Counts(q, z)'
           /\ mode = "release" => Counts(q, z) /\ ~Counts(q, z)'
    BY <2>3, <2>7, <2>8, <2>9
  <2> QED
    BY <1>7, <2>4, <2>14, <2>15
<1> QED
  BY <1>6, <1>7
-----------------------------------------------------------------------------
(* Facts about the counts.                                                 *)

LEMMA PinsType ==
  \A n : Pins(n) \in Nat
BY DEF Pins, One

LEMMA CardinalityTypes ==
  \A n : /\ Cardinality(NamesOf(n)) \in Nat
         /\ Cardinality(OldNamesOf(n)) \in Nat
         /\ Cardinality({r \in Readers : held[r] = n}) \in Nat
<1> SUFFICES ASSUME NEW n
             PROVE  /\ Cardinality(NamesOf(n)) \in Nat
                    /\ Cardinality(OldNamesOf(n)) \in Nat
                    /\ Cardinality({r \in Readers : held[r] = n}) \in Nat
  OBVIOUS
<1>1. Cardinality(NamesOf(n)) \in Nat /\ Cardinality(OldNamesOf(n)) \in Nat
  BY NamesFinite, NamesOfType
<1>2. IsFiniteSet({r \in Readers : held[r] = n})
  BY FiniteAssumption, FS_Subset
<1> QED
  BY <1>1, <1>2, FS_CardinalityType

(* A name that counts makes the count of the node it leads to positive.    *)
LEMMA NamedIsCounted ==
  ASSUME TypeOK, CountsAreNames, mode # "undo",
         NEW p \in Node, NEW x \in Name, Counts(p, x), NEW n \in Node, Child[p][x] = n
  PROVE  rc[n] > 0
<1>1. <<p, x>> \in NamesOf(n)
  BY DEF NamesOf
<1>2. IsFiniteSet(NamesOf(n)) /\ Cardinality(NamesOf(n)) \in Nat
  BY NamesFinite, NamesOfType
<1>3. Cardinality(NamesOf(n)) # 0
  BY <1>1, <1>2, FS_EmptySet
<1>4. rc[n] = Pins(n) + Cardinality(NamesOf(n)) /\ Pins(n) \in Nat
  BY PinsType DEF CountsAreNames
<1> QED
  BY <1>2, <1>3, <1>4

(* Between walks a counted node's whole tree is counted.                   *)
LEMMA LiveClosed ==
  ASSUME TypeOK, CountsAreNames, mode # "undo", stack = <<>>,
         NEW n \in Node, rc[n] > 0
  PROVE  \A m \in Below[n] : m \in Node /\ rc[m] > 0
<1> DEFINE S == {k \in Node : rc[k] > 0}
<1>1. \A k \in Node : Running(k) = {}
  <2>1. Len(stack) = 0
    BY EmptySeq
  <2> QED
    BY <2>1 DEF Running
<1>2. Closed(S)
  <2> SUFFICES ASSUME NEW k \in S, NEW x \in Names(k)
               PROVE  Child[k][x] \in S
    BY DEF Closed
  <2>1. x \in Name /\ Child[k][x] \in Node
    BY ChildAssumption DEF Names
  <2>2. Counts(k, x)
    BY <1>1 DEF Counts
  <2> QED
    BY <2>1, <2>2, NamedIsCounted
<1>3. S \in SUBSET Node /\ n \in S
  OBVIOUS
<1>4. \A m \in Below[n] : m \in Node /\ m \in S
  BY <1>2, <1>3 DEF Below
<1> QED
  BY <1>4

LEMMA OldSame ==
  ASSUME \A q \in Node : rc'[q] > taken'[q] <=> rc[q] > taken[q]
  PROVE  \A k \in Node : OldNamesOf(k)' = OldNamesOf(k)
BY DEF OldNamesOf, Names

LEMMA RunningNone ==
  ASSUME stack = <<>>
  PROVE  \A q : Running(q) = {}
<1>1. Len(stack) = 0
  BY EmptySeq
<1> QED
  BY <1>1 DEF Running

(* What the readers have does not change, and neither does the set of      *)
(* loaded nodes but for new ones.                                          *)
LEMMA RefsFollow ==
  ASSUME TypeOK, NodeRefsExact, held' = held,
         \A n \in Node : nodeRefs'[n] - One(rc'[n] > 0) = nodeRefs[n] - One(rc[n] > 0),
         nodeRefs' \in [Node -> Int]
  PROVE  NodeRefsExact' /\ nodeRefs' \in [Node -> Nat]
<1> DEFINE c(n) == Cardinality({r \in Readers : held[r] = n})
<1>1. \A n \in Node : c(n) \in Nat
  BY CardinalityTypes
<1>2. \A n \in Node : nodeRefs[n] = One(rc[n] > 0) + c(n)
  BY DEF NodeRefsExact
<1>3. NodeRefsExact' <=> \A n \in Node : nodeRefs'[n] = One(rc'[n] > 0) + c(n)
  BY DEF NodeRefsExact, One
<1> HIDE DEF c
<1>4. ASSUME NEW n \in Node
      PROVE  nodeRefs'[n] = One(rc'[n] > 0) + c(n) /\ nodeRefs'[n] \in Nat
  <2> DEFINE a == One(rc[n] > 0)
             b == One(rc'[n] > 0)
  <2>1. nodeRefs[n] = a + c(n) /\ c(n) \in Nat
    BY <1>1, <1>2
  <2>2. nodeRefs'[n] - b = nodeRefs[n] - a
    OBVIOUS
  <2>3. a \in Nat /\ b \in Nat /\ nodeRefs'[n] \in Int
    BY DEF One
  <2> HIDE DEF a, b
  <2>4. nodeRefs'[n] = b + c(n)
    BY <2>1, <2>2, <2>3
  <2>5. nodeRefs'[n] \in Nat
    BY <2>1, <2>3, <2>4
  <2> QED
    BY <2>4, <2>5 DEF b
<1> QED
  BY <1>3, <1>4
-----------------------------------------------------------------------------
(* The initial states, and every action.                                   *)

LEMMA BelowEmpty == Below[Empty] = {Empty}
<1>1. Closed({Empty})
  BY ChildAssumption DEF Closed, Names
<1>2. {Empty} \in SUBSET Node
  BY NodeAssumption
<1>3. Below[Empty] \subseteq {Empty}
  BY <1>1, <1>2, NodeAssumption DEF Below
<1>4. Empty \in Below[Empty]
  BY NodeAssumption DEF Below
<1> QED
  BY <1>3, <1>4

LEMMA InitIInv == Init => IInv
<1> SUFFICES ASSUME Init PROVE IInv
  OBVIOUS
<1> USE NodeAssumption
<1>1. stack = <<>> /\ stack \in Seq(Frames) /\ Len(stack) = 0
  BY EmptySeq DEF Init
<1>2. TypeOK
  BY <1>1 DEF Init, TypeOK, Nothing, Frames
<1>3. LockOK
  BY <1>1 DEF Init, LockOK
<1>4. StackOK
  BY <1>1 DEF StackOK
<1>5. \A p \in Node, x \in Name : ~Counts(p, x)
  <2>1. \A x \in Name : x \notin Names(Empty)
    BY ChildAssumption DEF Names
  <2>2. \A p \in Node : p # Empty => rc[p] = 0
    BY DEF Init, Nothing
  <2> QED
    BY <1>1, <2>1, <2>2, RunningNone DEF Counts
<1>6. \A n \in Node : Cardinality(NamesOf(n)) = 0
  <2>1. \A n \in Node : NamesOf(n) = {}
    BY <1>5 DEF NamesOf
  <2> QED
    BY <2>1, FS_EmptySet
<1>7. CountsAreNames
  <2>1. \A n \in Node : rc[n] = Pins(n)
    BY DEF Init, Nothing, Pins, One
  <2>2. \A n \in Node : Pins(n) \in Nat
    BY PinsType
  <2> QED
    BY <1>6, <2>1, <2>2 DEF CountsAreNames
<1>8. UndoOK
  BY DEF Init, UndoOK
<1>9. NodeRefsExact
  <2>1. \A n \in Node : {r \in Readers : held[r] = n} = {}
    BY DEF Init
  <2>2. \A n \in Node : Cardinality({r \in Readers : held[r] = n}) = 0
    BY <2>1, FS_EmptySet
  <2>3. \A n \in Node : nodeRefs[n] = One(rc[n] > 0)
    BY DEF Init, Nothing, One
  <2>4. \A n \in Node : One(rc[n] > 0) \in Nat
    BY DEF One
  <2> QED
    BY <2>2, <2>3, <2>4 DEF NodeRefsExact
<1>10. CountedIsCached
  BY DEF Init, Nothing, CountedIsCached
<1>11. TreeStaysWhole
  BY BelowEmpty DEF Init, TreeStaysWhole
<1> QED
  BY <1>2, <1>3, <1>4, <1>7, <1>8, <1>9, <1>10, <1>11 DEF IInv

(* A step that touches neither the manager nor who holds what, but may     *)
(* load nodes or move blobs.                                               *)
LEMMA UnseenStep ==
  ASSUME IInv, stored' \subseteq Node, cached' \subseteq Node, cached \subseteq cached',
         UNCHANGED <<nodeRefs, rc, root, origin, op, next, mode, stack, taken, held>>
  PROVE  IInv'
<1>1. TypeOK'
  BY DEF IInv, TypeOK
<1>2. LockOK'
  BY DEF IInv, LockOK, Nothing
<1>3. StackOK'
  BY DEF IInv, StackOK, Names
<1>4. \A k : NamesOf(k)' = NamesOf(k)
  BY DEF NamesOf, Counts, Running, Names
<1>5. \A k : OldNamesOf(k)' = OldNamesOf(k)
  BY DEF OldNamesOf, Names
<1>6. \A k : Pins(k)' = Pins(k)
  BY DEF Pins, One
<1>7. CountsAreNames'
  BY <1>4, <1>6 DEF IInv, CountsAreNames
<1>8. UndoOK'
  BY <1>5, <1>6 DEF IInv, UndoOK
<1>9. NodeRefsExact'
  BY DEF IInv, NodeRefsExact, One
<1>10. CountedIsCached'
  BY DEF IInv, CountedIsCached
<1>11. TreeStaysWhole'
  BY DEF IInv, TreeStaysWhole, Below, Closed, Names
<1> QED
  BY <1>1, <1>2, <1>3, <1>7, <1>8, <1>9, <1>10, <1>11 DEF IInv

LEMMA BeginKeeps ==
  ASSUME IInv, NEW o \in {"link", "open"}, NEW n \in Node, Begin(o, n)
  PROVE  IInv'
<1> USE DEF IInv, Begin
<1>1. stack = <<>> /\ stack' = <<>> /\ taken = Nothing /\ taken' = Nothing
  BY DEF LockOK
<1>2. mode = "idle" /\ mode' = "take" /\ n \in Node /\ n # NoNode /\ rc' = rc
  BY NodeAssumption DEF counts
<1>3. TypeOK'
  <2>1. cached' \subseteq Node /\ UNCHANGED <<stored, nodeRefs, rc, root, held>>
    BY DEF TypeOK, counts
  <2>2. op' \in {"none", "link", "open"} /\ next' \in Node \union {NoNode}
    <3>1. op' = o /\ next' = n
      OBVIOUS
    <3> QED
      BY <3>1
  <2>3. origin' \in {"new", "linked", "opened"}
    BY DEF TypeOK
  <2> QED
    BY <1>1, <1>2, <2>1, <2>2, <2>3 DEF TypeOK
<1>4. LockOK'
  <2>1. op' \in {"link", "open"} /\ n \in cached' /\ root' = root
    OBVIOUS
  <2>3. origin' = "new" => origin = "new"
    OBVIOUS
  <2>4. op' = "link" => origin' # "new"
    OBVIOUS
  <2>5. op' = "open" => origin' = "new"
    OBVIOUS
  <2> QED
    BY <1>1, <1>2, <2>1, <2>3, <2>4, <2>5 DEF LockOK
<1>5. StackOK'
  BY <1>1, EmptySeq DEF StackOK
<1>6. \A q \in Node, z \in Name : Counts(q, z)' <=> Counts(q, z)
  BY <1>1, <1>2, RunningNone DEF Counts, Running, Names
<1>7. \A k \in Node : NamesOf(k)' = NamesOf(k)
  BY <1>6, NamesSame
<1>8. \A k \in Node : Pins(k)' = Pins(k)
  <2>1. root' = root /\ (origin' = "opened" <=> origin = "opened")
    OBVIOUS
  <2>2. \A k \in Node : k # next
    BY <1>2, NodeAssumption DEF LockOK
  <2> QED
    BY <1>2, <2>1, <2>2 DEF Pins, One
<1>9. CountsAreNames'
  BY <1>2, <1>7, <1>8 DEF CountsAreNames
<1>10. \A k \in Node : OldNamesOf(k)' = NamesOf(k)
  <2>1. \A q \in Node : rc'[q] > taken'[q] <=> rc[q] > 0
    BY <1>1, <1>2 DEF Nothing
  <2>2. \A q \in Node, z \in Name : Counts(q, z) <=> z \in Names(q) /\ rc[q] > 0
    BY <1>1, RunningNone DEF Counts
  <2> QED
    BY <2>1, <2>2 DEF OldNamesOf, NamesOf, Names
<1>11. UndoOK'
  <2>1. \A k \in Node : taken'[k] = 0 /\ rc'[k] = rc[k] /\ rc[k] \in Nat
    BY <1>1, <1>2 DEF Nothing, TypeOK
  <2>2. \A k \in Node : rc[k] = Pins(k) + Cardinality(NamesOf(k))
    BY <1>2 DEF CountsAreNames
  <2>3. ASSUME NEW k \in Node
        PROVE  /\ taken'[k] <= rc'[k]
               /\ rc'[k] - taken'[k] = Pins(k)' + Cardinality(OldNamesOf(k)')
    BY <1>8, <1>10, <2>1, <2>2
  <2> QED
    BY <2>3 DEF UndoOK
<1>12. NodeRefsExact'
  BY DEF NodeRefsExact, counts, One
<1>13. CountedIsCached'
  BY DEF CountedIsCached, counts
<1>14. TreeStaysWhole'
  BY DEF TreeStaysWhole, Below, Closed, Names
<1> QED
  BY <1>3, <1>4, <1>5, <1>9, <1>11, <1>12, <1>13, <1>14

(* The top-level takes change when the new root is taken and when the old  *)
(* one is released.                                                        *)
LEMMA PinsStep ==
  ASSUME UNCHANGED <<root, next, origin>>
  PROVE  \A k \in Node :
           /\ \/ mode' = mode
              \/ mode = "taken" /\ mode' = "release"
              \/ mode = "take" /\ mode' = "undo"
              => Pins(k)' = Pins(k)
           /\ mode = "take" /\ mode' = "taken" => Pins(k)' = Pins(k) + One(k = next)
           /\ mode \in {"taken", "release"} /\ mode' = "released" =>
                Pins(k)' = Pins(k) - One(k = root)
BY DEF Pins, One

(* One pin or name more or less at m, and the count of m follows it.       *)
LEMMA CountFollows ==
  ASSUME TypeOK, CountsAreNames, mode # "undo", NEW m \in Node, NEW d \in {1, -1},
         \A k \in Node : rc'[k] = IF k = m THEN rc[k] + d ELSE rc[k],
         \/ /\ \A k \in Node : Pins(k)' = Pins(k)
            /\ Cardinality(NamesOf(m)') = Cardinality(NamesOf(m)) + d
            /\ \A k \in Node \ {m} : NamesOf(k)' = NamesOf(k)
         \/ /\ \A k \in Node : Pins(k)' = IF k = m THEN Pins(k) + d ELSE Pins(k)
            /\ \A k \in Node : NamesOf(k)' = NamesOf(k)
  PROVE  CountsAreNames'
<1> DEFINE c(k) == Cardinality(NamesOf(k))
           e(k) == Cardinality(NamesOf(k)')
<1>1. \A k \in Node : c(k) \in Nat /\ Pins(k) \in Nat /\ rc[k] = Pins(k) + c(k)
  BY CardinalityTypes, PinsType DEF CountsAreNames
<1>2. \/ /\ \A k \in Node : Pins(k)' = Pins(k)
         /\ e(m) = c(m) + d
         /\ \A k \in Node \ {m} : e(k) = c(k)
      \/ /\ \A k \in Node : Pins(k)' = IF k = m THEN Pins(k) + d ELSE Pins(k)
         /\ \A k \in Node : e(k) = c(k)
  OBVIOUS
<1>3. (\A k \in Node : rc'[k] = Pins(k)' + e(k)) => CountsAreNames'
  BY DEF CountsAreNames
<1> HIDE DEF c, e
<1>4. \A k \in Node : rc'[k] = Pins(k)' + e(k)
  BY <1>1, <1>2
<1> QED
  BY <1>3, <1>4

(* The rollback list follows the counts.                                   *)
LEMMA ListFollows ==
  ASSUME TypeOK, UndoOK, mode \in {"take", "undo"},
         \A k \in Node : Pins(k)' = Pins(k),
         \A k \in Node : rc'[k] - taken'[k] = rc[k] - taken[k],
         rc' \in [Node -> Nat], taken' \in [Node -> Nat]
  PROVE  UndoOK'
<1>1. \A k \in Node : /\ rc[k] \in Nat /\ taken[k] \in Nat
                      /\ rc'[k] \in Nat /\ taken'[k] \in Nat
  BY DEF TypeOK
<1>2. \A k \in Node : rc'[k] > taken'[k] <=> rc[k] > taken[k]
  BY <1>1
<1>3. \A k \in Node : OldNamesOf(k)' = OldNamesOf(k)
  BY <1>2, OldSame
<1>4. \A k \in Node : /\ taken[k] <= rc[k]
                      /\ rc[k] - taken[k] = Pins(k) + Cardinality(OldNamesOf(k))
  BY DEF UndoOK
<1>5. \A k \in Node : taken'[k] <= rc'[k]
  BY <1>1, <1>4
<1>6. \A k \in Node : rc'[k] - taken'[k] = Pins(k)' + Cardinality(OldNamesOf(k)')
  BY <1>3, <1>4
<1> QED
  BY <1>5, <1>6 DEF UndoOK

LEMMA TreeKept ==
  ASSUME TreeStaysWhole, cached \subseteq cached', root' = root, held' = held
  PROVE  TreeStaysWhole'
BY DEF TreeStaysWhole, Below, Closed, Names

LEMMA RefsKept ==
  ASSUME NodeRefsExact, nodeRefs' = nodeRefs, held' = held,
         \A k \in Node : rc'[k] > 0 <=> rc[k] > 0
  PROVE  NodeRefsExact'
BY DEF NodeRefsExact, One

(* A call of recursiveTake or recursiveRelease for a node whose children   *)
(* come first.                                                             *)
LEMMA CallKeeps ==
  ASSUME IInv, NEW n \in Node, NEW x \in Name \union {NoNode},
         stack' = Append(stack, Frame(n, x)),
         UNCHANGED <<stored, counts, root, origin, op, next, taken, held>>,
         \/ /\ stack = <<>>
            /\ x = NoNode
            /\ n = IF mode' = "take" THEN next ELSE root
            /\ op # "none"
            /\ \/ mode = "take" /\ mode' = mode
               \/ mode = "taken" /\ mode' = "release" /\ op # "open"
         \/ /\ stack # <<>>
            /\ x \in Top.left
            /\ n = Child[Top.node][x]
            /\ mode' = mode,
         mode' \in {"take", "release"}, cached' = cached \union {n},
         mode' = "take" => rc[n] = 0, mode' = "release" => rc[n] = 1
  PROVE  IInv'
<1> USE DEF IInv
<1>1. rc' = rc /\ nodeRefs' = nodeRefs /\ cached \subseteq cached' /\ n \in cached'
  BY DEF counts
<1>2. /\ StackOK'
      /\ stack' \in Seq(Frames)
      /\ stack' # <<>>
      /\ \A q \in Node, z \in Name : Counts(q, z)' <=> Counts(q, z)
  BY <1>1, CallStack
<1>3. TypeOK'
  BY <1>1, <1>2 DEF TypeOK, Frames
<1>4. LockOK'
  BY <1>1, <1>2 DEF LockOK
<1>5. \A k \in Node : Pins(k)' = Pins(k)
  BY PinsStep
<1>6. CountsAreNames'
  <2>1. \A k \in Node : NamesOf(k)' = NamesOf(k)
    BY <1>2, NamesSame
  <2>2. mode # "undo"
    OBVIOUS
  <2> QED
    BY <1>1, <1>5, <2>1, <2>2 DEF CountsAreNames
<1>7. UndoOK'
  <2>1. CASE mode' = "take"
    <3>1. mode = "take"
      BY <2>1
    <3> QED
      BY <1>1, <1>5, <3>1, ListFollows DEF TypeOK
  <2>2. CASE mode' = "release"
    BY <2>2 DEF UndoOK
  <2> QED
    BY <2>1, <2>2
<1>8. NodeRefsExact'
  BY <1>1, RefsKept
<1>9. CountedIsCached'
  BY <1>1 DEF CountedIsCached
<1>10. TreeStaysWhole'
  BY <1>1, TreeKept
<1> QED
  BY <1>2, <1>3, <1>4, <1>6, <1>7, <1>8, <1>9, <1>10

(* recursiveTake on a node that has a count, as the new root or as a child. *)
LEMMA KnownKeeps ==
  ASSUME IInv, mode = "take", NEW n \in Node, NEW x \in Name \union {NoNode},
         TakeKnown(n, x), cached' = cached \union {n},
         UNCHANGED <<stored, nodeRefs, root, origin, op, next, held>>,
         \/ stack = <<>> /\ n = next /\ mode' = "taken"
         \/ stack # <<>> /\ x \in Top.left /\ n = Child[Top.node][x] /\ mode' = mode
  PROVE  IInv'
<1> USE DEF IInv
<1>1. /\ \A k \in Node : rc'[k] = IF k = n THEN rc[k] + 1 ELSE rc[k]
      /\ \A k \in Node : taken'[k] = IF k = n THEN taken[k] + 1 ELSE taken[k]
      /\ \A k \in Node : rc[k] \in Nat /\ taken[k] \in Nat
      /\ rc' \in [Node -> Nat] /\ taken' \in [Node -> Nat]
      /\ rc[n] > 0
      /\ stack' = Without(stack, x)
      /\ cached \subseteq cached'
  <2>1. /\ rc \in [Node -> Nat] /\ taken \in [Node -> Nat]
        /\ rc' = [rc EXCEPT ![n] = @ + 1] /\ taken' = [taken EXCEPT ![n] = @ + 1]
    BY DEF TakeKnown, TypeOK
  <2>2. rc[n] > 0 /\ stack' = Without(stack, x) /\ cached \subseteq cached'
    BY DEF TakeKnown
  <2> QED
    BY ONLY <2>1, <2>2
<1>2. \A k \in Node : rc'[k] > 0 <=> rc[k] > 0
  BY <1>1
<1>3. /\ StackOK'
      /\ stack' \in Seq(Frames)
      /\ mode' = "taken" => stack' = <<>>
  <2>1. CASE stack = <<>>
    <3>1. stack' = <<>> /\ Len(stack') = 0
      BY <1>1, <2>1, EmptySeq DEF Without
    <3> QED
      BY <3>1, EmptySeq DEF StackOK
  <2>2. CASE stack # <<>>
    BY <1>1, <2>2, ReturnStack
  <2> QED
    BY <2>1, <2>2
<1>4. TypeOK'
  BY <1>1, <1>3 DEF TypeOK, Frames
<1>5. LockOK'
  BY <1>1, <1>3 DEF LockOK
<1>6. CountsAreNames'
  <2>1. CASE stack = <<>>
    <3>1. \A k \in Node : NamesOf(k)' = NamesOf(k)
      <4>1. stack' = <<>>
        BY <1>1, <2>1 DEF Without
      <4>2. \A q : Running(q) = {} /\ Running(q)' = {}
        BY <2>1, <4>1, RunningNone, EmptySeq DEF Running
      <4>3. \A q \in Node, z \in Name : Counts(q, z)' <=> Counts(q, z)
        BY <1>2, <4>2 DEF Counts, Names
      <4> QED
        BY <4>3, NamesSame
    <3>2. \A k \in Node : Pins(k)' = IF k = n THEN Pins(k) + 1 ELSE Pins(k)
      <4>1. \A k \in Node : Pins(k)' = Pins(k) + One(k = n) /\ Pins(k) \in Nat
        BY <2>1, PinsStep, PinsType
      <4> QED
        BY <4>1 DEF One
    <3> QED
      BY <1>1, <3>1, <3>2, CountFollows
  <2>2. CASE stack # <<>>
    <3>1. PICK t \in Node : t = Top.node
      BY <2>2, TopFacts DEF Frames
    <3>2. SameCountsBut(t, x) /\ ~Counts(t, x) /\ Counts(t, x)'
      BY <1>1, <1>2, <2>2, <3>1, ReturnCounts
    <3>3. x \in Name /\ Child[t][x] = n
      BY <2>2, <3>1, ChildFacts
    <3>4. /\ Cardinality(NamesOf(n)') = Cardinality(NamesOf(n)) + 1
          /\ \A k \in Node \ {n} : NamesOf(k)' = NamesOf(k)
      BY <3>2, <3>3, NamesGain
    <3>5. \A k \in Node : Pins(k)' = Pins(k)
      BY <2>2, PinsStep
    <3> QED
      BY <1>1, <3>4, <3>5, CountFollows
  <2> QED
    BY <2>1, <2>2
<1>7. UndoOK'
  <2>1. CASE mode' = mode
    <3>1. ASSUME NEW k \in Node
          PROVE  rc'[k] - taken'[k] = rc[k] - taken[k]
      <4>1. rc[k] \in Nat /\ taken[k] \in Nat
        BY <1>1
      <4>2. CASE k = n
        BY <1>1, <4>1, <4>2
      <4>3. CASE k # n
        BY <1>1, <4>1, <4>3
      <4> QED
        BY <4>2, <4>3
    <3> QED
      BY <1>1, <2>1, <3>1, PinsStep, ListFollows
  <2>2. CASE mode' = "taken"
    BY <2>2 DEF UndoOK
  <2> QED
    BY <2>1, <2>2
<1>8. NodeRefsExact'
  BY <1>2, RefsKept
<1>9. CountedIsCached'
  BY <1>1, <1>2 DEF CountedIsCached
<1>10. TreeStaysWhole'
  BY <1>1, TreeKept
<1> QED
  BY <1>3, <1>4, <1>5, <1>6, <1>7, <1>8, <1>9, <1>10

LEMMA TakeRootKeeps == IInv /\ TakeRoot => IInv'
<1> SUFFICES ASSUME IInv, TakeRoot PROVE IInv'
  OBVIOUS
<1>1. /\ mode = "take" /\ op # "none"
      /\ stack = <<>>
      /\ next \in Node
      /\ cached' = cached \union {next}
      /\ UNCHANGED <<stored, cached, nodeRefs, root, origin, op, next, held>>
  BY NodeAssumption DEF IInv, LockOK, TypeOK, TakeRoot
<1>2. CASE TakeNew(next, NoNode) /\ UNCHANGED mode
  <2>1. /\ stack' = Append(stack, Frame(next, NoNode))
        /\ UNCHANGED <<rc, taken, mode>>
        /\ rc[next] = 0
    BY <1>2 DEF TakeNew
  <2>2. UNCHANGED <<stored, counts, root, origin, op, next, taken, held>>
    BY <1>1, <2>1 DEF counts
  <2>3. NoNode \in Name \union {NoNode}
    OBVIOUS
  <2>4. mode' = "take" /\ mode' = mode /\ next = IF mode' = "take" THEN next ELSE root
    BY <1>1, <2>1
  <2>5. PICK n \in Node : n = next
    BY <1>1
  <2> HIDE DEF counts
  <2> QED
    BY <1>1, <2>1, <2>2, <2>3, <2>4, <2>5, CallKeeps
<1>3. CASE TakeKnown(next, NoNode) /\ mode' = "taken"
  BY <1>1, <1>3, KnownKeeps
<1> QED
  BY <1>2, <1>3 DEF TakeRoot

LEMMA TakeChildKeeps == IInv /\ TakeChild => IInv'
<1> SUFFICES ASSUME IInv, TakeChild PROVE IInv'
  OBVIOUS
<1>1. /\ mode = "take"
      /\ stack # <<>>
      /\ UNCHANGED <<stored, nodeRefs, root, origin, op, next, mode, held>>
  BY DEF TakeChild
<1>2. PICK x \in Top.left :
        /\ cached' = cached \union {Child[Top.node][x]}
        /\ TakeKnown(Child[Top.node][x], x) \/ TakeNew(Child[Top.node][x], x)
  BY DEF TakeChild
<1>3. PICK n \in Node : n = Child[Top.node][x]
  BY <1>1, ChildFacts DEF IInv
<1>4. x \in Name
  BY <1>1, ChildFacts DEF IInv
<1>5. CASE TakeKnown(n, x)
  BY <1>1, <1>2, <1>3, <1>4, <1>5, KnownKeeps
<1>6. CASE TakeNew(n, x)
  <2>1. /\ stack' = Append(stack, Frame(n, x))
        /\ UNCHANGED <<rc, taken>>
        /\ rc[n] = 0
    BY <1>6 DEF TakeNew
  <2> QED
    BY <1>1, <1>2, <1>3, <1>4, <2>1, CallKeeps DEF counts
<1> QED
  BY <1>2, <1>3, <1>5, <1>6

LEMMA TakeFailsKeeps == IInv /\ TakeFails => IInv'
<1> SUFFICES ASSUME IInv, TakeFails PROVE IInv'
  OBVIOUS
<1> USE DEF IInv
<1>1. /\ mode = "take" /\ mode' = "undo" /\ stack' = <<>>
      /\ UNCHANGED <<stored, cached, nodeRefs, rc, root, origin, op, next, taken, held>>
  BY DEF TakeFails, counts
<1>2. TypeOK'
  BY <1>1, EmptySeq DEF TypeOK
<1>3. LockOK'
  BY <1>1 DEF LockOK
<1>4. StackOK'
  BY <1>1, EmptySeq DEF StackOK
<1>5. CountsAreNames'
  BY <1>1 DEF CountsAreNames
<1>6. UndoOK'
  BY <1>1, PinsStep, ListFollows DEF TypeOK
<1>7. NodeRefsExact' /\ CountedIsCached' /\ TreeStaysWhole'
  BY <1>1, RefsKept, TreeKept DEF CountedIsCached
<1> QED
  BY <1>2, <1>3, <1>4, <1>5, <1>6, <1>7

(* A node's call ends: its one count appears, or its last one goes.        *)
LEMMA DoneKeeps ==
  ASSUME IInv, stack # <<>>, Top.left = {},
         NEW t \in Node, t = Top.node, NEW c \in {0, 1}, NEW m,
         \/ mode = "take" /\ c = 1 /\ m = "taken" /\ taken' = [taken EXCEPT ![t] = @ + 1]
         \/ mode = "release" /\ c = 0 /\ m = "released" /\ taken' = taken,
         stack' = Without(Caller, Top.via), rc' = [rc EXCEPT ![t] = c],
         nodeRefs' = [nodeRefs EXCEPT ![t] = @ + (IF c = 1 THEN 1 ELSE -1)],
         mode' = (IF Caller = <<>> THEN m ELSE mode),
         UNCHANGED <<stored, cached, root, origin, op, next, held>>
  PROVE  IInv'
<1> USE DEF IInv
<1> DEFINE d == IF c = 1 THEN 1 ELSE -1
<1>0. /\ nodeRefs \in [Node -> Nat] /\ rc \in [Node -> Nat] /\ taken \in [Node -> Nat]
      /\ rc' = [rc EXCEPT ![t] = c]
      /\ nodeRefs' = [nodeRefs EXCEPT ![t] = @ + d]
      /\ c = 0 \/ c = 1
      /\ d \in {1, -1}
  BY DEF TypeOK
<1>1. /\ mode \in {"take", "release"}
      /\ c = 1 => mode = "take" /\ m = "taken" /\ taken' = [taken EXCEPT ![t] = @ + 1]
      /\ c = 0 => mode = "release" /\ m = "released" /\ taken' = taken
      /\ mode = "take" => c = 1
      /\ mode = "release" => c = 0
  OBVIOUS
<1>2. /\ StackOK'
      /\ stack' \in Seq(Frames)
      /\ stack' = <<>> <=> Caller = <<>>
      /\ Caller = <<>> =>
           /\ t = IF mode = "take" THEN next ELSE root
           /\ \A q \in Node, z \in Name : Counts(q, z)' <=> Counts(q, z)
      /\ Caller # <<>> =>
           \E p \in Node, x \in Name :
             /\ Child[p][x] = t
             /\ SameCountsBut(p, x)
             /\ mode = "take" => ~Counts(p, x) /\ Counts(p, x)'
             /\ mode = "release" => Counts(p, x) /\ ~Counts(p, x)'
  <2>1. \/ mode = "take" /\ c = 1 /\ m = "taken"
        \/ mode = "release" /\ c = 0 /\ m = "released"
    OBVIOUS
  <2>2. cached \subseteq cached'
    OBVIOUS
  <2> QED
    BY <2>1, <2>2, DoneStack
<1>3. t \in cached /\ rc[t] = (IF c = 1 THEN 0 ELSE 1)
  <2>1. Len(stack) \in 1..Len(stack) /\ t = stack[Len(stack)].node
    BY TopFacts DEF Top
  <2> QED
    BY <1>1, <2>1 DEF StackOK
<1>4. /\ \A k \in Node : rc'[k] = IF k = t THEN rc[k] + d ELSE rc[k]
      /\ rc' \in [Node -> Nat]
      /\ \A k \in Node : rc[k] \in Nat
  <2>1. \A k \in Node : rc'[k] = IF k = t THEN c ELSE rc[k]
    BY <1>0
  <2>2. c = rc[t] + d
    BY <1>0, <1>3
  <2>3. rc' \in [Node -> Nat]
    BY <1>0
  <2> HIDE DEF d
  <2> QED
    BY <1>0, <2>1, <2>2, <2>3
<1>5. taken' \in [Node -> Nat]
  BY <1>0, <1>1
<1>6. NodeRefsExact' /\ nodeRefs' \in [Node -> Nat]
  <2> HIDE DEF IInv
  <2>1. /\ nodeRefs' \in [Node -> Int] /\ \A k \in Node : nodeRefs[k] \in Nat
        /\ \A k \in Node : nodeRefs'[k] = IF k = t THEN nodeRefs[k] + d ELSE nodeRefs[k]
    <3> HIDE DEF d
    <3> QED
      BY <1>0
  <2>2. \A k \in Node : nodeRefs'[k] = IF k = t THEN nodeRefs[k] + d ELSE nodeRefs[k]
    BY <2>1
  <2>3. \A k \in Node :
          nodeRefs'[k] - One(rc'[k] > 0) = nodeRefs[k] - One(rc[k] > 0)
    <3> SUFFICES ASSUME NEW k \in Node
                 PROVE  nodeRefs'[k] - One(rc'[k] > 0) = nodeRefs[k] - One(rc[k] > 0)
      OBVIOUS
    <3>1. CASE k # t
      BY <1>0, <2>1, <3>1 DEF One
    <3>2. CASE k = t
      BY <1>0, <1>3, <2>1, <2>2, <3>2 DEF One
    <3> QED
      BY <3>1, <3>2
  <2>4. TypeOK /\ NodeRefsExact /\ held' = held
    BY DEF IInv
  <2> QED
    BY <2>1, <2>3, <2>4, RefsFollow
<1>7. TypeOK'
  BY <1>1, <1>2, <1>4, <1>5, <1>6 DEF TypeOK, Frames
<1>8. LockOK'
  BY <1>1, <1>2 DEF LockOK
<1>9. CountsAreNames'
  <2>1. CASE Caller = <<>>
    <3>1. \A k \in Node : NamesOf(k)' = NamesOf(k)
      BY <1>2, <2>1, NamesSame
    <3>2. \A k \in Node : Pins(k)' = IF k = t THEN Pins(k) + d ELSE Pins(k)
      <4>1. CASE c = 1
        <5>1. \A k \in Node : Pins(k)' = Pins(k) + One(k = t) /\ Pins(k) \in Nat
          BY <1>1, <1>2, <2>1, <4>1, PinsStep, PinsType
        <5> QED
          BY <4>1, <5>1 DEF One
      <4>2. CASE c = 0
        <5>1. \A k \in Node : Pins(k)' = Pins(k) - One(k = t) /\ Pins(k) \in Nat
          BY <1>1, <1>2, <2>1, <4>2, PinsStep, PinsType
        <5> QED
          BY <4>2, <5>1 DEF One
      <4> QED
        BY <4>1, <4>2
    <3> QED
      BY <1>1, <1>4, <3>1, <3>2, CountFollows
  <2>2. CASE Caller # <<>>
    <3>1. PICK p \in Node, x \in Name :
            /\ Child[p][x] = t
            /\ SameCountsBut(p, x)
            /\ mode = "take" => ~Counts(p, x) /\ Counts(p, x)'
            /\ mode = "release" => Counts(p, x) /\ ~Counts(p, x)'
      BY <1>2, <2>2
    <3>2. /\ Cardinality(NamesOf(t)') = Cardinality(NamesOf(t)) + d
          /\ \A k \in Node \ {t} : NamesOf(k)' = NamesOf(k)
      <4>1. CASE c = 1
        BY <1>1, <3>1, <4>1, NamesGain
      <4>2. CASE c = 0
        <5>1. /\ Cardinality(NamesOf(t)') = Cardinality(NamesOf(t)) - 1
              /\ \A k \in Node \ {t} : NamesOf(k)' = NamesOf(k)
          BY <1>1, <3>1, <4>2, NamesLose
        <5>2. Cardinality(NamesOf(t)) \in Nat
          BY CardinalityTypes
        <5> QED
          BY <4>2, <5>1, <5>2
      <4> QED
        BY <4>1, <4>2
    <3>3. \A k \in Node : Pins(k)' = Pins(k)
      BY <2>2, PinsStep
    <3> QED
      BY <1>1, <1>4, <3>2, <3>3, CountFollows
  <2> QED
    BY <2>1, <2>2
<1>10. UndoOK'
  <2>1. CASE mode = "take" /\ mode' = mode
    <3>1. ASSUME NEW k \in Node
          PROVE  rc'[k] - taken'[k] = rc[k] - taken[k]
      <4>1. c = 1 /\ rc[k] \in Nat /\ taken[k] \in Nat
        BY <1>1, <2>1 DEF TypeOK
      <4>2. taken'[k] = IF k = t THEN taken[k] + 1 ELSE taken[k]
        BY <1>1, <4>1 DEF TypeOK
      <4>3. rc'[k] = IF k = t THEN rc[k] + 1 ELSE rc[k]
        BY <1>4, <4>1
      <4> QED
        BY <4>1, <4>2, <4>3
    <3> QED
      BY <1>4, <1>5, <2>1, <3>1, PinsStep, ListFollows
  <2>2. CASE ~(mode = "take" /\ mode' = mode)
    BY <1>1, <2>2 DEF UndoOK
  <2> QED
    BY <2>1, <2>2
<1>11. CountedIsCached'
  BY <1>3, <1>4 DEF CountedIsCached
<1>12. TreeStaysWhole'
  BY TreeKept
<1> QED
  BY <1>2, <1>6, <1>7, <1>8, <1>9, <1>10, <1>11, <1>12

LEMMA TakeDoneKeeps == IInv /\ TakeDone => IInv'
<1> SUFFICES ASSUME IInv, TakeDone PROVE IInv'
  OBVIOUS
<1>1. stack # <<>>
  BY DEF TakeDone
<1>2. PICK t \in Node : t = Top.node
  BY <1>1, TopFacts DEF IInv, Frames
<1> QED
  BY <1>1, <1>2, DoneKeeps DEF TakeDone

LEMMA ReleaseDoneKeeps == IInv /\ ReleaseDone => IInv'
<1> SUFFICES ASSUME IInv, ReleaseDone PROVE IInv'
  OBVIOUS
<1>1. stack # <<>>
  BY DEF ReleaseDone
<1>2. PICK t \in Node : t = Top.node
  BY <1>1, TopFacts DEF IInv, Frames
<1>3. nodeRefs[t] - 1 = nodeRefs[t] + (IF 0 = 1 THEN 1 ELSE -1)
  <2>1. nodeRefs[t] \in Nat
    BY DEF IInv, TypeOK
  <2> QED
    BY <2>1
<1>4. nodeRefs' = [nodeRefs EXCEPT ![t] = @ + (IF 0 = 1 THEN 1 ELSE -1)]
  <2>1. nodeRefs' = [nodeRefs EXCEPT ![t] = nodeRefs[t] - 1]
    BY <1>2 DEF ReleaseDone
  <2> QED
    BY <1>3, <2>1
<1>5. /\ mode = "release" /\ Top.left = {}
      /\ rc' = [rc EXCEPT ![t] = 0]
      /\ stack' = Without(Caller, Top.via)
      /\ mode' = IF Caller = <<>> THEN "released" ELSE mode
      /\ UNCHANGED <<stored, cached, root, origin, op, next, taken, held>>
  BY <1>2 DEF ReleaseDone
<1> QED
  BY <1>1, <1>2, <1>4, <1>5, DoneKeeps

LEMMA UndoKeeps == IInv /\ Undo => IInv'
<1> SUFFICES ASSUME IInv, Undo PROVE IInv'
  OBVIOUS
<1> USE DEF IInv
<1>1. /\ mode = "undo" /\ mode' = "undo" /\ stack = <<>> /\ stack' = <<>>
      /\ UNCHANGED <<stored, cached, root, origin, op, next, held>>
  BY DEF Undo, LockOK
<1>2. PICK n \in Node :
        /\ taken[n] > 0
        /\ taken' = [taken EXCEPT ![n] = @ - 1]
        /\ \/ /\ rc[n] <= 1
              /\ rc' = [rc EXCEPT ![n] = 0]
              /\ nodeRefs' = [nodeRefs EXCEPT ![n] = @ - 1]
           \/ /\ rc[n] > 1
              /\ rc' = [rc EXCEPT ![n] = @ - 1]
              /\ nodeRefs' = nodeRefs
  <2>1. \A k \in Node : rc[k] \in Nat
    BY DEF TypeOK
  <2>2. PICK n \in Node :
          /\ taken[n] > 0
          /\ taken' = [taken EXCEPT ![n] = @ - 1]
          /\ \/ /\ rc[n] <= 1
                /\ rc' = [rc EXCEPT ![n] = 0]
                /\ nodeRefs' = [nodeRefs EXCEPT ![n] = @ - 1]
             \/ /\ ~(rc[n] <= 1)
                /\ rc' = [rc EXCEPT ![n] = @ - 1]
                /\ nodeRefs' = nodeRefs
    BY DEF Undo, Listed, UndoneLast
  <2>3. ~(rc[n] <= 1) <=> rc[n] > 1
    BY <2>1
  <2> QED
    BY <2>2, <2>3
<1>3. /\ rc \in [Node -> Nat] /\ taken \in [Node -> Nat] /\ nodeRefs \in [Node -> Nat]
      /\ taken[n] <= rc[n]
  BY <1>1 DEF TypeOK, UndoOK
<1> HIDE DEF IInv
<1>4. /\ rc[n] \in Nat \ {0} /\ taken[n] \in Nat \ {0}
      /\ rc[n] <= 1 => rc[n] = 1
  BY <1>2, <1>3
<1>5. /\ \A k \in Node : rc'[k] = IF k = n THEN rc[k] - 1 ELSE rc[k]
      /\ \A k \in Node : taken'[k] = IF k = n THEN taken[k] - 1 ELSE taken[k]
      /\ rc' \in [Node -> Nat]
      /\ taken' \in [Node -> Nat]
  BY <1>2, <1>3, <1>4
<1>6. NodeRefsExact' /\ nodeRefs' \in [Node -> Nat]
  <2>1. nodeRefs' \in [Node -> Int]
    BY <1>2, <1>3
  <2>2. ASSUME NEW k \in Node
        PROVE  nodeRefs'[k] - One(rc'[k] > 0) = nodeRefs[k] - One(rc[k] > 0)
    <3>1. CASE k # n
      <4>1. nodeRefs'[k] = nodeRefs[k] /\ rc'[k] = rc[k]
        BY <1>2, <1>3, <1>5, <3>1
      <4> QED
        BY <4>1
    <3>2. CASE k = n /\ rc[n] <= 1
      <4>1. nodeRefs'[n] = nodeRefs[n] - 1 /\ rc'[n] = 0 /\ rc[n] = 1 /\ nodeRefs[n] \in Nat
        BY <1>2, <1>3, <1>4, <3>2
      <4> QED
        BY <3>2, <4>1 DEF One
    <3>3. CASE k = n /\ rc[n] > 1
      <4>1. nodeRefs'[n] = nodeRefs[n] /\ rc'[n] > 0 /\ rc[n] > 0
        BY <1>2, <1>3, <1>4, <1>5, <3>3
      <4> QED
        BY <3>3, <4>1 DEF One
    <3> QED
      BY <1>4, <3>1, <3>2, <3>3
  <2> QED
    BY <1>1, <2>1, <2>2, RefsFollow DEF IInv
<1>7. TypeOK'
  BY <1>1, <1>5, <1>6 DEF IInv, TypeOK
<1>8. LockOK'
  BY <1>1 DEF IInv, LockOK
<1>9. StackOK'
  BY <1>1, EmptySeq DEF StackOK
<1>10. CountsAreNames'
  BY <1>1 DEF CountsAreNames
<1>11. UndoOK'
  <2>1. ASSUME NEW k \in Node
        PROVE  rc'[k] - taken'[k] = rc[k] - taken[k]
    <3>1. rc[k] \in Nat /\ taken[k] \in Nat
      BY <1>3
    <3>2. CASE k = n
      BY <1>5, <3>1, <3>2
    <3>3. CASE k # n
      BY <1>5, <3>3
    <3> QED
      BY <3>2, <3>3
  <2>2. \A k \in Node : Pins(k)' = Pins(k)
    BY <1>1, PinsStep
  <2> QED
    BY <1>1, <1>5, <2>1, <2>2, ListFollows DEF IInv
<1>12. CountedIsCached'
  <2>1. \A k \in Node : rc[k] \in Nat /\ (rc'[k] > 0 => rc[k] > 0)
    BY <1>3, <1>5
  <2> QED
    BY <1>1, <2>1 DEF IInv, CountedIsCached
<1>13. TreeStaysWhole'
  BY <1>1, TreeKept DEF IInv
<1> QED
  BY <1>6, <1>7, <1>8, <1>9, <1>10, <1>11, <1>12, <1>13 DEF IInv

(* The operation ends: the same nodes are counted, with the same pins.     *)
LEMMA EndKeeps ==
  ASSUME IInv, Finished, root' \in Node, stack = <<>>, stack' = <<>>,
         UNCHANGED <<stored, cached, nodeRefs, rc, held>>,
         origin' \in {"new", "linked", "opened"}, origin' = "new" => root' = Empty,
         \A k \in Node : rc[k] = Pins(k)' + Cardinality({e \in Node \X Name :
                            e[2] \in Names(e[1]) /\ rc[e[1]] > 0 /\ Child[e[1]][e[2]] = k}),
         TreeStaysWhole'
  PROVE  IInv'
<1> USE DEF IInv, Finished
<1>1. TypeOK'
  <2>1. taken' \in [Node -> Nat]
    BY DEF Nothing
  <2> QED
    BY <2>1 DEF TypeOK
<1>2. LockOK'
  BY DEF LockOK, Nothing
<1>3. StackOK'
  BY EmptySeq DEF StackOK
<1>4. CountsAreNames'
  <2>1. \A q : Running(q)' = {}
    BY EmptySeq DEF Running
  <2>2. \A k \in Node : NamesOf(k)' = {e \in Node \X Name :
                            e[2] \in Names(e[1]) /\ rc[e[1]] > 0 /\ Child[e[1]][e[2]] = k}
    BY <2>1 DEF NamesOf, Counts, Names
  <2> QED
    BY <2>2 DEF CountsAreNames
<1>5. UndoOK'
  BY DEF UndoOK
<1>6. NodeRefsExact'
  BY RefsKept
<1>7. CountedIsCached'
  BY DEF CountedIsCached
<1> QED
  BY <1>1, <1>2, <1>3, <1>4, <1>5, <1>6, <1>7

LEMMA UndoneKeeps == IInv /\ Undone => IInv'
<1> SUFFICES ASSUME IInv, Undone PROVE IInv'
  OBVIOUS
<1> USE DEF IInv
<1>1. /\ mode = "undo" /\ mode' = "idle" /\ stack = <<>> /\ stack' = <<>>
      /\ taken = Nothing /\ Finished
      /\ UNCHANGED <<stored, cached, nodeRefs, rc, root, origin, held>>
  BY DEF Undone, LockOK, Finished, counts
<1>2. \A k \in Node : Pins(k)' = Pins(k)
  BY <1>1 DEF Pins, One, Finished
<1>3. \A k \in Node : taken[k] = 0 /\ rc[k] \in Nat
  BY <1>1 DEF Nothing, TypeOK
<1>4. \A k \in Node : rc[k] = Pins(k)' + Cardinality(OldNamesOf(k))
  BY <1>1, <1>2, <1>3 DEF UndoOK
<1>5. \A k \in Node : OldNamesOf(k) = {e \in Node \X Name :
                          e[2] \in Names(e[1]) /\ rc[e[1]] > 0 /\ Child[e[1]][e[2]] = k}
  BY <1>3 DEF OldNamesOf
<1>6. TreeStaysWhole'
  BY <1>1, TreeKept
<1> HIDE DEF IInv
<1> QED
  BY <1>1, <1>4, <1>5, <1>6, EndKeeps DEF IInv, TypeOK, LockOK

(* A root that has a pin is a whole loaded tree.                           *)
LEMMA PinnedIsWhole ==
  ASSUME IInv, mode # "undo", stack = <<>>, NEW n \in Node, Pins(n) > 0
  PROVE  Below[n] \subseteq cached
<1>1. rc[n] > 0
  <2>1. rc[n] = Pins(n) + Cardinality(NamesOf(n))
    BY DEF IInv, CountsAreNames
  <2>2. Pins(n) \in Nat /\ Cardinality(NamesOf(n)) \in Nat
    BY PinsType, CardinalityTypes
  <2> QED
    BY <2>1, <2>2
<1> QED
  BY <1>1, LiveClosed DEF IInv, CountedIsCached

(* Open and Commit: the new root is pinned before it is installed.         *)
LEMMA InstallKeeps ==
  ASSUME IInv, mode \in {"taken", "released"}, mode = "taken" <=> op = "open",
         Finished, root' = next, stack' = stack,
         origin' = IF op = "open" THEN "opened" ELSE origin,
         UNCHANGED <<stored, cached, counts, held>>
  PROVE  IInv'
<1> USE DEF IInv
<1>1. /\ stack = <<>> /\ next \in Node
      /\ UNCHANGED <<nodeRefs, rc>>
      /\ op = "open" => root = Empty /\ origin = "new"
      /\ op # "open" => mode = "released"
      /\ mode' = "idle"
  BY DEF LockOK, TypeOK, counts, Finished
<1>2. \A k \in Node : Pins(k)' = Pins(k)
  <2> SUFFICES ASSUME NEW k \in Node PROVE Pins(k)' = Pins(k)
    OBVIOUS
  <2>1. CASE op = "open"
    BY <1>1, <2>1, NodeAssumption DEF Pins, One
  <2>2. CASE op # "open"
    BY <1>1, <2>2 DEF Pins, One
  <2> QED
    BY <2>1, <2>2
<1>3. \A k \in Node : NamesOf(k) = {e \in Node \X Name :
                          e[2] \in Names(e[1]) /\ rc[e[1]] > 0 /\ Child[e[1]][e[2]] = k}
  BY <1>1, RunningNone DEF NamesOf, Counts
<1>4. \A k \in Node : rc[k] = Pins(k) + Cardinality(NamesOf(k))
  BY <1>1 DEF CountsAreNames
<1>5. Below[next] \subseteq cached
  <2>1. PICK n \in Node : n = next
    BY <1>1
  <2>2. Pins(n) > 0
    BY <1>1, <2>1 DEF Pins, One
  <2> QED
    BY <1>1, <2>1, <2>2, PinnedIsWhole
<1>6. TreeStaysWhole'
  BY <1>5 DEF TreeStaysWhole, Below, Closed, Names
<1>7. origin' \in {"new", "linked", "opened"}
  BY DEF TypeOK
<1>8. origin' # "new"
  <2>1. op # "open" => op = "link"
    BY DEF LockOK, TypeOK
  <2>2. op # "open" => origin # "new"
    BY <2>1 DEF LockOK
  <2> QED
    BY <1>1, <2>2
<1> HIDE DEF IInv
<1> QED
  BY <1>1, <1>2, <1>3, <1>4, <1>6, <1>7, <1>8, EndKeeps

LEMMA OpenKeeps == IInv /\ Open => IInv'
BY InstallKeeps DEF Open, counts

LEMMA CommitKeeps == IInv /\ Commit => IInv'
<1>1. IInv /\ Commit => op # "open"
  BY DEF IInv, LockOK, Commit
<1> QED
  BY <1>1, InstallKeeps DEF Commit, counts

(* recursiveRelease on a node with other counts.                           *)
LEMMA SharedKeeps ==
  ASSUME IInv, mode \in {"taken", "release"}, op = "link",
         NEW n \in Node, NEW x \in Name \union {NoNode}, ReleaseShared(n, x),
         UNCHANGED <<stored, cached, nodeRefs, root, origin, op, next, taken, held>>,
         \/ mode = "taken" /\ n = root /\ mode' = "released"
         \/ mode = "release" /\ stack # <<>> /\ x \in Top.left /\ n = Child[Top.node][x] /\ mode' = mode
  PROVE  IInv'
<1> USE DEF IInv
<1>1. /\ rc \in [Node -> Nat]
      /\ rc' = [rc EXCEPT ![n] = @ - 1]
      /\ rc[n] > 1
      /\ stack' = Without(stack, x)
      /\ mode = "taken" => stack = <<>>
  BY DEF ReleaseShared, TypeOK, LockOK
<1>2. /\ \A k \in Node : rc'[k] = IF k = n THEN rc[k] + (-1) ELSE rc[k]
      /\ rc' \in [Node -> Nat]
      /\ \A k \in Node : rc'[k] > 0 <=> rc[k] > 0
  <2> HIDE DEF IInv
  <2> QED
    BY <1>1
<1>3. /\ StackOK'
      /\ stack' \in Seq(Frames)
      /\ mode = "taken" => stack' = <<>>
      /\ mode = "release" => stack' # <<>>
  <2>1. CASE mode = "taken"
    <3>1. stack' = <<>> /\ Len(stack') = 0
      BY <1>1, <2>1, EmptySeq DEF Without
    <3> QED
      BY <2>1, <3>1, EmptySeq DEF StackOK
  <2>2. CASE mode = "release"
    <3>1. \A q \in Node : q # Child[Top.node][x] => rc'[q] = rc[q]
      BY <1>2, <2>2
    <3> QED
      BY <1>1, <2>2, <3>1, ReturnStack
  <2> QED
    BY <2>1, <2>2
<1>4. TypeOK'
  BY <1>2, <1>3 DEF TypeOK, Frames
<1>5. LockOK'
  BY <1>3 DEF LockOK
<1>6. CountsAreNames'
  <2>1. CASE mode = "taken"
    <3>1. \A k \in Node : NamesOf(k)' = NamesOf(k)
      <4>1. \A q : Running(q) = {} /\ Running(q)' = {}
        BY <1>1, <1>3, <2>1, RunningNone, EmptySeq DEF Running
      <4>2. \A q \in Node, z \in Name : Counts(q, z)' <=> Counts(q, z)
        BY <1>2, <4>1 DEF Counts, Names
      <4> QED
        BY <4>2, NamesSame
    <3>2. \A k \in Node : Pins(k)' = IF k = n THEN Pins(k) + (-1) ELSE Pins(k)
      <4>1. \A k \in Node : Pins(k)' = Pins(k) - One(k = n) /\ Pins(k) \in Nat
        BY <2>1, PinsStep, PinsType
      <4> QED
        BY <4>1 DEF One
    <3> QED
      BY <1>2, <3>1, <3>2, CountFollows
  <2>2. CASE mode = "release"
    <3>1. PICK t \in Node : t = Top.node
      BY <2>2, TopFacts DEF Frames
    <3>2. SameCountsBut(t, x) /\ Counts(t, x) /\ ~Counts(t, x)'
      BY <1>1, <1>2, <2>2, <3>1, ReturnCounts
    <3>3. x \in Name /\ Child[t][x] = n
      BY <2>2, <3>1, ChildFacts
    <3>4. /\ Cardinality(NamesOf(n)') = Cardinality(NamesOf(n)) + (-1)
          /\ \A k \in Node \ {n} : NamesOf(k)' = NamesOf(k)
      <4>1. /\ Cardinality(NamesOf(n)') = Cardinality(NamesOf(n)) - 1
            /\ \A k \in Node \ {n} : NamesOf(k)' = NamesOf(k)
        BY <3>2, <3>3, NamesLose
      <4>2. Cardinality(NamesOf(n)) \in Nat
        BY CardinalityTypes
      <4> QED
        BY <4>1, <4>2
    <3>5. \A k \in Node : Pins(k)' = Pins(k)
      BY <2>2, PinsStep
    <3> QED
      BY <1>2, <2>2, <3>4, <3>5, CountFollows
  <2> QED
    BY <2>1, <2>2
<1>7. UndoOK'
  BY DEF UndoOK
<1>8. NodeRefsExact'
  BY <1>2, RefsKept
<1>9. CountedIsCached'
  BY <1>2 DEF CountedIsCached
<1>10. TreeStaysWhole'
  BY TreeKept
<1> QED
  BY <1>3, <1>4, <1>5, <1>6, <1>7, <1>8, <1>9, <1>10

LEMMA ReleaseRootKeeps == IInv /\ ReleaseRoot => IInv'
<1> SUFFICES ASSUME IInv, ReleaseRoot PROVE IInv'
  OBVIOUS
<1>1. /\ mode = "taken" /\ op = "link" /\ stack = <<>>
      /\ root \in Node /\ root \in cached
      /\ UNCHANGED <<stored, cached, nodeRefs, root, origin, op, next, taken, held>>
      /\ NoNode \in Name \union {NoNode}
  <2>1. root \in Below[root] /\ root \in Node
    BY DEF IInv, TypeOK, Below
  <2> QED
    BY <2>1 DEF IInv, LockOK, TypeOK, TreeStaysWhole, ReleaseRoot
<1>2. PICK n \in Node : n = root
  BY <1>1
<1>3. CASE ReleaseShared(root, NoNode) /\ mode' = "released"
  BY <1>1, <1>2, <1>3, SharedKeeps
<1>4. CASE ReleaseLast(root, NoNode) /\ mode' = "release"
  <2>1. /\ stack' = Append(stack, Frame(n, NoNode))
        /\ rc[n] = 1
        /\ UNCHANGED <<stored, counts, root, origin, op, next, taken, held>>
    BY <1>1, <1>2, <1>4 DEF ReleaseLast, counts
  <2>2. cached' = cached \union {n}
    BY <1>1, <1>2
  <2>3. n = (IF mode' = "take" THEN next ELSE root) /\ mode' = "release"
    BY <1>2, <1>4
  <2> QED
    BY <1>1, <2>1, <2>2, <2>3, CallKeeps
<1> QED
  BY <1>3, <1>4 DEF ReleaseRoot

LEMMA ReleaseChildKeeps == IInv /\ ReleaseChild => IInv'
<1> SUFFICES ASSUME IInv, ReleaseChild PROVE IInv'
  OBVIOUS
<1>1. /\ mode = "release" /\ op = "link" /\ stack # <<>>
      /\ UNCHANGED <<stored, cached, nodeRefs, root, origin, op, next, mode, taken, held>>
  BY DEF IInv, LockOK, TypeOK, ReleaseChild
<1>2. PICK x \in Top.left :
        /\ Child[Top.node][x] \in cached
        /\ ReleaseShared(Child[Top.node][x], x) \/ ReleaseLast(Child[Top.node][x], x)
  BY DEF ReleaseChild
<1>3. PICK n \in Node : n = Child[Top.node][x]
  BY <1>1, ChildFacts DEF IInv
<1>4. x \in Name
  BY <1>1, ChildFacts DEF IInv
<1>5. CASE ReleaseShared(n, x)
  BY <1>1, <1>3, <1>4, <1>5, SharedKeeps
<1>6. CASE ReleaseLast(n, x)
  <2>1. /\ stack' = Append(stack, Frame(n, x))
        /\ rc[n] = 1
        /\ UNCHANGED <<stored, counts, root, origin, op, next, taken, held>>
    BY <1>1, <1>6 DEF ReleaseLast, counts
  <2>2. cached' = cached \union {n}
    BY <1>1, <1>2, <1>3
  <2> QED
    BY <1>1, <1>3, <1>4, <2>1, <2>2, CallKeeps
<1> QED
  BY <1>2, <1>3, <1>5, <1>6

(* What readers do to the references leaves the manager's part alone.      *)
LEMMA ReaderKeeps ==
  ASSUME IInv, UNCHANGED <<stored, cached, rc, root, origin, task>>,
         nodeRefs' \in [Node -> Nat], held' \in [Readers -> Node \union {NoNode}],
         NodeRefsExact', TreeStaysWhole'
  PROVE  IInv'
<1> USE DEF IInv, task
<1>1. TypeOK' /\ LockOK' /\ StackOK'
  BY DEF TypeOK, LockOK, StackOK, Nothing, Names
<1>2. /\ \A k \in Node : NamesOf(k)' = NamesOf(k)
      /\ \A k \in Node : OldNamesOf(k)' = OldNamesOf(k)
      /\ \A k \in Node : Pins(k)' = Pins(k)
  BY DEF NamesOf, OldNamesOf, Counts, Running, Names, Pins, One
<1>3. CountsAreNames' /\ UndoOK' /\ CountedIsCached'
  BY <1>2 DEF CountsAreNames, UndoOK, CountedIsCached
<1> QED
  BY <1>1, <1>3

HeldBy(n) == {r \in Readers : held[r] = n}

LEMMA HeldByFinite ==
  ASSUME NEW n PROVE IsFiniteSet(HeldBy(n)) /\ Cardinality(HeldBy(n)) \in Nat
<1>1. HeldBy(n) \subseteq Readers
  BY DEF HeldBy
<1> QED
  BY <1>1, FiniteAssumption, FS_Subset, FS_CardinalityType

LEMMA LookupKeeps ==
  ASSUME IInv, NEW r \in Readers, NEW n \in Node, LookupNode(r, n)
  PROVE  IInv'
<1> USE DEF IInv
<1>1. /\ held \in [Readers -> Node \union {NoNode}]
      /\ nodeRefs \in [Node -> Nat]
      /\ held[r] = NoNode
      /\ nodeRefs' = [nodeRefs EXCEPT ![n] = @ + 1]
      /\ held' = [held EXCEPT ![r] = n]
      /\ n \in Below[root]
      /\ UNCHANGED <<stored, rc, root, origin, task>>
      /\ n # NoNode
  BY NodeAssumption DEF LookupNode, TypeOK
<1>2. n \in cached /\ cached' = cached
  BY <1>1 DEF TreeStaysWhole, LookupNode
<1> HIDE DEF IInv
<1>3. /\ nodeRefs' \in [Node -> Nat]
      /\ held' \in [Readers -> Node \union {NoNode}]
      /\ \A k \in Node : nodeRefs'[k] = IF k = n THEN nodeRefs[k] + 1 ELSE nodeRefs[k]
      /\ \A s \in Readers : held'[s] = IF s = r THEN n ELSE held[s]
  BY <1>1
<1>4. ASSUME NEW k \in Node
      PROVE  nodeRefs'[k] = One(rc'[k] > 0) + Cardinality(HeldBy(k)')
  <2>1. /\ nodeRefs[k] = One(rc[k] > 0) + Cardinality(HeldBy(k))
        /\ Cardinality(HeldBy(k)) \in Nat
        /\ One(rc[k] > 0) \in Nat
        /\ rc' = rc
    BY <1>1, HeldByFinite DEF IInv, NodeRefsExact, One, HeldBy
  <2>2. CASE k = n
    <3>1. HeldBy(n)' = HeldBy(n) \union {r} /\ r \notin HeldBy(n)
      BY <1>1, <1>3 DEF HeldBy
    <3>2. Cardinality(HeldBy(n) \union {r}) = Cardinality(HeldBy(n)) + 1
      BY <3>1, HeldByFinite, FS_AddElement
    <3> QED
      BY <1>3, <2>1, <2>2, <3>1, <3>2
  <2>3. CASE k # n
    <3>1. HeldBy(k)' = HeldBy(k)
      BY <1>1, <1>3, <2>3, NodeAssumption DEF HeldBy
    <3> QED
      BY <1>3, <2>1, <2>3, <3>1
  <2> QED
    BY <2>2, <2>3
<1>5. NodeRefsExact'
  BY <1>4 DEF NodeRefsExact, One, HeldBy
<1>6. TreeStaysWhole'
  <2>1. root' = root
    BY <1>1
  <2> QED
    BY <1>2, <1>3, <2>1 DEF IInv, TreeStaysWhole, Below, Closed, Names
<1> QED
  BY <1>1, <1>2, <1>3, <1>5, <1>6, ReaderKeeps

LEMMA ReleaseNodeKeeps ==
  ASSUME IInv, NEW r \in Readers, ReleaseNode(r)
  PROVE  IInv'
<1> USE DEF IInv
<1>1. PICK n \in Node : n = held[r]
  BY DEF ReleaseNode, TypeOK
<1>2. /\ held \in [Readers -> Node \union {NoNode}]
      /\ nodeRefs \in [Node -> Nat]
      /\ nodeRefs' = [nodeRefs EXCEPT ![n] = @ - 1]
      /\ held' = [held EXCEPT ![r] = NoNode]
      /\ UNCHANGED <<stored, cached, rc, root, origin, task>>
      /\ n # NoNode
  BY <1>1, NodeAssumption DEF ReleaseNode, TypeOK
<1> HIDE DEF IInv
<1>3. /\ nodeRefs' \in [Node -> Int]
      /\ held' \in [Readers -> Node \union {NoNode}]
      /\ \A k \in Node : nodeRefs'[k] = IF k = n THEN nodeRefs[k] - 1 ELSE nodeRefs[k]
      /\ \A s \in Readers : held'[s] = IF s = r THEN NoNode ELSE held[s]
  BY <1>2
<1>4. ASSUME NEW k \in Node
      PROVE  /\ nodeRefs'[k] = One(rc'[k] > 0) + Cardinality(HeldBy(k)')
             /\ nodeRefs'[k] \in Nat
  <2>1. /\ nodeRefs[k] = One(rc[k] > 0) + Cardinality(HeldBy(k))
        /\ Cardinality(HeldBy(k)) \in Nat
        /\ One(rc[k] > 0) \in Nat
        /\ rc' = rc
    BY <1>2, HeldByFinite DEF IInv, NodeRefsExact, One, HeldBy
  <2>2. CASE k = n
    <3>1. HeldBy(n)' = HeldBy(n) \ {r} /\ r \in HeldBy(n)
      BY <1>1, <1>2, <1>3 DEF HeldBy
    <3>2. Cardinality(HeldBy(n) \ {r}) = Cardinality(HeldBy(n)) - 1
      BY <3>1, HeldByFinite, FS_RemoveElement
    <3>3. Cardinality(HeldBy(n) \ {r}) \in Nat
      BY HeldByFinite, FS_RemoveElement, FS_CardinalityType
    <3> QED
      BY <1>3, <2>1, <2>2, <3>1, <3>2, <3>3
  <2>3. CASE k # n
    <3>1. HeldBy(k)' = HeldBy(k)
      BY <1>1, <1>3, <2>3, NodeAssumption DEF HeldBy
    <3> QED
      BY <1>3, <2>1, <2>3, <3>1
  <2> QED
    BY <2>2, <2>3
<1>5. NodeRefsExact' /\ nodeRefs' \in [Node -> Nat]
  <2>1. NodeRefsExact'
    BY <1>4 DEF NodeRefsExact, One, HeldBy
  <2>2. nodeRefs' \in [Node -> Nat]
    BY <1>3, <1>4
  <2> QED
    BY <2>1, <2>2
<1>6. TreeStaysWhole'
  BY <1>2, <1>3 DEF IInv, TreeStaysWhole, Below, Closed, Names
<1> QED
  BY <1>2, <1>3, <1>5, <1>6, ReaderKeeps

(* cleanup drops no counted node and none that a reader holds.             *)
LEMMA CleanupKeeps ==
  ASSUME IInv, Cleanup
  PROVE  IInv'
<1> USE DEF IInv
<1>1. /\ mode = "idle" /\ stack = <<>>
      /\ cached' = {n \in cached : nodeRefs[n] # 0}
      /\ UNCHANGED <<stored, nodeRefs, rc, root, origin, op, next, mode, stack, taken, held>>
  BY DEF Cleanup, Unreferenced, LockOK, counts, task
<1>2. \A n \in Node : rc[n] > 0 => nodeRefs[n] # 0
  <2> SUFFICES ASSUME NEW n \in Node, rc[n] > 0 PROVE nodeRefs[n] # 0
    OBVIOUS
  <2>1. nodeRefs[n] = 1 + Cardinality(HeldBy(n)) /\ Cardinality(HeldBy(n)) \in Nat
    BY HeldByFinite DEF NodeRefsExact, One, HeldBy
  <2> QED
    BY <2>1
<1>3. \A r \in Readers : held[r] # NoNode => held[r] \in Node /\ nodeRefs[held[r]] # 0
  <2> SUFFICES ASSUME NEW r \in Readers, held[r] # NoNode
               PROVE  held[r] \in Node /\ nodeRefs[held[r]] # 0
    OBVIOUS
  <2>1. PICK n \in Node : n = held[r]
    BY DEF TypeOK
  <2>2. r \in HeldBy(n)
    BY <2>1 DEF HeldBy
  <2>3. Cardinality(HeldBy(n)) # 0 /\ Cardinality(HeldBy(n)) \in Nat
    BY <2>2, HeldByFinite, FS_EmptySet
  <2>4. nodeRefs[n] = One(rc[n] > 0) + Cardinality(HeldBy(n)) /\ One(rc[n] > 0) \in Nat
    BY DEF NodeRefsExact, One, HeldBy
  <2> QED
    BY <2>1, <2>3, <2>4
<1>4. \A m \in Below[root] : m \in Node /\ rc[m] > 0
  <2>1. PICK n \in Node : n = root
    BY DEF TypeOK
  <2>2. rc[n] > 0
    <3>1. Pins(n) \in Nat /\ Pins(n) > 0 /\ Cardinality(NamesOf(n)) \in Nat
      <4>1. Pins(n) > 0
        BY <1>1, <2>1 DEF Pins, One
      <4> QED
        BY <4>1, PinsType, CardinalityTypes
    <3>2. rc[n] = Pins(n) + Cardinality(NamesOf(n))
      BY <1>1 DEF CountsAreNames
    <3> QED
      BY <3>1, <3>2
  <2> QED
    BY <1>1, <2>1, <2>2, LiveClosed
<1>5. TypeOK' /\ LockOK' /\ StackOK'
  <2>1. TypeOK'
    BY <1>1 DEF TypeOK
  <2>2. LockOK'
    BY <1>1 DEF LockOK, Nothing
  <2>3. StackOK'
    BY <1>1, EmptySeq DEF StackOK
  <2> QED
    BY <2>1, <2>2, <2>3
<1>6. \A k \in Node : NamesOf(k)' = NamesOf(k) /\ Pins(k)' = Pins(k)
  BY <1>1 DEF NamesOf, Counts, Running, Names, Pins, One
<1>7. CountsAreNames' /\ UndoOK'
  BY <1>1, <1>6 DEF CountsAreNames, UndoOK
<1>8. NodeRefsExact'
  BY <1>1, RefsKept
<1>9. CountedIsCached'
  BY <1>1, <1>2 DEF CountedIsCached
<1>10. TreeStaysWhole'
  <2>1. /\ root' = root /\ held' = held
        /\ Below[root] \subseteq cached
        /\ \A r \in Readers : held[r] # NoNode => held[r] \in cached
    BY <1>1 DEF TreeStaysWhole
  <2>2. \A m \in Below[root] : m \in cached'
    BY <1>1, <1>2, <1>4, <2>1
  <2>3. \A r \in Readers : held[r] # NoNode => held[r] \in cached'
    BY <1>1, <1>3, <2>1
  <2> QED
    BY <2>1, <2>2, <2>3 DEF TreeStaysWhole, Below, Closed, Names
<1> QED
  BY <1>5, <1>7, <1>8, <1>9, <1>10

-----------------------------------------------------------------------------
(* The theorems.                                                           *)

(* Every operation of the store, the manager and the readers keeps the     *)
(* inductive invariant.                                                    *)
THEOREM Inductive == IInv /\ [Next]_vars => IInv'
<1> SUFFICES ASSUME IInv, [Next]_vars PROVE IInv'
  OBVIOUS
<1>1. ASSUME NEW n \in Node, Store(n) PROVE IInv'
  <2>1. /\ stored' \subseteq Node
        /\ UNCHANGED <<cached, nodeRefs, rc, root, origin, op, next, mode, stack, taken, held>>
    BY <1>1 DEF Store, IInv, TypeOK, counts, task
  <2>2. cached' \subseteq Node /\ cached \subseteq cached'
    BY <2>1 DEF IInv, TypeOK
  <2> QED
    BY <2>1, <2>2, UnseenStep
<1>2. ASSUME NEW n \in Node, Evict(n) PROVE IInv'
  <2>1. /\ stored' \subseteq Node
        /\ UNCHANGED <<cached, nodeRefs, rc, root, origin, op, next, mode, stack, taken, held>>
    BY <1>2 DEF Evict, IInv, TypeOK, counts, task
  <2>2. cached' \subseteq Node /\ cached \subseteq cached'
    BY <2>1 DEF IInv, TypeOK
  <2> QED
    BY <2>1, <2>2, UnseenStep
<1>3. ASSUME NEW o \in {"link", "open"}, NEW n \in Node, Begin(o, n) PROVE IInv'
  BY <1>3, BeginKeeps
<1>4. CASE TreeStep
  BY <1>4, TakeRootKeeps, TakeChildKeeps, TakeFailsKeeps, TakeDoneKeeps, UndoKeeps,
     UndoneKeeps, OpenKeeps, ReleaseRootKeeps, ReleaseChildKeeps, ReleaseDoneKeeps,
     CommitKeeps DEF TreeStep
<1>5. ASSUME NEW r \in Readers, NEW n \in Node, LookupNode(r, n) PROVE IInv'
  BY <1>5, LookupKeeps
<1>6. ASSUME NEW r \in Readers, ReleaseNode(r) PROVE IInv'
  BY <1>6, ReleaseNodeKeeps
<1>7. CASE Cleanup
  BY <1>7, CleanupKeeps
<1>8. CASE UNCHANGED vars
  <2>1. UNCHANGED <<stored, cached, nodeRefs, rc, root, origin, op, next, mode, stack,
                    taken, held>>
    BY <1>8 DEF vars, counts, task
  <2>2. stored' \subseteq Node /\ cached' \subseteq Node /\ cached \subseteq cached'
    BY <2>1 DEF IInv, TypeOK
  <2> QED
    BY <2>1, <2>2, UnseenStep
<1> QED
  BY <1>1, <1>2, <1>3, <1>4, <1>5, <1>6, <1>7, <1>8 DEF Next

(* In every reachable state the inductive invariant holds.                 *)
THEOREM Invariance == Spec => []IInv
<1>1. Init => IInv
  BY InitIInv
<1>2. IInv /\ [Next]_vars => IInv'
  BY Inductive
<1> QED
  BY <1>1, <1>2, PTL DEF Spec

(* Type correctness: in particular no reference or name count of the       *)
(* manager ever becomes negative.                                          *)
THEOREM TypeCorrect == Spec => []TypeOK
<1>1. IInv => TypeOK
  BY DEF IInv
<1> QED
  BY <1>1, Invariance, PTL

(* At every step of recursiveTake and recursiveRelease, and after a        *)
(* rollback, counts are names plus top-level takes.                        *)
THEOREM CountsExact == Spec => []CountsAreNames
<1>1. IInv => CountsAreNames
  BY DEF IInv
<1> QED
  BY <1>1, Invariance, PTL

(* The references of a node are the manager's one and its readers'.        *)
THEOREM RefsExact == Spec => []NodeRefsExact
<1>1. IInv => NodeRefsExact
  BY DEF IInv
<1> QED
  BY <1>1, Invariance, PTL

(* The current tree and what readers hold is loaded at every moment.       *)
THEOREM TreeWhole == Spec => []TreeStaysWhole
<1>1. IInv => TreeStaysWhole
  BY DEF IInv
<1> QED
  BY <1>1, Invariance, PTL

(* The fatal branches of recursiveRelease are unreachable.                 *)
THEOREM ReleaseSafe == Spec => []ReleaseCannotFail
<1>1. IInv => ReleaseCannotFail
  <2> SUFFICES ASSUME IInv, mode = "release", stack # <<>>, NEW x \in Top.left
               PROVE  Child[Top.node][x] \in cached /\ rc[Child[Top.node][x]] > 0
    BY DEF ReleaseCannotFail
  <2> USE DEF IInv
  <2>1. PICK t \in Node : t = Top.node
    BY TopFacts DEF Frames
  <2>2. PICK n \in Node : n = Child[t][x]
    BY <2>1, ChildFacts
  <2>3. x \in Name /\ x \in Names(t) /\ Running(t) = {Len(stack)} /\ stack[Len(stack)] = Top
    BY <2>1, TopFacts, ChildFacts DEF StackOK, Top
  <2>4. Counts(t, x)
    BY <2>3 DEF Counts
  <2>5. rc[n] > 0
    BY <2>2, <2>3, <2>4, NamedIsCounted
  <2> QED
    BY <2>1, <2>2, <2>5 DEF CountedIsCached
<1> QED
  BY <1>1, Invariance, PTL

(* The manager implements TreeStore: the tree a reader sees changes in one *)
(* step from one whole tree to another, and what it reads or holds stays.  *)
THEOREM Refinement == Spec => ImplementsTreeStore
<1>1. Init => Tree!Init
  <2> SUFFICES ASSUME Init PROVE Tree!Init
    OBVIOUS
  <2>1. IInv
    BY InitIInv
  <2> QED
    BY <2>1 DEF IInv, TypeOK, TreeStaysWhole, Init, Tree!Init
<1>2. IInv /\ IInv' /\ [Next]_vars => [Tree!Next]_(Tree!vars)
  <2> SUFFICES ASSUME IInv, IInv', [Next]_vars
               PROVE  [Tree!Next]_(Tree!vars)
    OBVIOUS
  <2>1. CASE root' = root /\ held' = held /\ cached \subseteq cached'
    <3>1. Tree!Load
      BY <2>1 DEF Tree!Load
    <3> QED
      BY <3>1 DEF Tree!Next
  <2>2. CASE Open \/ Commit
    <3>1. root' = next /\ cached' = cached /\ held' = held
      BY <2>2 DEF Open, Commit
    <3>2. root' \in Node /\ Below[root'] \subseteq cached'
      BY DEF IInv, TypeOK, TreeStaysWhole, Below, Closed, Names
    <3>3. PICK n \in Node : n = next
      BY <3>1, <3>2
    <3>4. Tree!Install(n)
      BY <3>1, <3>2, <3>3 DEF Tree!Install
    <3> QED
      BY <3>4 DEF Tree!Next
  <2>3. ASSUME NEW r \in Readers, NEW n \in Node, LookupNode(r, n)
        PROVE  [Tree!Next]_(Tree!vars)
    <3>1. n \in Below[root] /\ n \in cached
      BY <2>3 DEF LookupNode, IInv, TreeStaysWhole
    <3>2. Tree!Hold(r, n)
      BY <2>3, <3>1 DEF LookupNode, Tree!Hold
    <3> QED
      BY <3>2 DEF Tree!Next
  <2>4. ASSUME NEW r \in Readers, ReleaseNode(r)
        PROVE  [Tree!Next]_(Tree!vars)
    <3>1. Tree!GiveBack(r)
      BY <2>4 DEF ReleaseNode, Tree!GiveBack
    <3> QED
      BY <3>1 DEF Tree!Next
  <2>5. CASE Cleanup
    <3>1. root' = root /\ held' = held /\ cached' \subseteq cached
      BY <2>5 DEF Cleanup
    <3>2. Below[root] \subseteq cached' /\ \A r \in Readers : held[r] # NoNode => held[r] \in cached'
      BY <3>1 DEF IInv, TreeStaysWhole, Below, Closed, Names
    <3>3. Tree!Forget
      BY <3>1, <3>2 DEF Tree!Forget, Tree!Held
    <3> QED
      BY <3>3 DEF Tree!Next
  <2>6. ASSUME NEW n \in Node, Store(n) \/ Evict(n)
        PROVE  root' = root /\ held' = held /\ cached \subseteq cached'
    BY <2>6 DEF Store, Evict
  <2>7. ASSUME NEW o \in {"link", "open"}, NEW n \in Node, Begin(o, n)
        PROVE  root' = root /\ held' = held /\ cached \subseteq cached'
    BY <2>7 DEF Begin
  <2>8. CASE TreeStep /\ ~(Open \/ Commit)
    <3>1. root' = root /\ held' = held /\ cached \subseteq cached'
      BY <2>8 DEF TreeStep, TakeRoot, TakeChild, TakeFails, TakeDone, Undo, Undone,
                  ReleaseRoot, ReleaseChild, ReleaseDone
    <3> QED
      BY <2>1, <3>1
  <2>9. CASE UNCHANGED vars
    BY <2>1, <2>9 DEF vars
  <2> QED
    BY <2>1, <2>2, <2>3, <2>4, <2>5, <2>6, <2>7, <2>8, <2>9 DEF Next, TreeStep
<1> QED
  BY <1>1, <1>2, Invariance, PTL DEF Spec, ImplementsTreeStore, Tree!Spec
-----------------------------------------------------------------------------
(* The handlers, beside the reference manager.                             *)
Holds == [by : Calls, blob : H!Blob, left : Nat]
Requests == [stage : {"idle", "body", "stored", "linked", "loaded", "stale"}, node : Linked \union {NoNode},
             blob : H!Blob \union {"none"}]

HandlersTypes ==
  /\ heldCount \in [H!Blob -> Int]
  /\ loaded \subseteq Linked
  /\ tree = NoNode \/ tree \in loaded
  /\ heldRefs \in Seq(Holds)
  /\ call \in [Calls -> Requests]
  /\ \A c \in Calls : /\ call[c].stage \in {"body", "stored"} => call[c].blob \in H!Blob
                      /\ call[c].stage \in {"linked", "loaded", "stale"} => call[c].node \in Linked
  /\ promise \in [Calls -> [blobs : SUBSET H!Blob, left : Nat]]

(* How often the holder has a reference on a blob.                         *)
Times(s, b) == Cardinality({i \in DOMAIN s : s[i].blob = b})
OfNode(b) == IF b[1] \in loaded THEN 1 ELSE 0
StoredFor(b) == {c \in Calls : call[c].stage = "stored" /\ call[c].blob = b}

(* A node in the cache, every entry of heldRefs and every upload under way *)
(* have a reference of their own.                                          *)
RefsSuffice ==
  \A b \in H!Blob : heldCount[b] >= OfNode(b) + Times(heldRefs, b) + Cardinality(StoredFor(b))

(* A promise has a hold that lasts as long.                                *)
PromisesHeld ==
  \A c \in Calls : promise[c].blobs # {} =>
    /\ promise[c].left > 0
    /\ \A b \in promise[c].blobs : \E i \in DOMAIN heldRefs :
         heldRefs[i].blob = b /\ heldRefs[i].left >= promise[c].left

HandlersOK == HandlersTypes /\ RefsSuffice /\ PromisesHeld

LEMMA TimesFinite ==
  ASSUME NEW s \in Seq(Holds), NEW b
  PROVE  IsFiniteSet({i \in DOMAIN s : s[i].blob = b}) /\ Times(s, b) \in Nat
<1>1. DOMAIN s = 1..Len(s) /\ Len(s) \in Int /\ 1 \in Int
  OBVIOUS
<1>2. IsFiniteSet(1..Len(s))
  BY <1>1, FS_Interval
<1>3. {i \in DOMAIN s : s[i].blob = b} \subseteq 1..Len(s)
  BY <1>1
<1>4. IsFiniteSet({i \in DOMAIN s : s[i].blob = b})
  BY <1>2, <1>3, FS_Subset
<1> QED
  BY <1>4, FS_CardinalityType DEF Times

LEMMA TimesAdd ==
  ASSUME NEW s \in Seq(Holds), NEW t \in Seq(Holds), NEW b
  PROVE  Times(s \o t, b) = Times(s, b) + Times(t, b)
<1> DEFINE n == Len(s)
           m == Len(t)
           A == {i \in 1..n : s[i].blob = b}
           B == {i \in 1..m : t[i].blob = b}
           C == {i \in (n + 1)..(n + m) : t[i - n].blob = b}
           move == [i \in B |-> i + n]
<1>1. n \in Nat /\ m \in Nat /\ DOMAIN s = 1..n /\ DOMAIN t = 1..m
  OBVIOUS
<1>2. /\ DOMAIN (s \o t) = 1..(n + m)
      /\ \A i \in 1..(n + m) : (s \o t)[i] = IF i <= n THEN s[i] ELSE t[i - n]
  <2>1. s \o t \in Seq(Holds) /\ Len(s \o t) = n + m
    BY ConcatProperties
  <2>2. DOMAIN (s \o t) = 1..Len(s \o t)
    BY <2>1
  <2> QED
    BY <2>1, <2>2, ConcatProperties
<1>3. {i \in DOMAIN (s \o t) : (s \o t)[i].blob = b} = A \union C
  <2>1. 1..(n + m) = (1..n) \union ((n + 1)..(n + m))
    BY <1>1
  <2>2. \A i \in 1..n : i \in 1..(n + m) /\ (s \o t)[i] = s[i]
    BY <1>1, <1>2
  <2>3. \A i \in (n + 1)..(n + m) : i \in 1..(n + m) /\ (s \o t)[i] = t[i - n]
    BY <1>1, <1>2
  <2> HIDE DEF n, m
  <2> QED
    BY <1>2, <2>1, <2>2, <2>3
<1>4. A \intersect C = {}
  BY <1>1
<1>5. IsFiniteSet(A) /\ IsFiniteSet(B)
  BY <1>1, TimesFinite
<1>6. move \in Bijection(B, C)
  <2> HIDE DEF n, m
  <2>1. \A i \in B : i + n \in C
    <3> TAKE i \in B
    <3>1. i \in 1..m /\ i + n \in (n + 1)..(n + m) /\ (i + n) - n = i
      BY <1>1
    <3> QED
      BY <3>1
  <2>2. \A i, j \in B : move[i] = move[j] => i = j
    BY <1>1
  <2>3. \A k \in C : \E i \in B : move[i] = k
    <3> TAKE k \in C
    <3>1. k - n \in B /\ (k - n) + n = k
      BY <1>1
    <3> QED
      BY <3>1
  <2>4. move \in [B -> C]
    BY <2>1
  <2> HIDE DEF B, C, move
  <2> QED
    BY <2>2, <2>3, <2>4 DEF Bijection, Injection, Surjection, IsInjective
<1>7. IsFiniteSet(C) /\ Cardinality(C) = Cardinality(B)
  BY <1>5, <1>6, FS_Bijection DEF ExistsBijection
<1>8. Cardinality(A \union C) = Cardinality(A) + Cardinality(C)
  <2>1. Cardinality(A \union C) = Cardinality(A) + Cardinality(C) - Cardinality(A \intersect C)
    BY <1>5, <1>7, FS_Union
  <2>2. Cardinality(A \intersect C) = 0
    BY <1>4, FS_EmptySet
  <2>3. Cardinality(A) \in Nat /\ Cardinality(C) \in Nat
    BY <1>5, <1>7, FS_CardinalityType
  <2> QED
    BY ONLY <2>1, <2>2, <2>3
<1> QED
  BY <1>1, <1>3, <1>7, <1>8 DEF Times

(* The first k of them and the others.                                     *)
LEMMA TimesSplit ==
  ASSUME NEW s \in Seq(Holds), NEW k \in 1..Len(s), NEW b
  PROVE  /\ SubSeq(s, 1, k) \in Seq(Holds) /\ SubSeq(s, k + 1, Len(s)) \in Seq(Holds)
         /\ Times(s, b) = Times(SubSeq(s, 1, k), b) + Times(SubSeq(s, k + 1, Len(s)), b)
<1>1. SubSeq(s, 1, k) \in Seq(Holds) /\ SubSeq(s, k + 1, Len(s)) \in Seq(Holds)
  BY SubSeqProperties
<1>2. s = SubSeq(s, 1, k) \o SubSeq(s, k + 1, Len(s))
  OBVIOUS
<1>3. Times(SubSeq(s, 1, k) \o SubSeq(s, k + 1, Len(s)), b)
        = Times(SubSeq(s, 1, k), b) + Times(SubSeq(s, k + 1, Len(s)), b)
  BY <1>1, TimesAdd
<1> QED
  BY <1>1, <1>2, <1>3

LEMMA StoredFinite ==
  ASSUME IsFiniteSet(Calls), NEW b
  PROVE  IsFiniteSet(StoredFor(b)) /\ Cardinality(StoredFor(b)) \in Nat
<1>1. StoredFor(b) \subseteq Calls
  BY DEF StoredFor
<1> QED
  BY <1>1, FS_Subset, FS_CardinalityType

OneIf(a) == IF a THEN 1 ELSE 0

(* Plus and Minus, at one blob.                                            *)
LEMMA PlusIs ==
  ASSUME NEW refs \in [H!Blob -> Int], NEW S
  PROVE  /\ H!Plus(refs, S) \in [H!Blob -> Int] /\ H!Minus(refs, S) \in [H!Blob -> Int]
         /\ \A b \in H!Blob : /\ H!Plus(refs, S)[b] = refs[b] + OneIf(b \in S)
                              /\ H!Minus(refs, S)[b] = refs[b] - OneIf(b \in S)
BY DEF H!Plus, H!Minus, OneIf

LEMMA BlobIs ==
  /\ \A n \in Linked : /\ H!Meta(n) \in H!Blob /\ H!Content(n) \in H!Blob /\ H!Blobs(n) \subseteq H!Blob
                       /\ H!Meta(n) # H!Content(n)
                       /\ \A b \in H!Blob : b \in H!Blobs(n) <=> b[1] = n
  /\ \A b \in H!Blob : b[1] \in Linked
BY DEF H!Blob, H!Blobs, H!Meta, H!Content

(* Distinct blobs, one hold each, for as long as the answer is good.       *)
LEMMA HoldForKeeps ==
  ASSUME HandlersTypes, PromisesHeld, NEW c \in Calls, NEW refs \in [H!Blob -> Int],
         NEW blobs \in Seq(H!Blob), \A i, j \in DOMAIN blobs : blobs[i] = blobs[j] => i = j,
         NEW time \in Nat, time > 0, H!HoldFor(c, refs, blobs, time)
  PROVE  /\ heldCount' \in [H!Blob -> Int] /\ heldRefs' \in Seq(Holds)
         /\ promise' \in [Calls -> [blobs : SUBSET H!Blob, left : Nat]]
         /\ \A b \in H!Blob : heldCount'[b] - refs[b] = Times(heldRefs', b) - Times(heldRefs, b)
         /\ PromisesHeld'
<1> DEFINE S == {blobs[i] : i \in DOMAIN blobs}
           more == [i \in DOMAIN blobs |-> [by |-> c, blob |-> blobs[i], left |-> time]]
<1>0. heldRefs \in Seq(Holds) /\ promise \in [Calls -> [blobs : SUBSET H!Blob, left : Nat]]
  BY DEF HandlersTypes
<1>1. /\ heldCount' = H!Plus(refs, S) /\ heldRefs' = heldRefs \o more
      /\ promise' = [promise EXCEPT ![c] = [blobs |-> S, left |-> time]]
  BY DEF H!HoldFor
<1>2. /\ more \in Seq(Holds) /\ DOMAIN more = DOMAIN blobs /\ Len(more) = Len(blobs)
      /\ \A i \in DOMAIN blobs : more[i] = [by |-> c, blob |-> blobs[i], left |-> time]
  <2>1. DOMAIN blobs = 1..Len(blobs) /\ Len(blobs) \in Nat
    OBVIOUS
  <2>2. \A i \in DOMAIN blobs : [by |-> c, blob |-> blobs[i], left |-> time] \in Holds
    BY DEF Holds
  <2>3. more \in [1..Len(blobs) -> Holds]
    BY <2>1, <2>2
  <2> HIDE DEF more
  <2>4. more \in Seq(Holds) /\ DOMAIN more = 1..Len(blobs) /\ Len(more) = Len(blobs)
    BY <2>1, <2>3
  <2> QED
    BY <2>1, <2>4 DEF more
<1>3. S \subseteq H!Blob
  OBVIOUS
<1>4. ASSUME NEW b \in H!Blob PROVE Times(more, b) = OneIf(b \in S)
  <2> DEFINE At == {i \in DOMAIN more : more[i].blob = b}
  <2>1. At = {i \in DOMAIN blobs : blobs[i] = b}
    BY <1>2
  <2>2. CASE b \notin S
    <3>1. At = {}
      BY <2>1, <2>2
    <3>2. Cardinality(At) = 0
      BY <3>1, FS_EmptySet
    <3> QED
      BY <2>2, <3>2 DEF Times, OneIf
  <2>3. CASE b \in S
    <3>1. PICK i \in DOMAIN blobs : blobs[i] = b
      BY <2>3
    <3>2. At = {i}
      BY <2>1, <3>1
    <3>3. Cardinality(At) = 1
      BY <3>2, FS_Singleton
    <3> QED
      BY <2>3, <3>3 DEF Times, OneIf
  <2> QED
    BY <2>2, <2>3
<1> HIDE DEF S, more
<1>5. heldCount' \in [H!Blob -> Int] /\ \A b \in H!Blob : heldCount'[b] = refs[b] + OneIf(b \in S)
  BY <1>1, PlusIs
<1>6. heldRefs' \in Seq(Holds) /\ \A b : Times(heldRefs', b) = Times(heldRefs, b) + Times(more, b)
  BY <1>0, <1>1, <1>2, ConcatProperties, TimesAdd
<1>7. ASSUME NEW b \in H!Blob
      PROVE  heldCount'[b] - refs[b] = Times(heldRefs', b) - Times(heldRefs, b)
  <2>1. OneIf(b \in S) \in Nat /\ Times(heldRefs, b) \in Nat /\ refs[b] \in Int
    BY <1>0, TimesFinite DEF OneIf
  <2>2. heldCount'[b] = refs[b] + OneIf(b \in S) /\ Times(heldRefs', b) = Times(heldRefs, b) + OneIf(b \in S)
    BY <1>4, <1>5, <1>6
  <2> QED
    BY ONLY <2>1, <2>2
<1>8. promise' \in [Calls -> [blobs : SUBSET H!Blob, left : Nat]]
  BY <1>0, <1>1, <1>3
<1>9. /\ \A i \in DOMAIN heldRefs : i \in DOMAIN heldRefs' /\ heldRefs'[i] = heldRefs[i]
      /\ \A i \in DOMAIN more : i + Len(heldRefs) \in DOMAIN heldRefs'
                                /\ heldRefs'[i + Len(heldRefs)] = more[i]
  <2>1. heldRefs \in Seq(Holds) /\ more \in Seq(Holds) /\ heldRefs' = heldRefs \o more
    BY <1>0, <1>1, <1>2
  <2>2. \A i \in DOMAIN heldRefs : i \in DOMAIN heldRefs' /\ heldRefs'[i] = heldRefs[i]
    BY ONLY <2>1
  <2>3. \A i \in DOMAIN more : i + Len(heldRefs) \in DOMAIN heldRefs'
                                /\ heldRefs'[i + Len(heldRefs)] = more[i]
    BY ONLY <2>1
  <2> QED
    BY ONLY <2>2, <2>3
<1>10. PromisesHeld'
  <2> SUFFICES ASSUME NEW a \in Calls, NEW b \in promise'[a].blobs
               PROVE  /\ promise'[a].left > 0
                      /\ \E i \in DOMAIN heldRefs' :
                           heldRefs'[i].blob = b /\ heldRefs'[i].left >= promise'[a].left
    BY DEF PromisesHeld
  <2>1. CASE a = c
    <3>1. promise'[a] = [blobs |-> S, left |-> time]
      BY <1>0, <1>1, <2>1
    <3>2. PICK i \in DOMAIN blobs : blobs[i] = b
      BY <3>1 DEF S
    <3>3. heldRefs'[i + Len(heldRefs)] = [by |-> c, blob |-> b, left |-> time]
      BY <1>2, <1>9, <3>2
    <3> QED
      BY <1>2, <1>9, <3>1, <3>2, <3>3
  <2>2. CASE a # c
    <3>1. promise'[a] = promise[a]
      BY <1>0, <1>1, <2>2
    <3> QED
      BY <1>9, <3>1 DEF PromisesHeld
  <2> QED
    BY <2>1, <2>2
<1> QED
  BY <1>5, <1>6, <1>7, <1>8, <1>10

(* A step of one request changes whose upload is stored by what it does.   *)
Stores(r, b) == r.stage = "stored" /\ r.blob = b

LEMMA StoredMoves ==
  ASSUME IsFiniteSet(Calls), call \in [Calls -> Requests], NEW c \in Calls, NEW r, NEW b,
         \/ call' = [call EXCEPT ![c] = r]
         \/ call'[c] = r /\ \A d \in Calls \ {c} : Stores(call'[d], b) <=> Stores(call[d], b)
  PROVE  Cardinality(StoredFor(b)') = Cardinality(StoredFor(b)) - OneIf(Stores(call[c], b)) + OneIf(Stores(r, b))
<1> DEFINE S == StoredFor(b)
           T == StoredFor(b)'
<1>1. /\ c \in S <=> Stores(call[c], b)
      /\ c \in T <=> Stores(r, b)
      /\ \A d : d # c => (d \in S <=> d \in T)
  BY DEF StoredFor, Stores
<1>2. IsFiniteSet(S) /\ Cardinality(S) \in Nat
  BY StoredFinite
<1> HIDE DEF S, T
<1>3. CASE (c \in S) <=> (c \in T)
  <2>1. S = T
    BY <1>1, <1>3
  <2> QED
    BY <1>1, <1>2, <1>3, <2>1 DEF OneIf, S, T
<1>4. CASE c \in S /\ c \notin T
  <2>1. T = S \ {c}
    BY <1>1, <1>4
  <2>2. Cardinality(T) = Cardinality(S) - 1
    BY <1>2, <1>4, <2>1, FS_RemoveElement
  <2> QED
    BY <1>1, <1>2, <1>4, <2>2 DEF OneIf, S, T
<1>5. CASE c \notin S /\ c \in T
  <2>1. T = S \union {c}
    BY <1>1, <1>5
  <2>2. Cardinality(T) = Cardinality(S) + 1
    BY <1>2, <1>5, <2>1, FS_AddElement
  <2> QED
    BY <1>1, <1>2, <1>5, <2>2 DEF OneIf, S, T
<1> QED
  BY <1>3, <1>4, <1>5

(* A request whose node stays as it is, with its node and blob.            *)
LEMMA RequestTypes ==
  ASSUME HandlersTypes, NEW c \in Calls, NEW r \in Requests, call' = [call EXCEPT ![c] = r],
         r.stage \in {"body", "stored"} => r.blob \in H!Blob,
         r.stage \in {"linked", "loaded", "stale"} => r.node \in Linked
  PROVE  /\ call' \in [Calls -> Requests]
         /\ \A d \in Calls : /\ call'[d].stage \in {"body", "stored"} => call'[d].blob \in H!Blob
                             /\ call'[d].stage \in {"linked", "loaded", "stale"} => call'[d].node \in Linked
BY DEF HandlersTypes

(* What other requests' references outlive changes no request but in that  *)
(* it has loaded a node in vain.                                           *)
LEMMA OutlivedIs ==
  ASSUME HandlersTypes
  PROVE  /\ H!Outlived(heldCount') \in [Calls -> Requests]
         /\ \A d \in Calls :
              /\ H!Outlived(heldCount')[d].node = call[d].node
              /\ H!Outlived(heldCount')[d].blob = call[d].blob
              /\ \/ H!Outlived(heldCount')[d].stage = call[d].stage
                 \/ call[d].stage = "loaded" /\ H!Outlived(heldCount')[d].stage = "stale"
<1>1. \A d \in Calls : call[d] \in Requests
  BY DEF HandlersTypes
<1>2. ASSUME NEW d \in Calls
      PROVE  \/ H!Outlived(heldCount')[d] = call[d]
             \/ call[d].stage = "loaded" /\ H!Outlived(heldCount')[d] = [call[d] EXCEPT !.stage = "stale"]
  BY DEF H!Outlived
<1>3. ASSUME NEW d \in Calls
      PROVE  /\ H!Outlived(heldCount')[d] \in Requests
             /\ H!Outlived(heldCount')[d].node = call[d].node
             /\ H!Outlived(heldCount')[d].blob = call[d].blob
             /\ \/ H!Outlived(heldCount')[d].stage = call[d].stage
                \/ call[d].stage = "loaded" /\ H!Outlived(heldCount')[d].stage = "stale"
  BY <1>1, <1>2 DEF Requests
<1>4. H!Outlived(heldCount') = [d \in Calls |-> H!Outlived(heldCount')[d]]
  BY DEF H!Outlived
<1>5. H!Outlived(heldCount') \in [Calls -> Requests]
  BY <1>3, <1>4
<1> QED
  BY <1>3, <1>5

(* So the uploads are what they were.                                      *)
LEMMA OutlivedKeeps ==
  ASSUME HandlersTypes, call' = H!Outlived(heldCount')
  PROVE  /\ call' \in [Calls -> Requests]
         /\ \A d \in Calls : /\ call'[d].stage \in {"body", "stored"} => call'[d].blob \in H!Blob
                             /\ call'[d].stage \in {"linked", "loaded", "stale"} => call'[d].node \in Linked
         /\ \A b : StoredFor(b)' = StoredFor(b)
<1>1. /\ call' \in [Calls -> Requests]
      /\ \A d \in Calls :
           /\ call'[d].node = call[d].node /\ call'[d].blob = call[d].blob
           /\ call'[d].stage = call[d].stage \/ (call[d].stage = "loaded" /\ call'[d].stage = "stale")
  BY OutlivedIs
<1>2. \A d \in Calls : /\ call[d].stage \in {"body", "stored"} => call[d].blob \in H!Blob
                       /\ call[d].stage \in {"linked", "loaded", "stale"} => call[d].node \in Linked
  BY DEF HandlersTypes
<1>3. \A b : StoredFor(b)' = StoredFor(b)
  BY <1>1 DEF StoredFor
<1> QED
  BY <1>1, <1>2, <1>3

LEMMA IdleIs == H!Idle \in Requests /\ H!Idle.stage = "idle"
BY DEF H!Idle, Requests

(* As many references more as the nodes, the holder and the uploads need.  *)
LEMMA BalanceKeeps ==
  ASSUME IsFiniteSet(Calls), HandlersTypes, HandlersTypes', RefsSuffice,
         \A b \in H!Blob : heldCount'[b] - heldCount[b]
           >= (OfNode(b)' - OfNode(b)) + (Times(heldRefs', b) - Times(heldRefs, b))
              + (Cardinality(StoredFor(b)') - Cardinality(StoredFor(b)))
  PROVE  RefsSuffice'
<1> SUFFICES ASSUME NEW b \in H!Blob
             PROVE  heldCount'[b] >= OfNode(b)' + Times(heldRefs', b) + Cardinality(StoredFor(b)')
  BY DEF RefsSuffice
<1>1. OfNode(b) \in Nat /\ OfNode(b)' \in Nat
  BY DEF OfNode
<1>2. Times(heldRefs, b) \in Nat /\ Times(heldRefs', b) \in Nat
  BY TimesFinite DEF HandlersTypes
<1>3. StoredFor(b) \subseteq Calls /\ StoredFor(b)' \subseteq Calls
  BY DEF StoredFor
<1>4. Cardinality(StoredFor(b)) \in Nat /\ Cardinality(StoredFor(b)') \in Nat
  BY <1>3, FS_Subset, FS_CardinalityType
<1>5. heldCount[b] \in Int /\ heldCount'[b] \in Int
  BY DEF HandlersTypes
<1>6. /\ heldCount[b] >= OfNode(b) + Times(heldRefs, b) + Cardinality(StoredFor(b))
      /\ heldCount'[b] - heldCount[b]
           >= (OfNode(b)' - OfNode(b)) + (Times(heldRefs', b) - Times(heldRefs, b))
              + (Cardinality(StoredFor(b)') - Cardinality(StoredFor(b)))
  BY DEF RefsSuffice
<1> QED
  BY ONLY <1>1, <1>2, <1>4, <1>5, <1>6

(* Uploads.                                                                *)
LEMMA UploadKeeps ==
  ASSUME IsFiniteSet(Calls), HandlersOK, NEW c \in Calls, NEW n \in Linked, NEW b \in H!Blobs(n), H!Upload(c, b)
  PROVE  HandlersOK'
<1>0. HandlersTypes /\ RefsSuffice /\ PromisesHeld
  BY DEF HandlersOK
<1> DEFINE r == [H!Idle EXCEPT !.stage = "body", !.blob = b]
<1>1. call[c] = H!Idle /\ UNCHANGED <<heldCount, tree, loaded, heldRefs, promise>>
  BY DEF H!Upload, H!Ready
<1>2. r \in Requests /\ r.stage = "body" /\ r.blob \in H!Blob
  BY BlobIs DEF Requests, H!Idle
<1>3. call' = call \/ call' = [call EXCEPT ![c] = r]
  BY DEF H!Upload, H!To
<1> HIDE DEF r
<1>4. HandlersTypes'
  <2>1. CASE call' = call
    BY <1>0, <1>1, <2>1 DEF HandlersTypes
  <2>2. CASE call' = [call EXCEPT ![c] = r]
    BY <1>0, <1>1, <1>2, <2>2, RequestTypes DEF HandlersTypes
  <2> QED
    BY <1>3, <2>1, <2>2
<1>5. ASSUME NEW a \in H!Blob PROVE StoredFor(a)' = StoredFor(a)
  BY <1>0, <1>1, <1>2, <1>3, IdleIs DEF StoredFor, HandlersTypes
<1>6. RefsSuffice' /\ PromisesHeld'
  BY <1>0, <1>1, <1>5 DEF RefsSuffice, PromisesHeld, OfNode
<1> QED
  BY <1>4, <1>6 DEF HandlersOK

LEMMA UploadEnds ==
  ASSUME IsFiniteSet(Calls), HandlersOK, NEW c \in Calls, Long \in Nat, Long > 0,
         H!UploadStored(c) \/ H!UploadMismatch(c) \/ H!UploadAnswered(c)
  PROVE  HandlersOK'
<1>0. HandlersTypes /\ RefsSuffice /\ PromisesHeld
  BY DEF HandlersOK
<1> DEFINE a == call[c].blob
<1>1. call[c].stage \in {"body", "stored"} /\ a \in H!Blob /\ call[c] \in Requests
  BY <1>0 DEF H!UploadStored, H!UploadMismatch, H!UploadAnswered, HandlersTypes
<1>2. UNCHANGED <<tree, loaded>>
  BY DEF H!UploadStored, H!UploadMismatch, H!UploadAnswered
<1>3. heldCount \in [H!Blob -> Int] /\ heldRefs \in Seq(Holds) /\ call \in [Calls -> Requests]
  BY <1>0 DEF HandlersTypes
<1>4. \A b : OfNode(b)' = OfNode(b)
  BY <1>2 DEF OfNode
<1>5. \A b : Cardinality(StoredFor(b)) \in Nat /\ Times(heldRefs, b) \in Nat /\ OfNode(b) \in Nat
  BY <1>3, StoredFinite, TimesFinite DEF OfNode
<1>6. CASE H!UploadStored(c)
  <2> DEFINE r == [call[c] EXCEPT !.stage = "stored"]
  <2>1. /\ heldCount' = H!Plus(heldCount, {a}) /\ call' = [call EXCEPT ![c] = r]
        /\ call[c].stage = "body" /\ UNCHANGED <<heldRefs, promise>>
    BY <1>6 DEF H!UploadStored, H!To
  <2>2. r \in Requests /\ r.stage = "stored" /\ r.blob = a
    BY <1>1 DEF Requests
  <2> HIDE DEF r
  <2>3. heldCount' \in [H!Blob -> Int] /\ \A b \in H!Blob : heldCount'[b] = heldCount[b] + OneIf(b \in {a})
    BY <1>3, <2>1, PlusIs
  <2>4. HandlersTypes'
    BY <1>0, <1>1, <1>2, <2>1, <2>2, <2>3, RequestTypes DEF HandlersTypes
  <2>5. ASSUME NEW b \in H!Blob
        PROVE  Cardinality(StoredFor(b)') - Cardinality(StoredFor(b)) = heldCount'[b] - heldCount[b]
    <3>1. OneIf(Stores(call[c], b)) = 0 /\ OneIf(Stores(r, b)) = OneIf(b \in {a})
      BY <2>1, <2>2 DEF OneIf, Stores
    <3>2. Cardinality(StoredFor(b)') = Cardinality(StoredFor(b)) - 0 + OneIf(b \in {a})
      BY <1>3, <2>1, <3>1, StoredMoves
    <3>3. heldCount[b] \in Int /\ heldCount'[b] = heldCount[b] + OneIf(b \in {a}) /\ OneIf(b \in {a}) \in Nat
      BY <1>3, <2>3 DEF OneIf
    <3>4. Cardinality(StoredFor(b)) \in Nat
      BY <1>5
    <3> QED
      BY ONLY <3>2, <3>3, <3>4
  <2>6. RefsSuffice'
    <3>1. \A b \in H!Blob : heldCount'[b] - heldCount[b]
            >= (OfNode(b)' - OfNode(b)) + (Times(heldRefs', b) - Times(heldRefs, b))
               + (Cardinality(StoredFor(b)') - Cardinality(StoredFor(b)))
      <4> TAKE b \in H!Blob
      <4>1. OfNode(b)' - OfNode(b) = 0 /\ Times(heldRefs', b) - Times(heldRefs, b) = 0
        BY <1>4, <1>5, <2>1
      <4>2. heldCount'[b] \in Int /\ heldCount[b] \in Int
        BY <1>3, <2>3
      <4> QED
        BY <2>5, <4>1, <4>2
    <3> QED
      BY <1>0, <2>4, <3>1, BalanceKeeps
  <2>7. PromisesHeld'
    BY <1>0, <2>1 DEF PromisesHeld
  <2> QED
    BY <2>4, <2>6, <2>7 DEF HandlersOK
<1>7. CASE H!UploadMismatch(c)
  <2>1. /\ heldCount' = H!Minus(heldCount, {a}) /\ call' = [H!Outlived(heldCount') EXCEPT ![c] = H!Idle]
        /\ call[c].stage = "stored" /\ UNCHANGED <<heldRefs, promise>>
    BY <1>7 DEF H!UploadMismatch
  <2>2. /\ call' \in [Calls -> Requests] /\ call'[c] = H!Idle
        /\ \A d \in Calls \ {c} :
             /\ call'[d].node = call[d].node /\ call'[d].blob = call[d].blob
             /\ call'[d].stage = call[d].stage \/ (call[d].stage = "loaded" /\ call'[d].stage = "stale")
    <3> DEFINE O == H!Outlived(heldCount')
    <3>1. /\ O \in [Calls -> Requests]
          /\ \A d \in Calls :
               /\ O[d].node = call[d].node /\ O[d].blob = call[d].blob
               /\ O[d].stage = call[d].stage \/ (call[d].stage = "loaded" /\ O[d].stage = "stale")
      BY <1>0, OutlivedIs
    <3>2. call' = [O EXCEPT ![c] = H!Idle]
      BY <2>1
    <3> HIDE DEF O
    <3> QED
      BY <3>1, <3>2, IdleIs
  <2>3. heldCount' \in [H!Blob -> Int] /\ \A b \in H!Blob : heldCount'[b] = heldCount[b] - OneIf(b \in {a})
    BY <1>3, <2>1, PlusIs
  <2>4. HandlersTypes'
    <3>1. \A d \in Calls :
            /\ call'[d].stage \in {"body", "stored"} => call'[d].blob \in H!Blob
            /\ call'[d].stage \in {"linked", "loaded", "stale"} => call'[d].node \in Linked
      BY <1>0, <2>2, IdleIs DEF HandlersTypes
    <3>2. UNCHANGED <<tree, loaded, heldRefs, promise>>
      BY <1>2, <2>1
    <3>3. call' \in [Calls -> Requests] /\ heldCount' \in [H!Blob -> Int]
      BY <2>2, <2>3
    <3>4. /\ loaded' \subseteq Linked /\ (tree' = NoNode \/ tree' \in loaded')
          /\ heldRefs' \in Seq(Holds) /\ promise' \in [Calls -> [blobs : SUBSET H!Blob, left : Nat]]
      BY <1>0, <3>2 DEF HandlersTypes
    <3> QED
      BY ONLY <3>1, <3>3, <3>4 DEF HandlersTypes
  <2>5. ASSUME NEW b \in H!Blob
        PROVE  Cardinality(StoredFor(b)') - Cardinality(StoredFor(b)) = heldCount'[b] - heldCount[b]
    <3>1. OneIf(Stores(call[c], b)) = OneIf(b \in {a}) /\ OneIf(Stores(H!Idle, b)) = 0
      BY <2>1, IdleIs DEF OneIf, Stores
    <3>5. \A d \in Calls \ {c} : Stores(call'[d], b) <=> Stores(call[d], b)
      BY <2>2 DEF Stores
    <3>2. Cardinality(StoredFor(b)') = Cardinality(StoredFor(b)) - OneIf(b \in {a}) + 0
      BY <1>3, <2>2, <3>1, <3>5, StoredMoves
    <3>3. heldCount[b] \in Int /\ heldCount'[b] = heldCount[b] - OneIf(b \in {a}) /\ OneIf(b \in {a}) \in Nat
      BY <1>3, <2>3 DEF OneIf
    <3>4. Cardinality(StoredFor(b)) \in Nat
      BY <1>5
    <3> QED
      BY ONLY <3>2, <3>3, <3>4
  <2>6. RefsSuffice'
    <3>1. \A b \in H!Blob : heldCount'[b] - heldCount[b]
            >= (OfNode(b)' - OfNode(b)) + (Times(heldRefs', b) - Times(heldRefs, b))
               + (Cardinality(StoredFor(b)') - Cardinality(StoredFor(b)))
      <4> TAKE b \in H!Blob
      <4>1. OfNode(b)' - OfNode(b) = 0 /\ Times(heldRefs', b) - Times(heldRefs, b) = 0
        BY <1>4, <1>5, <2>1
      <4>2. heldCount'[b] \in Int /\ heldCount[b] \in Int
        BY <1>3, <2>3
      <4> QED
        BY <2>5, <4>1, <4>2
    <3> QED
      BY <1>0, <2>4, <3>1, BalanceKeeps
  <2>7. PromisesHeld'
    BY <1>0, <2>1 DEF PromisesHeld
  <2> QED
    BY <2>4, <2>6, <2>7 DEF HandlersOK
<1>8. CASE H!UploadAnswered(c)
  <2> DEFINE blobs == <<a>>
  <2>1. /\ H!HoldFor(c, heldCount, blobs, Long) /\ call' = [call EXCEPT ![c] = H!Idle]
    BY <1>8 DEF H!UploadAnswered, H!Answer, H!To
  <2>2. blobs \in Seq(H!Blob) /\ \A i, j \in DOMAIN blobs : blobs[i] = blobs[j] => i = j
    BY <1>1
  <2> HIDE DEF blobs
  <2>3. /\ heldCount' \in [H!Blob -> Int] /\ heldRefs' \in Seq(Holds)
        /\ promise' \in [Calls -> [blobs : SUBSET H!Blob, left : Nat]]
        /\ \A b \in H!Blob : heldCount'[b] - heldCount[b] = Times(heldRefs', b) - Times(heldRefs, b)
        /\ PromisesHeld'
    BY <1>0, <1>3, <2>1, <2>2, HoldForKeeps
  <2>4. HandlersTypes'
    BY <1>0, <1>2, <2>1, <2>3, IdleIs, RequestTypes DEF HandlersTypes
  <2>5. ASSUME NEW b \in H!Blob
        PROVE  Cardinality(StoredFor(b)') - Cardinality(StoredFor(b)) <= 0
    <3>1. OneIf(Stores(H!Idle, b)) = 0 /\ OneIf(Stores(call[c], b)) \in Nat
      BY IdleIs DEF OneIf, Stores
    <3>2. Cardinality(StoredFor(b)') = Cardinality(StoredFor(b)) - OneIf(Stores(call[c], b)) + 0
      BY <1>3, <2>1, <3>1, StoredMoves
    <3>4. Cardinality(StoredFor(b)) \in Nat
      BY <1>5
    <3> QED
      BY ONLY <3>1, <3>2, <3>4
  <2>6. RefsSuffice'
    <3>1. \A b \in H!Blob : heldCount'[b] - heldCount[b]
            >= (OfNode(b)' - OfNode(b)) + (Times(heldRefs', b) - Times(heldRefs, b))
               + (Cardinality(StoredFor(b)') - Cardinality(StoredFor(b)))
      <4> TAKE b \in H!Blob
      <4>1. OfNode(b)' - OfNode(b) = 0
        BY <1>4, <1>5
      <4>2. heldCount'[b] \in Int /\ heldCount[b] \in Int /\ Times(heldRefs', b) \in Nat /\ Times(heldRefs, b) \in Nat
        BY <1>3, <1>5, <2>3, TimesFinite
      <4>3. heldCount'[b] - heldCount[b] = Times(heldRefs', b) - Times(heldRefs, b)
        BY <2>3
      <4>4. StoredFor(b)' \subseteq Calls
        BY DEF StoredFor
      <4>5. Cardinality(StoredFor(b)) \in Nat /\ Cardinality(StoredFor(b)') \in Nat
        BY <1>5, <4>4, FS_Subset, FS_CardinalityType
      <4>6. Cardinality(StoredFor(b)') - Cardinality(StoredFor(b)) <= 0
        BY <2>5
      <4> QED
        BY ONLY <4>1, <4>2, <4>3, <4>5, <4>6
    <3> QED
      BY <1>0, <2>4, <3>1, BalanceKeeps
  <2> QED
    BY <2>3, <2>4, <2>6 DEF HandlersOK
<1> QED
  BY <1>6, <1>7, <1>8

(* A node that comes into the cache references its blobs.                  *)
LEMMA LoadIs ==
  ASSUME heldCount \in [H!Blob -> Int], NEW n \in Linked, loaded' = loaded \union {n}
  PROVE  /\ H!Load(n) \in [H!Blob -> Int]
         /\ \A b \in H!Blob : H!Load(n)[b] - heldCount[b] = OfNode(b)' - OfNode(b)
<1>1. CASE n \in loaded
  <2>1. loaded' = loaded /\ H!Load(n) = heldCount
    BY <1>1 DEF H!Load
  <2>2. \A b \in H!Blob : OfNode(b)' = OfNode(b) /\ OfNode(b) \in Nat
    BY <2>1 DEF OfNode
  <2> QED
    BY <2>1, <2>2
<1>2. CASE n \notin loaded
  <2>1. H!Load(n) = H!Plus(heldCount, H!Blobs(n))
    BY <1>2 DEF H!Load
  <2>2. /\ H!Load(n) \in [H!Blob -> Int]
        /\ \A b \in H!Blob : H!Load(n)[b] = heldCount[b] + OneIf(b \in H!Blobs(n))
    BY <2>1, PlusIs
  <2>3. \A b \in H!Blob : OfNode(b)' - OfNode(b) = OneIf(b \in H!Blobs(n)) /\ OneIf(b \in H!Blobs(n)) \in Nat
    BY <1>2, BlobIs DEF OfNode, OneIf
  <2> QED
    BY <2>2, <2>3
<1> QED
  BY <1>1, <1>2

LEMMA NeededIs ==
  ASSUME NEW n \in Linked
  PROVE  /\ H!Needed(n) \in Seq(H!Blob)
         /\ \A i, j \in DOMAIN H!Needed(n) : H!Needed(n)[i] = H!Needed(n)[j] => i = j
<1>1. H!Meta(n) \in H!Blob /\ H!Content(n) \in H!Blob /\ H!Meta(n) # H!Content(n)
  BY BlobIs
<1>2. CASE n \in Dir
  <2>1. H!Needed(n) = <<H!Meta(n), H!Content(n)>>
    BY <1>2 DEF H!Needed
  <2> QED
    BY <1>1, <2>1
<1>3. CASE n \notin Dir
  <2>1. H!Needed(n) = <<H!Meta(n)>>
    BY <1>3 DEF H!Needed
  <2> QED
    BY <1>1, <2>1
<1> QED
  BY <1>2, <1>3

LEMMA RootLookupKeeps ==
  ASSUME IsFiniteSet(Calls), HandlersOK, Short \in Nat, Short > 0, NEW c \in Calls, H!Lookup(c)
  PROVE  HandlersOK'
<1>0. HandlersTypes /\ RefsSuffice /\ PromisesHeld
  BY DEF HandlersOK
<1>1. tree \in Linked /\ heldCount \in [H!Blob -> Int]
  BY <1>0 DEF H!Lookup, HandlersTypes
<1>2. H!HoldFor(c, heldCount, H!Needed(tree), Short) /\ UNCHANGED <<tree, loaded, call>>
  BY DEF H!Lookup
<1>3. /\ heldCount' \in [H!Blob -> Int] /\ heldRefs' \in Seq(Holds)
      /\ promise' \in [Calls -> [blobs : SUBSET H!Blob, left : Nat]]
      /\ \A b \in H!Blob : heldCount'[b] - heldCount[b] = Times(heldRefs', b) - Times(heldRefs, b)
      /\ PromisesHeld'
  BY <1>0, <1>1, <1>2, NeededIs, HoldForKeeps
<1>4. HandlersTypes'
  BY <1>0, <1>2, <1>3 DEF HandlersTypes
<1>5. ASSUME NEW b \in H!Blob
      PROVE  heldCount'[b] - heldCount[b]
               >= (OfNode(b)' - OfNode(b)) + (Times(heldRefs', b) - Times(heldRefs, b))
                  + (Cardinality(StoredFor(b)') - Cardinality(StoredFor(b)))
  <2>1. OfNode(b)' = OfNode(b) /\ StoredFor(b)' = StoredFor(b)
    BY <1>2 DEF OfNode, StoredFor
  <2>2. OfNode(b) \in Nat /\ Cardinality(StoredFor(b)) \in Nat
    BY StoredFinite DEF OfNode
  <2>3. Times(heldRefs, b) \in Nat /\ Times(heldRefs', b) \in Nat
    BY <1>0, <1>3, TimesFinite DEF HandlersTypes
  <2> QED
    BY <1>3, <2>1, <2>2, <2>3
<1> QED
  BY <1>0, <1>3, <1>4, <1>5, BalanceKeeps DEF HandlersOK

(* A request of which nothing is stored, before and after.                 *)
LEMMA NotStored ==
  ASSUME call \in [Calls -> Requests], NEW c \in Calls, call[c].stage # "stored",
         NEW r, r.stage # "stored", call' = [call EXCEPT ![c] = r], NEW b
  PROVE  StoredFor(b)' = StoredFor(b)
BY DEF StoredFor

LEMMA LinkKeeps ==
  ASSUME IsFiniteSet(Calls), HandlersOK, NEW c \in Calls, NEW n \in Linked, H!Link(c, n)
  PROVE  HandlersOK'
<1> DEFINE r == [H!Idle EXCEPT !.stage = "linked", !.node = n]
<1>0. HandlersTypes /\ RefsSuffice /\ PromisesHeld
  BY DEF HandlersOK
<1>1. /\ call[c] = H!Idle /\ tree' = n /\ loaded' = loaded \union {n} /\ heldCount' = H!Load(n)
      /\ call' = [call EXCEPT ![c] = r] /\ UNCHANGED <<heldRefs, promise>>
  BY DEF H!Link, H!Ready, H!To
<1>2. r \in Requests /\ r.stage = "linked" /\ r.node = n
  BY DEF Requests, H!Idle
<1> HIDE DEF r
<1>3. heldCount' \in [H!Blob -> Int] /\ \A b \in H!Blob : heldCount'[b] - heldCount[b] = OfNode(b)' - OfNode(b)
  BY <1>0, <1>1, LoadIs DEF HandlersTypes
<1>4. HandlersTypes'
  <2>1. loaded' \subseteq Linked /\ tree' \in loaded'
    BY <1>0, <1>1 DEF HandlersTypes
  <2> QED
    BY <1>0, <1>1, <1>2, <1>3, <2>1, RequestTypes DEF HandlersTypes
<1>5. ASSUME NEW b \in H!Blob
      PROVE  heldCount'[b] - heldCount[b]
               >= (OfNode(b)' - OfNode(b)) + (Times(heldRefs', b) - Times(heldRefs, b))
                  + (Cardinality(StoredFor(b)') - Cardinality(StoredFor(b)))
  <2>1. StoredFor(b)' = StoredFor(b)
    BY <1>0, <1>1, <1>2, IdleIs, NotStored DEF HandlersTypes
  <2>2. OfNode(b) \in Nat /\ OfNode(b)' \in Nat /\ Cardinality(StoredFor(b)) \in Nat
    BY StoredFinite DEF OfNode
  <2>3. Times(heldRefs, b) \in Nat /\ heldRefs' = heldRefs
    BY <1>0, <1>1, TimesFinite DEF HandlersTypes
  <2> QED
    BY <1>3, <2>1, <2>2, <2>3
<1>6. PromisesHeld'
  BY <1>0, <1>1 DEF PromisesHeld
<1> QED
  BY <1>0, <1>4, <1>5, <1>6, BalanceKeeps DEF HandlersOK

LEMMA LinkLoadsKeeps ==
  ASSUME IsFiniteSet(Calls), HandlersOK, NEW c \in Calls, H!LinkLoads(c)
  PROVE  HandlersOK'
<1> DEFINE n == call[c].node
           r == [call[c] EXCEPT !.stage = "loaded"]
<1>0. HandlersTypes /\ RefsSuffice /\ PromisesHeld
  BY DEF HandlersOK
<1>1. /\ call[c].stage = "linked" /\ loaded' = loaded \union {n} /\ heldCount' = H!Load(n)
      /\ call' = [call EXCEPT ![c] = r] /\ UNCHANGED <<tree, heldRefs, promise>>
  BY DEF H!LinkLoads, H!To
<1>2. n \in Linked /\ r \in Requests /\ r.stage = "loaded" /\ r.node = n
  BY <1>0, <1>1 DEF HandlersTypes, Requests
<1> HIDE DEF r
<1>3. heldCount' \in [H!Blob -> Int] /\ \A b \in H!Blob : heldCount'[b] - heldCount[b] = OfNode(b)' - OfNode(b)
  BY <1>0, <1>1, <1>2, LoadIs DEF HandlersTypes
<1>4. HandlersTypes'
  <2>1. loaded' \subseteq Linked /\ (tree' = NoNode \/ tree' \in loaded')
    BY <1>0, <1>1, <1>2 DEF HandlersTypes
  <2> QED
    BY <1>0, <1>1, <1>2, <1>3, <2>1, RequestTypes DEF HandlersTypes
<1>5. ASSUME NEW b \in H!Blob
      PROVE  heldCount'[b] - heldCount[b]
               >= (OfNode(b)' - OfNode(b)) + (Times(heldRefs', b) - Times(heldRefs, b))
                  + (Cardinality(StoredFor(b)') - Cardinality(StoredFor(b)))
  <2>1. StoredFor(b)' = StoredFor(b)
    BY <1>0, <1>1, <1>2, NotStored DEF HandlersTypes
  <2>2. OfNode(b) \in Nat /\ OfNode(b)' \in Nat /\ Cardinality(StoredFor(b)) \in Nat
    BY StoredFinite DEF OfNode
  <2>3. Times(heldRefs, b) \in Nat /\ heldRefs' = heldRefs
    BY <1>0, <1>1, TimesFinite DEF HandlersTypes
  <2> QED
    BY <1>3, <2>1, <2>2, <2>3
<1>6. PromisesHeld'
  BY <1>0, <1>1 DEF PromisesHeld
<1> QED
  BY <1>0, <1>4, <1>5, <1>6, BalanceKeeps DEF HandlersOK

LEMMA LinkAnsweredKeeps ==
  ASSUME IsFiniteSet(Calls), HandlersOK, Short \in Nat, Short > 0, NEW c \in Calls, H!LinkAnswered(c)
  PROVE  HandlersOK'
<1> DEFINE n == call[c].node
<1>0. HandlersTypes /\ RefsSuffice /\ PromisesHeld
  BY DEF HandlersOK
<1>1. /\ call[c].stage = "loaded" /\ H!HoldFor(c, heldCount, H!Needed(n), Short)
      /\ call' = [call EXCEPT ![c] = H!Idle] /\ UNCHANGED <<tree, loaded>>
  BY DEF H!LinkAnswered, H!Answer, H!To
<1>2. n \in Linked /\ heldCount \in [H!Blob -> Int]
  BY <1>0, <1>1 DEF HandlersTypes
<1>4. /\ heldCount' \in [H!Blob -> Int] /\ heldRefs' \in Seq(Holds)
      /\ promise' \in [Calls -> [blobs : SUBSET H!Blob, left : Nat]]
      /\ \A b \in H!Blob : heldCount'[b] - heldCount[b] = Times(heldRefs', b) - Times(heldRefs, b)
      /\ PromisesHeld'
  BY <1>0, <1>1, <1>2, NeededIs, HoldForKeeps
<1>5. HandlersTypes'
  BY <1>0, <1>1, <1>4, IdleIs, RequestTypes DEF HandlersTypes
<1>6. ASSUME NEW b \in H!Blob
      PROVE  heldCount'[b] - heldCount[b]
               >= (OfNode(b)' - OfNode(b)) + (Times(heldRefs', b) - Times(heldRefs, b))
                  + (Cardinality(StoredFor(b)') - Cardinality(StoredFor(b)))
  <2>1. StoredFor(b)' = StoredFor(b)
    BY <1>0, <1>1, IdleIs, NotStored DEF HandlersTypes
  <2>2. OfNode(b)' = OfNode(b) /\ OfNode(b) \in Nat /\ Cardinality(StoredFor(b)) \in Nat
    BY <1>1, StoredFinite DEF OfNode
  <2>3. Times(heldRefs, b) \in Nat /\ Times(heldRefs', b) \in Nat
    BY <1>0, <1>4, TimesFinite DEF HandlersTypes
  <2>4. heldCount'[b] - heldCount[b] = Times(heldRefs', b) - Times(heldRefs, b)
    BY <1>4
  <2>5. heldCount[b] \in Int /\ heldCount'[b] \in Int
    BY <1>2, <1>4
  <2> QED
    BY ONLY <2>1, <2>2, <2>3, <2>4, <2>5
<1> QED
  BY <1>0, <1>4, <1>5, <1>6, BalanceKeeps DEF HandlersOK

LEMMA UnlinkKeeps ==
  ASSUME HandlersOK, NEW c \in Calls, H!Unlink(c)
  PROVE  HandlersOK'
<1>1. UNCHANGED <<heldCount, loaded, heldRefs, call, promise>> /\ tree' = NoNode
  BY DEF H!Unlink
<1>2. HandlersTypes'
  BY <1>1 DEF HandlersOK, HandlersTypes
<1>3. RefsSuffice' /\ PromisesHeld'
  BY <1>1 DEF HandlersOK, RefsSuffice, PromisesHeld, OfNode, StoredFor
<1> QED
  BY <1>2, <1>3 DEF HandlersOK

LEMMA RootCleanupKeeps ==
  ASSUME IsFiniteSet(Calls), HandlersOK, H!Cleanup
  PROVE  HandlersOK'
<1> DEFINE S == UNION {H!Blobs(n) : n \in loaded \ {tree}}
<1>0. HandlersTypes /\ RefsSuffice /\ PromisesHeld
  BY DEF HandlersOK
<1>1. /\ loaded' = loaded \intersect {tree} /\ heldCount' = H!Minus(heldCount, S)
      /\ call' = H!Outlived(heldCount') /\ UNCHANGED <<tree, heldRefs, promise>>
  BY DEF H!Cleanup
<1>2. \A b \in H!Blob : b \in S <=> b[1] \in loaded \ {tree}
  <2> TAKE b \in H!Blob
  <2>1. b \in S <=> \E n \in loaded \ {tree} : b \in H!Blobs(n)
    OBVIOUS
  <2> QED
    BY <1>0, <2>1, BlobIs DEF HandlersTypes
<1> HIDE DEF S
<1>3. heldCount' \in [H!Blob -> Int] /\ \A b \in H!Blob : heldCount'[b] = heldCount[b] - OneIf(b \in S)
  BY <1>0, <1>1, PlusIs DEF HandlersTypes
<1>4. HandlersTypes'
  BY <1>0, <1>1, <1>3, OutlivedKeeps DEF HandlersTypes
<1>5. ASSUME NEW b \in H!Blob
      PROVE  heldCount'[b] - heldCount[b]
               >= (OfNode(b)' - OfNode(b)) + (Times(heldRefs', b) - Times(heldRefs, b))
                  + (Cardinality(StoredFor(b)') - Cardinality(StoredFor(b)))
  <2>1. StoredFor(b)' = StoredFor(b) /\ heldRefs' = heldRefs
    BY <1>0, <1>1, OutlivedKeeps
  <2>2. OfNode(b)' - OfNode(b) = 0 - OneIf(b \in S) /\ OneIf(b \in S) \in Nat
    BY <1>1, <1>2 DEF OfNode, OneIf
  <2>3. Times(heldRefs, b) \in Nat /\ Cardinality(StoredFor(b)) \in Nat
    BY <1>0, TimesFinite, StoredFinite DEF HandlersTypes
  <2>4. heldCount[b] \in Int /\ heldCount'[b] = heldCount[b] - OneIf(b \in S)
    BY <1>0, <1>3 DEF HandlersTypes
  <2> QED
    BY ONLY <2>1, <2>2, <2>3, <2>4
<1>6. PromisesHeld'
  BY <1>0, <1>1 DEF PromisesHeld
<1> QED
  BY <1>0, <1>4, <1>5, <1>6, BalanceKeeps DEF HandlersOK

(* Holds and promises run down together.                                   *)
LEMMA TimePassesKeeps ==
  ASSUME HandlersOK, H!TimePasses
  PROVE  HandlersOK'
<1>0. HandlersTypes /\ RefsSuffice /\ PromisesHeld
  BY DEF HandlersOK
<1>1. /\ heldRefs' = [i \in DOMAIN heldRefs |-> [heldRefs[i] EXCEPT !.left = H!Later(@)]]
      /\ promise' = [c \in Calls |-> IF promise[c].left <= 1 THEN H!NoPromise
                                     ELSE [promise[c] EXCEPT !.left = @ - 1]]
      /\ UNCHANGED <<heldCount, tree, loaded, call>>
  BY DEF H!TimePasses
<1>2. heldRefs \in Seq(Holds) /\ DOMAIN heldRefs = 1..Len(heldRefs) /\ Len(heldRefs) \in Nat
  BY <1>0 DEF HandlersTypes
<1>3. ASSUME NEW i \in DOMAIN heldRefs
      PROVE  /\ heldRefs'[i] \in Holds /\ heldRefs'[i].blob = heldRefs[i].blob
             /\ heldRefs[i].left \in Nat /\ heldRefs'[i].left = H!Later(heldRefs[i].left)
  <2>1. heldRefs[i] \in Holds
    BY <1>2
  <2>2. heldRefs'[i] = [heldRefs[i] EXCEPT !.left = H!Later(heldRefs[i].left)]
    BY <1>1
  <2>3. heldRefs[i].left \in Nat /\ H!Later(heldRefs[i].left) \in Nat
    BY <2>1 DEF Holds, H!Later
  <2> QED
    BY <2>1, <2>2, <2>3 DEF Holds
<1>4. heldRefs' \in Seq(Holds) /\ DOMAIN heldRefs' = DOMAIN heldRefs
  <2>1. DOMAIN heldRefs' = 1..Len(heldRefs) /\ heldRefs' = [i \in 1..Len(heldRefs) |-> heldRefs'[i]]
    BY <1>1, <1>2
  <2>2. heldRefs' \in [1..Len(heldRefs) -> Holds]
    BY <1>2, <1>3, <2>1
  <2> QED
    BY <1>2, <2>1, <2>2
<1>5. ASSUME NEW c \in Calls
      PROVE  \/ promise'[c] = H!NoPromise
             \/ /\ promise'[c].blobs = promise[c].blobs /\ promise'[c] \in [blobs : SUBSET H!Blob, left : Nat]
                /\ promise[c].left \in Nat /\ promise[c].left > 1 /\ promise'[c].left = promise[c].left - 1
  <2>1. promise[c] \in [blobs : SUBSET H!Blob, left : Nat]
    BY <1>0 DEF HandlersTypes
  <2>2. CASE promise[c].left <= 1
    BY <1>1, <2>2
  <2>3. CASE ~(promise[c].left <= 1)
    <3>1. promise'[c] = [promise[c] EXCEPT !.left = promise[c].left - 1]
      BY <1>1, <2>3
    <3>2. promise[c].left \in Nat /\ promise[c].left > 1 /\ promise[c].left - 1 \in Nat
      BY <2>1, <2>3
    <3> QED
      BY <2>1, <3>1, <3>2
  <2> QED
    BY <2>2, <2>3
<1>6. H!NoPromise \in [blobs : SUBSET H!Blob, left : Nat] /\ H!NoPromise.blobs = {}
  BY DEF H!NoPromise
<1>7. HandlersTypes'
  <2>1. promise' \in [Calls -> [blobs : SUBSET H!Blob, left : Nat]]
    <3>1. \A c \in Calls : promise'[c] \in [blobs : SUBSET H!Blob, left : Nat]
      BY <1>5, <1>6
    <3>2. promise' = [c \in Calls |-> promise'[c]]
      BY <1>1
    <3> QED
      BY <3>1, <3>2
  <2> QED
    BY <1>0, <1>1, <1>4, <2>1 DEF HandlersTypes
<1>8. RefsSuffice'
  <2>1. ASSUME NEW b PROVE Times(heldRefs', b) = Times(heldRefs, b)
    <3>1. {i \in DOMAIN heldRefs' : heldRefs'[i].blob = b} = {i \in DOMAIN heldRefs : heldRefs[i].blob = b}
      BY <1>3, <1>4
    <3> QED
      BY <3>1 DEF Times
  <2>2. ASSUME NEW b \in H!Blob PROVE OfNode(b)' = OfNode(b) /\ StoredFor(b)' = StoredFor(b)
    BY <1>1 DEF OfNode, StoredFor
  <2> QED
    BY <1>0, <1>1, <2>1, <2>2 DEF RefsSuffice
<1>9. PromisesHeld'
  <2> SUFFICES ASSUME NEW c \in Calls, NEW b \in promise'[c].blobs
               PROVE  /\ promise'[c].left > 0
                      /\ \E i \in DOMAIN heldRefs' :
                           heldRefs'[i].blob = b /\ heldRefs'[i].left >= promise'[c].left
    BY DEF PromisesHeld
  <2>1. /\ b \in promise[c].blobs /\ promise[c].left \in Nat
        /\ promise[c].left > 1 /\ promise'[c].left = promise[c].left - 1
    BY <1>5, <1>6
  <2>2. PICK i \in DOMAIN heldRefs : heldRefs[i].blob = b /\ heldRefs[i].left >= promise[c].left
    BY <1>0, <2>1 DEF PromisesHeld
  <2>3. heldRefs'[i].left = heldRefs[i].left - 1 /\ heldRefs[i].left \in Nat
    BY <1>3, <2>1, <2>2 DEF H!Later
  <2>4. heldRefs'[i].left >= promise'[c].left /\ promise'[c].left > 0
    BY <2>1, <2>2, <2>3
  <2> QED
    BY <1>3, <1>4, <2>2, <2>4
<1> QED
  BY <1>7, <1>8, <1>9 DEF HandlersOK

LEMMA GivenBackIs ==
  ASSUME heldCount \in [H!Blob -> Int], NEW s \in Seq(Holds)
  PROVE  /\ H!GivenBack(s) \in [H!Blob -> Int]
         /\ \A b \in H!Blob : H!GivenBack(s)[b] = heldCount[b] - Times(s, b)
<1>1. \A b \in H!Blob : H!GivenBack(s)[b] = heldCount[b] - H!Cardinality({i \in DOMAIN s : s[i].blob = b})
  BY DEF H!GivenBack
<1>2. \A S : H!Cardinality(S) = Cardinality(S)
  BY DEF H!Cardinality, Cardinality
<1>3. \A b \in H!Blob : H!GivenBack(s)[b] = heldCount[b] - Times(s, b)
  BY <1>1, <1>2 DEF Times
<1>4. \A b \in H!Blob : Times(s, b) \in Nat
  BY TimesFinite
<1>5. H!GivenBack(s) = [b \in H!Blob |-> H!GivenBack(s)[b]]
  BY DEF H!GivenBack
<1>6. \A b \in H!Blob : H!GivenBack(s)[b] \in Int
  BY <1>3, <1>4
<1> QED
  BY <1>3, <1>5, <1>6

(* What has expired lies in front, and no promise is about it.             *)
LEMMA ReleaseExpiredKeeps ==
  ASSUME IsFiniteSet(Calls), HandlersOK, H!ReleaseExpired
  PROVE  HandlersOK'
<1>0. HandlersTypes /\ RefsSuffice /\ PromisesHeld
  BY DEF HandlersOK
<1>1. PICK k \in DOMAIN heldRefs :
        /\ H!Expired(k)
        /\ heldRefs' = SubSeq(heldRefs, k + 1, Len(heldRefs))
        /\ heldCount' = H!GivenBack(SubSeq(heldRefs, 1, k))
  BY DEF H!ReleaseExpired
<1>2. call' = H!Outlived(heldCount') /\ UNCHANGED <<tree, loaded, promise>>
  BY DEF H!ReleaseExpired
<1>3. /\ heldRefs \in Seq(Holds) /\ k \in 1..Len(heldRefs) /\ Len(heldRefs) \in Nat
      /\ DOMAIN heldRefs = 1..Len(heldRefs) /\ heldCount \in [H!Blob -> Int]
  BY <1>0 DEF HandlersTypes
<1>4. /\ SubSeq(heldRefs, 1, k) \in Seq(Holds) /\ heldRefs' \in Seq(Holds)
      /\ \A b : Times(heldRefs, b) = Times(SubSeq(heldRefs, 1, k), b) + Times(heldRefs', b)
  BY <1>1, <1>3, TimesSplit
<1>5. /\ heldCount' \in [H!Blob -> Int]
      /\ \A b \in H!Blob : heldCount'[b] = heldCount[b] - Times(SubSeq(heldRefs, 1, k), b)
  BY <1>1, <1>3, <1>4, GivenBackIs
<1>6. HandlersTypes'
  BY <1>0, <1>2, <1>4, <1>5, OutlivedKeeps DEF HandlersTypes
<1>7. ASSUME NEW b \in H!Blob
      PROVE  heldCount'[b] - heldCount[b]
               >= (OfNode(b)' - OfNode(b)) + (Times(heldRefs', b) - Times(heldRefs, b))
                  + (Cardinality(StoredFor(b)') - Cardinality(StoredFor(b)))
  <2>1. OfNode(b)' = OfNode(b) /\ StoredFor(b)' = StoredFor(b)
    BY <1>0, <1>2, OutlivedKeeps DEF OfNode
  <2>2. OfNode(b) \in Nat /\ Cardinality(StoredFor(b)) \in Nat
    BY StoredFinite DEF OfNode
  <2>3. Times(SubSeq(heldRefs, 1, k), b) \in Nat /\ Times(heldRefs', b) \in Nat
    BY <1>4, TimesFinite
  <2>4. Times(heldRefs, b) = Times(SubSeq(heldRefs, 1, k), b) + Times(heldRefs', b)
    BY <1>4
  <2>5. heldCount[b] \in Int /\ heldCount'[b] = heldCount[b] - Times(SubSeq(heldRefs, 1, k), b)
    BY <1>3, <1>5
  <2> QED
    BY ONLY <2>1, <2>2, <2>3, <2>4, <2>5
<1>8. PromisesHeld'
  <2> SUFFICES ASSUME NEW c \in Calls, NEW b \in promise[c].blobs
               PROVE  /\ promise[c].left > 0
                      /\ \E i \in DOMAIN heldRefs' :
                           heldRefs'[i].blob = b /\ heldRefs'[i].left >= promise[c].left
    BY <1>2 DEF PromisesHeld
  <2>1. PICK i \in DOMAIN heldRefs : heldRefs[i].blob = b /\ heldRefs[i].left >= promise[c].left
    BY <1>0 DEF PromisesHeld
  <2>2. promise[c].left > 0 /\ promise[c].left \in Nat /\ heldRefs[i].left \in Nat
    <3>1. promise[c].left > 0
      BY <1>0 DEF PromisesHeld
    <3>2. promise[c] \in [blobs : SUBSET H!Blob, left : Nat] /\ heldRefs[i] \in Holds
      BY <1>0, <1>3 DEF HandlersTypes
    <3> QED
      BY <3>1, <3>2 DEF Holds
  <2>3. ~(i \in 1..k)
    <3>1. heldRefs[i].left # 0
      BY <2>1, <2>2
    <3> QED
      BY <1>1, <3>1 DEF H!Expired
  <2>4. i - k \in 1..(Len(heldRefs) - k) /\ k + 1 + (i - k) - 1 = i
    BY <1>3, <2>3
  <2>5. /\ DOMAIN heldRefs' = 1..(Len(heldRefs) - k)
        /\ \A j \in 1..(Len(heldRefs) - k) : heldRefs'[j] = heldRefs[k + 1 + j - 1]
    BY <1>1, <1>3
  <2>6. i - k \in DOMAIN heldRefs' /\ heldRefs'[i - k] = heldRefs[i]
    BY <2>4, <2>5
  <2> QED
    BY <2>1, <2>2, <2>6
<1> QED
  BY <1>0, <1>6, <1>7, <1>8, BalanceKeeps DEF HandlersOK

TimesAssumption == IsFiniteSet(Calls) /\ Short \in Nat \ {0} /\ Long \in Nat \ {0}

LEMMA HandlersBegin == IsFiniteSet(Calls) /\ H!Init => HandlersOK
<1> SUFFICES ASSUME IsFiniteSet(Calls), H!Init PROVE HandlersOK
  OBVIOUS
<1> USE DEF H!Init
<1>1. HandlersTypes
  BY IdleIs DEF HandlersTypes, H!NoPromise
<1>2. ASSUME NEW b \in H!Blob
      PROVE  OfNode(b) = 0 /\ Times(heldRefs, b) = 0 /\ Cardinality(StoredFor(b)) = 0
  <2>1. StoredFor(b) = {} /\ {i \in DOMAIN heldRefs : heldRefs[i].blob = b} = {}
    BY IdleIs DEF StoredFor
  <2> QED
    BY <2>1, FS_EmptySet DEF OfNode, Times
<1>3. RefsSuffice
  BY <1>2 DEF RefsSuffice
<1>4. PromisesHeld
  BY DEF PromisesHeld, H!NoPromise
<1> QED
  BY <1>1, <1>3, <1>4 DEF HandlersOK

(* The process that has stopped promises nothing.                          *)
HandlersInv == serving = "yes" => HandlersOK

LEMMA HandlersStep == TimesAssumption /\ HandlersInv /\ [H!Next]_(H!handlers) => HandlersInv'
<1> SUFFICES ASSUME TimesAssumption, HandlersInv, [H!Next]_(H!handlers), serving' = "yes" PROVE HandlersOK'
  BY DEF HandlersInv
<1>1. CASE UNCHANGED H!handlers
  <2>1. HandlersOK
    BY <1>1 DEF HandlersInv, H!handlers
  <2>2. HandlersTypes'
    BY <1>1, <2>1 DEF HandlersOK, HandlersTypes, H!handlers
  <2>3. RefsSuffice' /\ PromisesHeld'
    BY <1>1, <2>1 DEF HandlersOK, RefsSuffice, PromisesHeld, OfNode, StoredFor, H!handlers
  <2> QED
    BY <2>2, <2>3 DEF HandlersOK
<1>2. CASE H!Next
  <2>1. serving = "yes"
    BY <1>2 DEF H!Next, H!Upload, H!UploadStored, H!UploadMismatch, H!UploadAnswered, H!Lookup, H!Link,
                H!Unlink, H!LinkLoads, H!LinkAnswered, H!LinkIsGone, H!LinkHoldsGhost, H!Cleanup, H!TimePasses, H!ReleaseExpired, H!Stop,
                H!Ready
  <2>2. HandlersOK /\ IsFiniteSet(Calls) /\ Short \in Nat /\ Short > 0 /\ Long \in Nat /\ Long > 0
    BY <2>1 DEF HandlersInv, TimesAssumption
  <2>3. ~H!Stop /\ \A c \in Calls : ~H!LinkIsGone(c) /\ ~H!LinkHoldsGhost(c)
    BY DEF H!Stop, H!LinkIsGone, H!LinkHoldsGhost
  <2>4. CASE \E c \in Calls, n \in Linked \ Made : \E b \in H!Blobs(n) : H!Upload(c, b)
    BY <2>2, <2>4, UploadKeeps
  <2>5. ASSUME NEW c \in Calls, H!UploadStored(c) \/ H!UploadMismatch(c) \/ H!UploadAnswered(c)
        PROVE  HandlersOK'
    BY <2>2, <2>5, UploadEnds
  <2>6. ASSUME NEW c \in Calls, H!Lookup(c) \/ H!Unlink(c) \/ H!LinkLoads(c) \/ H!LinkAnswered(c)
        PROVE  HandlersOK'
    BY <2>2, <2>6, RootLookupKeeps, UnlinkKeeps, LinkLoadsKeeps, LinkAnsweredKeeps
  <2>7. CASE \E c \in Calls, n \in Linked : H!Link(c, n)
    BY <2>2, <2>7, LinkKeeps
  <2>8. CASE H!Cleanup \/ H!TimePasses \/ H!ReleaseExpired
    BY <2>2, <2>8, RootCleanupKeeps, TimePassesKeeps, ReleaseExpiredKeeps
  <2>9. CASE \E c \in Calls :
                \/ H!UploadStored(c) \/ H!UploadMismatch(c) \/ H!UploadAnswered(c)
                \/ H!Lookup(c) \/ H!Unlink(c)
                \/ H!LinkLoads(c) \/ H!LinkIsGone(c) \/ H!LinkAnswered(c) \/ H!LinkHoldsGhost(c)
    BY <2>3, <2>5, <2>6, <2>9
  <2> QED
    BY ONLY <1>2, <2>3, <2>4, <2>7, <2>8, <2>9 DEF H!Next
<1> QED
  BY <1>1, <1>2

(* Handlers and ReferenceHolder: what an answer names is in the store as   *)
(* long as its time lasts, for any number of clients, of nodes and of      *)
(* holds, however long and short holds are mixed.                          *)
THEOREM AnswersStayHeld == TimesAssumption => (H!Spec => []AnswersAreHeld)
<1> SUFFICES ASSUME TimesAssumption PROVE H!Spec => []AnswersAreHeld
  OBVIOUS
<1>1. HandlersInv => AnswersAreHeld
  <2> SUFFICES ASSUME HandlersOK, NEW c \in Calls, NEW b \in promise[c].blobs PROVE H!Present(b)
    BY DEF HandlersInv, AnswersAreHeld, H!AnswersAreHeld
  <2>1. b \in H!Blob /\ heldRefs \in Seq(Holds) /\ heldCount[b] \in Int
    BY DEF HandlersOK, HandlersTypes
  <2>2. PICK i \in DOMAIN heldRefs : heldRefs[i].blob = b
    BY DEF HandlersOK, PromisesHeld
  <2>3. IsFiniteSet({j \in DOMAIN heldRefs : heldRefs[j].blob = b}) /\ Times(heldRefs, b) \in Nat
    BY <2>1, TimesFinite
  <2>4. Times(heldRefs, b) # 0
    BY <2>2, <2>3, FS_EmptySet DEF Times
  <2>5. Cardinality(StoredFor(b)) \in Nat /\ OfNode(b) \in Nat
    BY StoredFinite DEF OfNode, TimesAssumption
  <2>6. heldCount[b] >= OfNode(b) + Times(heldRefs, b) + Cardinality(StoredFor(b))
    BY <2>1 DEF HandlersOK, RefsSuffice
  <2>7. heldCount[b] > 0
    BY <2>1, <2>3, <2>4, <2>5, <2>6
  <2> QED
    BY <2>7 DEF H!Present
<1>2. H!Init => HandlersInv
  BY HandlersBegin DEF HandlersInv, TimesAssumption
<1>3. HandlersInv /\ [H!Next]_(H!handlers) => HandlersInv'
  BY HandlersStep
<1> QED
  BY <1>1, <1>2, <1>3, PTL DEF H!Spec
=============================================================================
