---------------------------- MODULE Trees_proofs ----------------------------
(***************************************************************************)
(* Proofs about the trees of volumes, for all values of the constants: the *)
(* name store with its lookups and links, one whose tree is another        *)
(* server's, one that is mounted as a file system, and the volumes that    *)
(* the programs of the shell change.                                       *)
(***************************************************************************)
EXTENDS Trees, FiniteSetTheorems, SequenceTheorems, WellFoundedInduction, TLAPS

(* Names are strings: these two as well, which the provers are to be told. *)
Word == STRING \union {".grits", "access.json"}
Path == Seq(Word)

Good(t) == DOMAIN t \subseteq Path /\ N!WellFormed(t)

(* What the callers ask for: sequences of paths; sequences of requests,    *)
(* each with a path and a node that is a tree itself.                      *)
InputsAreSound ==
  /\ Lookups \subseteq Seq(Path)
  /\ \A b \in Batches :
       /\ Len(b) \in Nat
       /\ \A i \in 1..Len(b) : b[i].path \in Path /\ Good(b[i].new)
-----------------------------------------------------------------------------
(* Paths.                                                                  *)
LEMMA PrefixDef ==
  ASSUME NEW p \in Path, NEW q \in Path
  PROVE  N!IsPrefix(p, q) <=> Len(p) <= Len(q) /\ \A i \in 1..Len(p) : p[i] = q[i]
<1> USE DEF Path
<1>1. CASE Len(p) <= Len(q)
  <2>1. /\ SubSeq(p, 1, Len(p)) \in Seq(Word) /\ SubSeq(q, 1, Len(p)) \in Seq(Word)
        /\ Len(SubSeq(p, 1, Len(p))) = Len(p) /\ Len(SubSeq(q, 1, Len(p))) = Len(p)
        /\ \A i \in 1..Len(p) : SubSeq(p, 1, Len(p))[i] = p[i] /\ SubSeq(q, 1, Len(p))[i] = q[i]
    BY <1>1
  <2>2. SubSeq(p, 1, Len(p)) = SubSeq(q, 1, Len(p)) <=> \A i \in 1..Len(p) : p[i] = q[i]
    BY <2>1, SeqEqual
  <2> QED
    BY <1>1, <2>2 DEF N!IsPrefix
<1>2. CASE ~(Len(p) <= Len(q))
  BY <1>2 DEF N!IsPrefix
<1> QED
  BY <1>1, <1>2

LEMMA Concat ==
  ASSUME NEW p \in Path, NEW r \in Path
  PROVE  /\ p \o r \in Path /\ Len(p \o r) = Len(p) + Len(r)
         /\ N!IsPrefix(p, p \o r) /\ N!Rest(p, p \o r) = r
         /\ (p \o r = p <=> r = <<>>)
<1> USE DEF Path
<1>1. /\ p \o r \in Path /\ Len(p \o r) = Len(p) + Len(r)
      /\ \A i \in 1..Len(p) : (p \o r)[i] = p[i]
      /\ \A i \in 1..Len(r) : (p \o r)[Len(p) + i] = r[i]
  <2>1. /\ p \o r \in Path /\ Len(p \o r) = Len(p) + Len(r)
        /\ \A i \in 1..(Len(p) + Len(r)) : (p \o r)[i] = IF i <= Len(p) THEN p[i] ELSE r[i - Len(p)]
    BY ConcatProperties
  <2>2. Len(p) \in Nat /\ Len(r) \in Nat
    OBVIOUS
  <2>3. ASSUME NEW i \in 1..Len(r)
        PROVE  Len(p) + i \in 1..(Len(p) + Len(r)) /\ ~(Len(p) + i <= Len(p)) /\ Len(p) + i - Len(p) = i
    BY <2>2
  <2>4. ASSUME NEW i \in 1..Len(r) PROVE (p \o r)[Len(p) + i] = r[i]
    BY <2>1, <2>3
  <2> QED
    BY <2>1, <2>2, <2>4
<1>2. N!IsPrefix(p, p \o r)
  <2>1. Len(p) \in Nat /\ Len(r) \in Nat /\ Len(p) <= Len(p \o r)
    BY <1>1
  <2> QED
    BY <1>1, <2>1, PrefixDef
<1>3. N!Rest(p, p \o r) = r
  <2>1. /\ N!Rest(p, p \o r) \in Seq(Word) /\ Len(N!Rest(p, p \o r)) = Len(r)
        /\ \A i \in 1..Len(r) : N!Rest(p, p \o r)[i] = (p \o r)[Len(p) + i]
    BY <1>1 DEF N!Rest
  <2> QED
    BY <1>1, <2>1, SeqEqual
<1>4. p \o r = p <=> r = <<>>
  <2>1. r = <<>> => p \o r = p
    BY ConcatEmptySeq
  <2>2. p \o r = p => Len(r) = 0
    BY <1>1
  <2> QED
    BY <2>1, <2>2
<1> QED
  BY <1>1, <1>2, <1>3, <1>4

LEMMA Split ==
  ASSUME NEW p \in Path, NEW q \in Path, N!IsPrefix(p, q)
  PROVE  N!Rest(p, q) \in Path /\ q = p \o N!Rest(p, q)
<1> USE DEF Path
<1>1. Len(p) <= Len(q) /\ \A i \in 1..Len(p) : p[i] = q[i]
  BY PrefixDef
<1>2. /\ N!Rest(p, q) \in Path /\ Len(N!Rest(p, q)) = Len(q) - Len(p)
      /\ \A i \in 1..(Len(q) - Len(p)) : N!Rest(p, q)[i] = q[Len(p) + i]
  BY <1>1 DEF N!Rest
<1>3. /\ p \o N!Rest(p, q) \in Path /\ Len(p \o N!Rest(p, q)) = Len(q)
      /\ \A i \in 1..Len(p) : (p \o N!Rest(p, q))[i] = p[i]
      /\ \A i \in (Len(p) + 1)..Len(q) : (p \o N!Rest(p, q))[i] = N!Rest(p, q)[i - Len(p)]
  BY <1>1, <1>2
<1>4. ASSUME NEW i \in 1..Len(q) PROVE q[i] = (p \o N!Rest(p, q))[i]
  <2>1. CASE i \in 1..Len(p)
    BY <1>1, <1>3, <2>1
  <2>2. CASE i \in (Len(p) + 1)..Len(q)
    <3>1. i - Len(p) \in 1..(Len(q) - Len(p)) /\ Len(p) + (i - Len(p)) = i
      BY <1>1, <2>2
    <3>2. N!Rest(p, q)[i - Len(p)] = q[Len(p) + (i - Len(p))]
      BY <1>2, <3>1
    <3> QED
      BY <1>3, <2>2, <3>1, <3>2
  <2>3. Len(p) \in Nat /\ Len(q) \in Nat
    OBVIOUS
  <2>4. i \in 1..Len(p) \/ i \in (Len(p) + 1)..Len(q)
    BY <1>1, <2>3
  <2> QED
    BY <2>1, <2>2, <2>4
<1> QED
  BY <1>2, <1>3, <1>4, SeqEqual

LEMMA FrontOf ==
  ASSUME NEW q \in Path, q # <<>>
  PROVE  N!Front(q) \in Path /\ Len(N!Front(q)) = Len(q) - 1 /\ N!IsPrefix(N!Front(q), q)
<1> USE DEF Path
<1>1. Len(q) \in Nat /\ Len(q) > 0 /\ \A i \in 1..(Len(q) - 1) : q[i] \in Word
  OBVIOUS
<1>2. /\ N!Front(q) \in Path /\ Len(N!Front(q)) = Len(q) - 1
      /\ \A i \in 1..(Len(q) - 1) : N!Front(q)[i] = q[i]
  <2> DEFINE n == Len(q) - 1
  <2>0. \A k \in Nat : k > 0 =>
          k - 1 \in Int /\ (1 <= k - 1 => k - 1 - 1 + 1 = k - 1) /\ (~(1 <= k - 1) => k - 1 = 0)
    OBVIOUS
  <2>1. n \in Int /\ (1 <= n => n - 1 + 1 = n) /\ (~(1 <= n) => n = 0)
    BY <1>1, <2>0
  <2>2. /\ SubSeq(q, 1, n) \in Seq(Word) /\ Len(SubSeq(q, 1, n)) = IF 1 <= n THEN n - 1 + 1 ELSE 0
        /\ \A i \in 1..(n - 1 + 1) : SubSeq(q, 1, n)[i] = q[1 + i - 1]
    BY <1>1, <2>1, SubSeqProperties
  <2>3. ASSUME NEW i \in 1..n PROVE i \in 1..(n - 1 + 1) /\ 1 + i - 1 = i
    BY <2>1
  <2> QED
    BY <2>1, <2>2, <2>3 DEF N!Front
<1> QED
  BY <1>1, <1>2, PrefixDef

LEMMA FrontOfConcat ==
  ASSUME NEW p \in Path, NEW r \in Path, r # <<>>
  PROVE  N!Front(p \o r) = p \o N!Front(r)
<1> USE DEF Path
<1>1. Len(r) > 0 /\ p \o r # <<>>
  OBVIOUS
<1>2. /\ N!Front(p \o r) \in Path /\ Len(N!Front(p \o r)) = Len(p) + Len(r) - 1
      /\ \A i \in 1..(Len(p) + Len(r) - 1) : N!Front(p \o r)[i] = (p \o r)[i]
  BY <1>1 DEF N!Front
<1>3. /\ p \o N!Front(r) \in Path /\ Len(p \o N!Front(r)) = Len(p) + Len(r) - 1
      /\ \A i \in 1..(Len(p) + Len(r) - 1) : (p \o N!Front(r))[i] = (p \o r)[i]
  BY <1>1 DEF N!Front
<1> QED
  BY <1>2, <1>3, SeqEqual

LEMMA PrefixTransitive ==
  ASSUME NEW p \in Path, NEW q \in Path, NEW r \in Path
  PROVE  /\ N!IsPrefix(p, q) /\ N!IsPrefix(q, r) => N!IsPrefix(p, r)
         /\ N!IsPrefix(p, r) /\ N!IsPrefix(q, r) => N!IsPrefix(p, q) \/ N!IsPrefix(q, p)
BY PrefixDef DEF Path

LEMMA PrefixReflexive == ASSUME NEW p \in Path PROVE N!IsPrefix(p, p)
BY PrefixDef DEF Path
-----------------------------------------------------------------------------
(* Trees.                                                                  *)
LEMMA AtIs ==
  ASSUME NEW t, DOMAIN t \subseteq Path, NEW p \in Path
  PROVE  /\ DOMAIN N!At(t, p) \subseteq Path
         /\ \A r \in Path : /\ r \in DOMAIN N!At(t, p) <=> p \o r \in DOMAIN t
                            /\ r \in DOMAIN N!At(t, p) => N!At(t, p)[r] = t[p \o r]
<1>1. \A r \in DOMAIN N!At(t, p) : \E q \in DOMAIN t : N!IsPrefix(p, q) /\ r = N!Rest(p, q)
  BY DEF N!At, N!Inside
<1>2. ASSUME NEW r \in DOMAIN N!At(t, p) PROVE r \in Path /\ p \o r \in DOMAIN t
  BY <1>1, Split
<1>3. ASSUME NEW r \in Path, p \o r \in DOMAIN t PROVE r \in DOMAIN N!At(t, p)
  <2>1. N!IsPrefix(p, p \o r) /\ N!Rest(p, p \o r) = r
    BY Concat
  <2> QED
    BY <1>3, <2>1 DEF N!At, N!Inside
<1>4. \A r \in DOMAIN N!At(t, p) : N!At(t, p)[r] = t[p \o r]
  BY DEF N!At
<1> QED
  BY <1>2, <1>3, <1>4

LEMMA DirAt ==
  ASSUME NEW t, DOMAIN t \subseteq Path, NEW p \in Path
  PROVE  N!IsDir(N!At(t, p)) <=> p \in DOMAIN t /\ t[p] = Dir
<1>1. <<>> \in Path /\ p \o <<>> = p
  BY ConcatEmptySeq DEF Path
<1>2. /\ <<>> \in DOMAIN N!At(t, p) <=> p \o <<>> \in DOMAIN t
      /\ <<>> \in DOMAIN N!At(t, p) => N!At(t, p)[<<>>] = t[p \o <<>>]
  BY <1>1, AtIs
<1> QED
  BY <1>1, <1>2 DEF N!IsDir

LEMMA WellFormedIs ==
  ASSUME NEW t, DOMAIN t \subseteq Path
  PROVE  N!WellFormed(t) <=>
           \A p \in DOMAIN t : p # <<>> => N!Front(p) \in DOMAIN t /\ t[N!Front(p)] = Dir
BY DirAt, FrontOf DEF N!WellFormed, N!InDirectory

(* What is below a path of a tree is a tree.                               *)
LEMMA AtGood ==
  ASSUME NEW t, Good(t), NEW p \in Path
  PROVE  Good(N!At(t, p))
<1>1. DOMAIN t \subseteq Path /\ DOMAIN N!At(t, p) \subseteq Path
  BY AtIs DEF Good
<1>2. ASSUME NEW r \in DOMAIN N!At(t, p), r # <<>>
      PROVE  N!Front(r) \in DOMAIN N!At(t, p) /\ N!At(t, p)[N!Front(r)] = Dir
  <2>1. r \in Path /\ p \o r \in DOMAIN t /\ p \o r # <<>>
    <3>1. r \in Path /\ p \o r \in DOMAIN t
      BY <1>1, AtIs
    <3> QED
      BY <1>2, <3>1, ConcatEqualIffEmpty DEF Path
  <2>2. N!Front(p \o r) \in DOMAIN t /\ t[N!Front(p \o r)] = Dir
    BY <1>1, <2>1, WellFormedIs DEF Good
  <2>3. N!Front(p \o r) = p \o N!Front(r) /\ N!Front(r) \in Path
    BY <1>2, <2>1, FrontOfConcat, FrontOf
  <2> QED
    BY <1>1, <2>2, <2>3, AtIs
<1> QED
  BY <1>1, <1>2, WellFormedIs DEF Good

(* Where a Put leaves a tree as it is, and where it puts the node.         *)
LEMMA PutIs ==
  ASSUME NEW t, DOMAIN t \subseteq Path, NEW p \in Path, NEW v, DOMAIN v \subseteq Path
  PROVE  /\ DOMAIN N!Put(t, p, v) \subseteq Path
         /\ \A q \in Path : ~N!IsPrefix(p, q) =>
              /\ q \in DOMAIN N!Put(t, p, v) <=> q \in DOMAIN t
              /\ q \in DOMAIN t => N!Put(t, p, v)[q] = t[q]
         /\ \A r \in Path :
              /\ p \o r \in DOMAIN N!Put(t, p, v) <=> r \in DOMAIN v
              /\ r \in DOMAIN v => N!Put(t, p, v)[p \o r] = v[r]
<1> DEFINE new == N!Put(t, p, v)
<1>1. DOMAIN new = (DOMAIN t \ N!Inside(t, p)) \union {p \o r : r \in DOMAIN v}
  BY DEF N!Put
<1>2. \A q \in DOMAIN new : new[q] = IF N!IsPrefix(p, q) THEN v[N!Rest(p, q)] ELSE t[q]
  BY DEF N!Put
<1> HIDE DEF new
<1>3. \A r \in Path : p \o r \in Path /\ N!IsPrefix(p, p \o r) /\ N!Rest(p, p \o r) = r
  BY Concat
<1>4. DOMAIN new \subseteq Path
  BY <1>1, <1>3
<1>5. ASSUME NEW q \in Path, ~N!IsPrefix(p, q)
      PROVE  (q \in DOMAIN new <=> q \in DOMAIN t) /\ (q \in DOMAIN t => new[q] = t[q])
  <2>1. q \notin {p \o r : r \in DOMAIN v}
    BY <1>3, <1>5
  <2> QED
    BY <1>1, <1>2, <1>5, <2>1 DEF N!Inside
<1>6. ASSUME NEW r \in Path
      PROVE  (p \o r \in DOMAIN new <=> r \in DOMAIN v) /\ (r \in DOMAIN v => new[p \o r] = v[r])
  <2>1. p \o r \notin DOMAIN t \ N!Inside(t, p)
    BY <1>3 DEF N!Inside
  <2>2. p \o r \in {p \o s : s \in DOMAIN v} <=> r \in DOMAIN v
    BY <1>3
  <2> QED
    BY <1>1, <1>2, <1>3, <2>1, <2>2
<1> QED
  BY <1>4, <1>5, <1>6 DEF new

(* recursiveLink: a node put where it may be keeps the tree a tree.        *)
LEMMA PutGood ==
  ASSUME NEW t, Good(t), NEW p \in Path, NEW v, Good(v), N!CanLink(t, p)
  PROVE  Good(N!Put(t, p, v))
<1> DEFINE new == N!Put(t, p, v)
<1>1. DOMAIN t \subseteq Path /\ DOMAIN v \subseteq Path /\ DOMAIN new \subseteq Path
  BY PutIs DEF Good
<1>2. ASSUME NEW q \in DOMAIN new, q # <<>>
      PROVE  N!Front(q) \in DOMAIN new /\ new[N!Front(q)] = Dir
  <2>0. q \in Path /\ N!Front(q) \in Path /\ Len(N!Front(q)) = Len(q) - 1 /\ N!IsPrefix(N!Front(q), q)
    BY <1>1, <1>2, FrontOf
  <2>1. CASE ~N!IsPrefix(p, q)
    <3>1. q \in DOMAIN t
      BY <1>1, <2>0, <2>1, PutIs
    <3>2. N!Front(q) \in DOMAIN t /\ t[N!Front(q)] = Dir
      BY <1>1, <1>2, <3>1, WellFormedIs DEF Good
    <3>3. ~N!IsPrefix(p, N!Front(q))
      BY <2>0, <2>1, PrefixTransitive
    <3> QED
      BY <1>1, <2>0, <3>2, <3>3, PutIs
  <2>2. CASE N!IsPrefix(p, q) /\ q = p
    <3>1. N!InDirectory(t, p) /\ p # <<>>
      BY <1>2, <2>2 DEF N!CanLink
    <3>2. N!Front(p) \in DOMAIN t /\ t[N!Front(p)] = Dir
      BY <1>1, <2>0, <2>2, <3>1, DirAt DEF N!InDirectory
    <3>3. ~N!IsPrefix(p, N!Front(p))
      BY <2>0, <2>2, PrefixDef DEF Path
    <3> QED
      BY <1>1, <2>0, <2>2, <3>2, <3>3, PutIs
  <2>3. CASE N!IsPrefix(p, q) /\ q # p
    <3> DEFINE r == N!Rest(p, q)
    <3>1. r \in Path /\ q = p \o r /\ r # <<>>
      BY <2>0, <2>3, Split, Concat
    <3> HIDE DEF r
    <3>2. r \in DOMAIN v
      BY <1>1, <3>1, PutIs
    <3>3. N!Front(r) \in DOMAIN v /\ v[N!Front(r)] = Dir /\ N!Front(r) \in Path
      BY <1>1, <3>1, <3>2, WellFormedIs, FrontOf DEF Good
    <3>4. N!Front(q) = p \o N!Front(r)
      BY <3>1, FrontOfConcat
    <3>5. /\ p \o N!Front(r) \in DOMAIN new <=> N!Front(r) \in DOMAIN v
          /\ N!Front(r) \in DOMAIN v => new[p \o N!Front(r)] = v[N!Front(r)]
      BY <1>1, <3>3, PutIs
    <3> QED
      BY <3>3, <3>4, <3>5
  <2> QED
    BY <2>1, <2>2, <2>3
<1> HIDE DEF new
<1> QED
  BY <1>1, <1>2, WellFormedIs DEF Good, new

Differ(s, t, q) == ~((q \in DOMAIN s <=> q \in DOMAIN t) /\ (q \in DOMAIN s => s[q] = t[q]))

LEMMA AtSame ==
  ASSUME NEW s, DOMAIN s \subseteq Path, NEW t, DOMAIN t \subseteq Path, NEW p \in Path,
         \A q \in Path : N!IsPrefix(p, q) => ~Differ(s, t, q)
  PROVE  N!At(s, p) = N!At(t, p)
<1>1. N!Inside(s, p) = N!Inside(t, p)
  BY DEF N!Inside, Differ
<1>2. \A r \in {N!Rest(p, q) : q \in N!Inside(s, p)} : s[p \o r] = t[p \o r]
  <2> SUFFICES ASSUME NEW q \in N!Inside(s, p) PROVE s[p \o N!Rest(p, q)] = t[p \o N!Rest(p, q)]
    OBVIOUS
  <2>1. q \in Path /\ q \in DOMAIN s /\ N!IsPrefix(p, q) /\ p \o N!Rest(p, q) = q
    BY Split DEF N!Inside
  <2> QED
    BY <2>1 DEF Differ
<1> QED
  BY <1>1, <1>2 DEF N!At

(* A change of a change.                                                   *)
LEMMA PutDiffers ==
  ASSUME NEW s, NEW t, DOMAIN t \subseteq Path, NEW p \in Path, NEW v, DOMAIN v \subseteq Path,
         NEW q \in Path, Differ(s, N!Put(t, p, v), q)
  PROVE  Differ(s, t, q) \/ N!IsPrefix(p, q)
BY PutIs DEF Differ
-----------------------------------------------------------------------------
IsPerCaller(f) == f = [c \in Linkers |-> f[c]]

NodesOK(a) ==
  /\ a = [serial |-> a.serial, nodes |-> a.nodes]
  /\ \A q \in DOMAIN a.nodes : Good(a.nodes[q])

Types ==
  /\ Good(root)
  /\ told \subseteq Path
  /\ doing \in [Linkers -> {"idle", "look", "resolve", "link", "commit"}]
  /\ pos \in [Linkers -> Nat]
  /\ IsPerCaller(job) /\ IsPerCaller(draft) /\ IsPerCaller(reply) /\ IsPerCaller(seen)
  /\ \A c \in Linkers :
       /\ NodesOK(seen[c]) /\ NodesOK(reply[c])
       /\ N!Looking(c) => job[c] \in Lookups
       /\ N!Linking(c) => job[c] \in Batches

(* treeMtx: one MultiLink at a time.                                       *)
LockOK == \A c, d \in Linkers : N!Linking(c) /\ N!Linking(d) => c = d

(* What a MultiLink is building is a tree, and the watchers heard of every *)
(* place where it differs from the one there is.                           *)
DraftOK ==
  \A c \in Linkers : N!Linking(c) =>
    /\ Good(draft[c])
    /\ \A q \in Path : Differ(root, draft[c], q) => \E w \in told : N!IsPrefix(w, q)

IInv == Types /\ LockOK /\ DraftOK

LEMMA MissingGood == Good(N!Missing) /\ \A q \in DOMAIN N!Missing : FALSE
<1>1. DOMAIN N!Missing = {}
  BY DEF N!Missing
<1> QED
  BY <1>1 DEF Good, N!WellFormed

LEMMA NoAnswerOK == NodesOK(N!NoAnswer)
BY MissingGood DEF NodesOK, N!NoAnswer, N!Missing

LEMMA Initially == N!Init => IInv
<1> SUFFICES ASSUME N!Init PROVE IInv
  OBVIOUS
<1>1. Good(N!EmptyTree)
  <2>1. DOMAIN N!EmptyTree = {<<>>} /\ DOMAIN N!EmptyTree \subseteq Path
    BY EmptySeq DEF N!EmptyTree, Path
  <2> QED
    BY <2>1 DEF Good, N!WellFormed, N!InDirectory
<1>2. \A c \in Linkers : doing[c] = "idle" /\ seen[c] = N!NoAnswer /\ reply[c] = N!NoAnswer
  BY DEF N!Init
<1>3. Types
  BY <1>1, <1>2, NoAnswerOK DEF N!Init, Types, IsPerCaller, N!Looking, N!Linking
<1> QED
  BY <1>2, <1>3 DEF IInv, LockOK, DraftOK, N!Linking

(* What a caller links is a tree: it was uploaded or seen in one.          *)
LEMMA ValueGood ==
  ASSUME InputsAreSound, Types, NEW c \in Linkers, NEW b \in Batches, NEW i \in 1..Len(b)
  PROVE  b[i].path \in Path /\ Good(N!Value(c, b[i]))
<1>1. \A q : Good(N!Seen(c, q))
  BY MissingGood DEF Types, N!Seen, NodesOK
<1> QED
  BY <1>1 DEF InputsAreSound, N!Value

LEMMA EndsKeeps ==
  ASSUME Types, NEW c \in Linkers, N!Ends(c)
  PROVE  /\ doing' \in [Linkers -> {"idle", "look", "resolve", "link", "commit"}]
         /\ pos' \in [Linkers -> Nat]
         /\ IsPerCaller(job)' /\ IsPerCaller(draft)' /\ IsPerCaller(reply)'
         /\ doing'[c] = "idle" /\ reply'[c] = N!NoAnswer
         /\ \A d \in Linkers : d # c =>
              /\ doing'[d] = doing[d] /\ job'[d] = job[d] /\ pos'[d] = pos[d]
              /\ draft'[d] = draft[d] /\ reply'[d] = reply[d]
BY DEF Types, N!Ends, IsPerCaller

(* What happens beside a MultiLink.                                        *)
LEMMA BesideKeeps ==
  ASSUME IInv, root' = root, told' = told,
         \A d \in Linkers : N!Linking(d)' => N!Linking(d) /\ draft'[d] = draft[d]
  PROVE  LockOK' /\ DraftOK'
BY DEF IInv, LockOK, DraftOK

LEMMA LookBeginKeeps ==
  ASSUME IInv, NEW c \in Linkers, NEW ps \in Lookups, NEW kind \in {"look", "resolve"},
         N!LookBegin(c, ps, kind)
  PROVE  IInv'
<1> DEFINE new == [serial |-> serial, nodes |-> <<>>]
<1>1. NodesOK(new)
  <2>1. DOMAIN new.nodes = {}
    BY MissingGood DEF N!Missing
  <2> QED
    BY <2>1 DEF NodesOK
<1> HIDE DEF new
<1>2. \A d \in Linkers : /\ doing'[d] = IF d = c THEN kind ELSE doing[d]
                         /\ job'[d] = IF d = c THEN ps ELSE job[d]
                         /\ draft'[d] = IF d = c THEN N!Missing ELSE draft[d]
                         /\ reply'[d] = IF d = c THEN new ELSE reply[d]
  BY DEF IInv, Types, N!LookBegin, IsPerCaller, new
<1>3. Types'
  <2>1. /\ doing' \in [Linkers -> {"idle", "look", "resolve", "link", "commit"}]
        /\ pos' \in [Linkers -> Nat]
        /\ IsPerCaller(job)' /\ IsPerCaller(draft)' /\ IsPerCaller(reply)' /\ IsPerCaller(seen)'
    BY DEF IInv, Types, N!LookBegin, IsPerCaller
  <2>2. ASSUME NEW d \in Linkers
        PROVE  /\ NodesOK(seen'[d]) /\ NodesOK(reply'[d])
               /\ N!Looking(d)' => job'[d] \in Lookups
               /\ N!Linking(d)' => job'[d] \in Batches
    BY <1>1, <1>2 DEF IInv, Types, N!LookBegin, N!Looking, N!Linking
  <2>3. Good(root)' /\ told' \subseteq Path
    BY DEF IInv, Types, N!LookBegin
  <2> QED
    BY <2>1, <2>2, <2>3 DEF Types, NodesOK
<1>4. \A d \in Linkers : N!Linking(d)' => N!Linking(d) /\ draft'[d] = draft[d]
  BY <1>2 DEF N!Linking
<1> QED
  BY <1>3, <1>4, BesideKeeps DEF N!LookBegin, IInv

LEMMA LookRootKeeps ==
  ASSUME IInv, NEW c \in Linkers, N!LookRoot(c)
  PROVE  IInv'
<1>1. Types'
  BY DEF IInv, Types, N!LookRoot, IsPerCaller, NodesOK, N!Looking, N!Linking, Good
<1>2. \A d \in Linkers : N!Linking(d)' => N!Linking(d) /\ draft'[d] = draft[d]
  BY DEF IInv, Types, N!LookRoot, IsPerCaller, N!Looking, N!Linking
<1> QED
  BY <1>1, <1>2, BesideKeeps DEF N!LookRoot, IInv

LEMMA LookPathKeeps ==
  ASSUME InputsAreSound, IInv, NEW c \in Linkers, N!LookPath(c)
  PROVE  IInv'
<1> DEFINE p == job[c][pos[c] + 1]
           old == reply[c]
           found == [q \in DOMAIN old.nodes \union {p} |->
                       IF q \in DOMAIN old.nodes THEN old.nodes[q] ELSE N!At(root, p)]
<1>1. p \in Path
  BY DEF IInv, Types, N!LookPath, InputsAreSound
<1>2. NodesOK(old) /\ Good(N!At(root, p))
  BY <1>1, AtGood DEF IInv, Types
<1>3. reply' = [reply EXCEPT ![c].nodes = found]
  BY DEF N!LookPath
<1>4. \A q \in DOMAIN found : Good(found[q])
  BY <1>2 DEF NodesOK
<1> HIDE DEF found, p
<1>5. reply'[c] = [serial |-> old.serial, nodes |-> found]
  BY <1>2, <1>3 DEF IInv, Types, IsPerCaller, NodesOK
<1>6. NodesOK(reply'[c])
  BY <1>4, <1>5 DEF NodesOK
<1>7. \A d \in Linkers : d # c => reply'[d] = reply[d]
  BY <1>3 DEF IInv, Types, IsPerCaller
<1>8. IsPerCaller(reply)'
  BY <1>3 DEF IInv, Types, IsPerCaller
<1>9. pos' \in [Linkers -> Nat]
  BY DEF IInv, Types, N!LookPath
<1>10. Types'
  <2>1. \A d \in Linkers : NodesOK(reply'[d])
    BY <1>6, <1>7 DEF IInv, Types
  <2> QED
    BY <1>8, <1>9, <2>1 DEF IInv, Types, N!LookPath, IsPerCaller, NodesOK, N!Looking, N!Linking, Good
<1>11. \A d \in Linkers : N!Linking(d)' => N!Linking(d) /\ draft'[d] = draft[d]
  BY DEF N!LookPath, N!Linking
<1> QED
  BY <1>10, <1>11, BesideKeeps DEF N!LookPath, IInv

(* What holds after the end of a call for the callers it did not concern.  *)
LEMMA EndsTypes ==
  ASSUME Types, NEW c \in Linkers, N!Ends(c),
         Good(root)', told' \subseteq Path, IsPerCaller(seen)',
         \A d \in Linkers : NodesOK(seen'[d])
  PROVE  Types'
<1>1. ASSUME NEW d \in Linkers
      PROVE  /\ NodesOK(reply'[d])
             /\ N!Looking(d)' => job'[d] \in Lookups
             /\ N!Linking(d)' => job'[d] \in Batches
  BY EndsKeeps, NoAnswerOK DEF Types, N!Looking, N!Linking
<1>2. /\ doing' \in [Linkers -> {"idle", "look", "resolve", "link", "commit"}]
      /\ pos' \in [Linkers -> Nat]
      /\ IsPerCaller(job)' /\ IsPerCaller(draft)' /\ IsPerCaller(reply)'
  BY EndsKeeps
<1> QED
  BY <1>1, <1>2 DEF Types, NodesOK

LEMMA LookReturnsKeeps ==
  ASSUME IInv, NEW c \in Linkers, N!LookReturns(c)
  PROVE  IInv'
<1>0. Types
  BY DEF IInv
<1>1. N!Ends(c) /\ seen' = [seen EXCEPT ![c] = reply[c]] /\ UNCHANGED <<root, serial, told>>
  BY DEF N!LookReturns
<1>2. Types'
  <2>1. \A d \in Linkers : NodesOK(seen'[d])
    BY <1>1, <1>0 DEF Types, IsPerCaller
  <2>2. IsPerCaller(seen)' /\ Good(root)' /\ told' \subseteq Path
    BY <1>0, <1>1 DEF Types, IsPerCaller, Good
  <2> QED
    BY <1>0, <1>1, <2>1, <2>2, EndsTypes
<1>3. \A d \in Linkers : N!Linking(d)' => N!Linking(d) /\ draft'[d] = draft[d]
  BY <1>0, <1>1, EndsKeeps DEF N!Linking
<1> QED
  BY <1>1, <1>2, <1>3, BesideKeeps DEF IInv

LEMMA LinkBeginKeeps ==
  ASSUME IInv, NEW c \in Linkers, NEW b \in Batches, N!LinkBegin(c, b)
  PROVE  IInv'
<1>0. Types
  BY DEF IInv
<1>1. Types'
  <2>1. \A d \in Linkers : /\ N!Looking(d)' => job'[d] \in Lookups
                           /\ N!Linking(d)' => job'[d] \in Batches
    BY <1>0 DEF Types, N!LinkBegin, IsPerCaller, N!Looking, N!Linking
  <2>2. ASSUME NEW d \in Linkers PROVE NodesOK(seen'[d]) /\ NodesOK(reply'[d])
    BY <1>0 DEF Types, N!LinkBegin
  <2>3. /\ doing' \in [Linkers -> {"idle", "look", "resolve", "link", "commit"}]
        /\ pos' \in [Linkers -> Nat]
        /\ IsPerCaller(job)' /\ IsPerCaller(draft)' /\ IsPerCaller(reply)' /\ IsPerCaller(seen)'
        /\ Good(root)' /\ told' \subseteq Path
    BY <1>0 DEF Types, N!LinkBegin, IsPerCaller
  <2> QED
    BY <2>1, <2>2, <2>3 DEF Types, NodesOK
<1>2. \A d \in Linkers : N!Linking(d)' => d = c
  BY <1>0 DEF Types, N!LinkBegin, N!WriteLock, N!Linking
<1>3. draft'[c] = root /\ root' = root /\ Good(root)
  BY <1>0 DEF Types, N!LinkBegin, IsPerCaller
<1>4. DraftOK'
  BY <1>2, <1>3 DEF DraftOK, Differ
<1> QED
  BY <1>1, <1>2, <1>4 DEF IInv, LockOK

LEMMA LinkPathKeeps ==
  ASSUME InputsAreSound, IInv, NEW c \in Linkers, N!LinkPath(c)
  PROVE  IInv'
<1> DEFINE r == job[c][pos[c] + 1]
           p == r.path
           v == N!Value(c, r)
<1>0. Types
  BY DEF IInv
<1>1. N!Linking(c) /\ job[c] \in Batches /\ pos[c] + 1 \in 1..Len(job[c])
  <2>1. N!Linking(c) /\ job[c] \in Batches
    BY <1>0 DEF Types, N!LinkPath, N!Linking
  <2> QED
    BY <1>0, <2>1 DEF Types, N!LinkPath, InputsAreSound
<1>2. p \in Path /\ Good(v)
  BY <1>0, <1>1, ValueGood
<1>3. /\ N!CanLink(draft[c], p)
      /\ draft' = [draft EXCEPT ![c] = N!Put(draft[c], p, v)]
      /\ told' = told \union {p}
      /\ UNCHANGED <<root, serial, doing, job, reply, seen>>
      /\ pos' = [pos EXCEPT ![c] = @ + 1]
  BY DEF N!LinkPath, N!Tell
<1> HIDE DEF r, p, v
<1>4. Good(draft[c]) /\ \A q \in Path : Differ(root, draft[c], q) => \E w \in told : N!IsPrefix(w, q)
  BY <1>1 DEF IInv, DraftOK
<1>5. IsPerCaller(draft)' /\ draft'[c] = N!Put(draft[c], p, v)
  BY <1>0, <1>3 DEF Types, IsPerCaller
<1>6. Good(draft'[c])
  BY <1>2, <1>3, <1>4, <1>5, PutGood
<1>7. ASSUME NEW q \in Path, Differ(root, draft'[c], q)
      PROVE  \E w \in told' : N!IsPrefix(w, q)
  <2>1. Differ(root, draft[c], q) \/ N!IsPrefix(p, q)
    BY <1>2, <1>4, <1>5, <1>7, PutDiffers DEF Good
  <2> QED
    BY <1>3, <1>4, <2>1
<1>8. \A d \in Linkers : N!Linking(d)' => d = c
  BY <1>1, <1>3 DEF IInv, LockOK, N!Linking
<1>9. DraftOK'
  BY <1>3, <1>6, <1>7, <1>8 DEF DraftOK
<1>10. Types'
  BY <1>0, <1>2, <1>3, <1>5 DEF Types, IsPerCaller, NodesOK, N!Looking, N!Linking, Good
<1> QED
  BY <1>8, <1>9, <1>10 DEF IInv, LockOK

LEMMA LinkAnswerKeeps ==
  ASSUME InputsAreSound, IInv, NEW c \in Linkers, N!LinkAnswer(c)
  PROVE  IInv'
<1> DEFINE paths == {r.path : r \in N!Entries(job[c])}
           new == [serial |-> serial + 1, nodes |-> [p \in paths |-> N!At(draft[c], p)]]
<1>0. Types
  BY DEF IInv
<1>1. N!Linking(c) /\ job[c] \in Batches
  BY <1>0 DEF Types, N!LinkAnswer, N!Linking
<1>2. paths \subseteq Path /\ Good(draft[c])
  BY <1>0, <1>1, ValueGood DEF N!Entries, IInv, DraftOK
<1>3. /\ doing' = [doing EXCEPT ![c] = "commit"]
      /\ reply' = [reply EXCEPT ![c] = new]
      /\ UNCHANGED <<root, serial, job, pos, draft, seen, told>>
  BY DEF N!LinkAnswer, N!Described
<1> HIDE DEF paths
<1>4. NodesOK(new)
  BY <1>2, AtGood DEF NodesOK
<1> HIDE DEF new
<1>5. IsPerCaller(reply)' /\ \A d \in Linkers : reply'[d] = IF d = c THEN new ELSE reply[d]
  BY <1>0, <1>3 DEF Types, IsPerCaller
<1>6. \A d \in Linkers : N!Linking(d)' <=> N!Linking(d)
  BY <1>0, <1>1, <1>3 DEF Types, N!Linking
<1>7. \A d \in Linkers : N!Looking(d)' => N!Looking(d)
  BY <1>0, <1>3 DEF Types, N!Looking
<1>8. Types'
  <2>1. ASSUME NEW d \in Linkers
        PROVE  /\ NodesOK(seen'[d]) /\ NodesOK(reply'[d])
               /\ N!Looking(d)' => job'[d] \in Lookups
               /\ N!Linking(d)' => job'[d] \in Batches
    BY <1>0, <1>3, <1>4, <1>5, <1>6, <1>7 DEF Types
  <2>2. doing' \in [Linkers -> {"idle", "look", "resolve", "link", "commit"}]
    BY <1>0, <1>3 DEF Types
  <2> QED
    BY <1>0, <1>3, <1>5, <2>1, <2>2 DEF Types, IsPerCaller, NodesOK, Good
<1> QED
  BY <1>3, <1>6, <1>8, BesideKeeps DEF IInv

(* Nobody else is linking when a MultiLink ends.                           *)
LEMMA EndsAlone ==
  ASSUME Types, LockOK, NEW c \in Linkers, N!Linking(c), N!Ends(c)
  PROVE  \A d \in Linkers : ~N!Linking(d)'
BY EndsKeeps DEF LockOK, N!Linking

LEMMA LinkCommitKeeps ==
  ASSUME IInv, NEW c \in Linkers, N!LinkCommit(c)
  PROVE  IInv'
<1>0. Types /\ LockOK /\ DraftOK
  BY DEF IInv
<1>1. N!Linking(c) /\ N!Ends(c) /\ root' = draft[c] /\ told' = {} /\ seen' = [seen EXCEPT ![c] = reply[c]]
  BY DEF N!LinkCommit, N!Linking
<1>2. \A d \in Linkers : ~N!Linking(d)'
  BY <1>0, <1>1, EndsAlone
<1>3. Good(root)'
  BY <1>0, <1>1 DEF DraftOK, Good
<1>4. IsPerCaller(seen)' /\ told' \subseteq Path
  BY <1>0, <1>1 DEF Types, IsPerCaller
<1>5. \A d \in Linkers : NodesOK(seen'[d])
  BY <1>0, <1>1 DEF Types, IsPerCaller
<1>6. Types'
  BY <1>0, <1>1, <1>3, <1>4, <1>5, EndsTypes
<1> QED
  BY <1>2, <1>6 DEF IInv, LockOK, DraftOK

LEMMA FailsKeeps ==
  ASSUME IInv, NEW c \in Linkers, N!Fails(c)
  PROVE  IInv'
<1>0. Types /\ LockOK
  BY DEF IInv
<1>1. N!Ends(c) /\ UNCHANGED <<root, serial, seen>> /\ told' = IF N!Linking(c) THEN {} ELSE told
  BY DEF N!Fails
<1>2. Types'
  <2>1. told' \subseteq Path /\ Good(root)' /\ IsPerCaller(seen)'
    BY <1>0, <1>1 DEF Types, IsPerCaller, Good
  <2>2. \A d \in Linkers : NodesOK(seen'[d])
    BY <1>0, <1>1 DEF Types
  <2> QED
    BY <1>0, <1>1, <2>1, <2>2, EndsTypes
<1>3. CASE N!Linking(c)
  <2>1. \A d \in Linkers : ~N!Linking(d)'
    BY <1>0, <1>1, <1>3, EndsAlone
  <2> QED
    BY <1>2, <2>1 DEF IInv, LockOK, DraftOK
<1>4. CASE ~N!Linking(c)
  <2>1. \A d \in Linkers : N!Linking(d)' => N!Linking(d) /\ draft'[d] = draft[d]
    BY <1>0, <1>1, EndsKeeps DEF N!Linking
  <2> QED
    BY <1>1, <1>2, <1>4, <2>1, BesideKeeps DEF IInv
<1> QED
  BY <1>3, <1>4

LEMMA StepKeeps == InputsAreSound /\ IInv /\ [N!Next]_(N!vars) => IInv'
<1> SUFFICES ASSUME InputsAreSound, IInv, [N!Next]_(N!vars) PROVE IInv'
  OBVIOUS
<1>1. CASE UNCHANGED N!vars
  BY <1>1 DEF IInv, Types, LockOK, DraftOK, IsPerCaller, NodesOK, N!Looking, N!Linking, Good, N!vars, N!caller
<1>2. CASE N!Next
  <2>1. PICK c \in Linkers :
          \/ \E ps \in Lookups, kind \in {"look", "resolve"} : N!LookBegin(c, ps, kind)
          \/ N!LookRoot(c) \/ N!LookPath(c) \/ N!LookReturns(c)
          \/ \E b \in Batches : N!LinkBegin(c, b)
          \/ N!LinkPath(c) \/ N!LinkAnswer(c) \/ N!LinkCommit(c) \/ N!Fails(c)
    BY <1>2 DEF N!Next
  <2>2. CASE \E ps \in Lookups, kind \in {"look", "resolve"} : N!LookBegin(c, ps, kind)
    BY <2>2, LookBeginKeeps
  <2>3. CASE N!LookRoot(c)
    BY <2>3, LookRootKeeps
  <2>4. CASE N!LookPath(c)
    BY <2>4, LookPathKeeps
  <2>5. CASE N!LookReturns(c)
    BY <2>5, LookReturnsKeeps
  <2>6. CASE \E b \in Batches : N!LinkBegin(c, b)
    BY <2>6, LinkBeginKeeps
  <2>7. CASE N!LinkPath(c)
    BY <2>7, LinkPathKeeps
  <2>8. CASE N!LinkAnswer(c)
    BY <2>8, LinkAnswerKeeps
  <2>9. CASE N!LinkCommit(c)
    BY <2>9, LinkCommitKeeps
  <2>10. CASE N!Fails(c)
    BY <2>10, FailsKeeps
  <2> QED
    BY <2>1, <2>2, <2>3, <2>4, <2>5, <2>6, <2>7, <2>8, <2>9, <2>10
<1> QED
  BY <1>1, <1>2
-----------------------------------------------------------------------------
(* What a commit changes lies at, above or below a path watchers heard of. *)
LEMMA CommitIsTold ==
  ASSUME IInv, NEW c \in Linkers, N!LinkCommit(c), NEW p \in Path, N!At(root, p) # N!At(root', p)
  PROVE  \E q \in told : N!IsPrefix(p, q) \/ N!IsPrefix(q, p)
<1>1. N!Linking(c) /\ root' = draft[c]
  BY DEF N!LinkCommit, N!Linking
<1>2. /\ Good(root) /\ Good(root') /\ told \subseteq Path
      /\ \A q \in Path : Differ(root, root', q) => \E w \in told : N!IsPrefix(w, q)
  BY <1>1 DEF IInv, Types, DraftOK
<1>3. PICK q \in Path : N!IsPrefix(p, q) /\ Differ(root, root', q)
  BY <1>2, AtSame DEF Good
<1>4. PICK w \in told : N!IsPrefix(w, q)
  BY <1>2, <1>3
<1>5. N!IsPrefix(p, w) \/ N!IsPrefix(w, p)
  BY <1>2, <1>3, <1>4, PrefixTransitive
<1> QED
  BY <1>5

(* recursiveLink: an entry always lies in a directory, whatever is linked, *)
(* moved and unlinked by any number of callers.                            *)
THEOREM EntriesStayInDirectories == InputsAreSound => (N!Spec => []EntriesInDirectories)
<1> SUFFICES ASSUME InputsAreSound PROVE N!Spec => []EntriesInDirectories
  OBVIOUS
<1>1. IInv => EntriesInDirectories
  BY DEF IInv, Types, Good, EntriesInDirectories, N!EntriesInDirectories
<1>2. IInv /\ [N!Next]_(N!vars) => IInv'
  BY StepKeeps
<1> QED
  BY <1>1, <1>2, Initially, PTL DEF N!Spec

(* notifyWatchers: whatever a commit changes, the watchers heard of a path *)
(* at it, above it or below it.                                            *)
THEOREM ChangesAreTold == InputsAreSound => (N!Spec => WatchersTold)
<1> SUFFICES ASSUME InputsAreSound PROVE N!Spec => WatchersTold
  OBVIOUS
<1> DEFINE Told == \A p \in DOMAIN root \union DOMAIN root' :
                     N!At(root, p) # N!At(root', p) =>
                       \E q \in told : N!IsPrefix(p, q) \/ N!IsPrefix(q, p)
<1>1. IInv /\ IInv' /\ [N!Next]_(N!vars) => [Told]_root
  <2> SUFFICES ASSUME IInv, IInv', [N!Next]_(N!vars), root' # root PROVE Told
    OBVIOUS
  <2>1. PICK c \in Linkers : N!LinkCommit(c)
    BY DEF N!Next, N!LookBegin, N!LookRoot, N!LookPath, N!LookReturns, N!LinkBegin, N!LinkPath, N!LinkAnswer, N!Fails, N!vars
  <2>2. DOMAIN root \subseteq Path /\ DOMAIN root' \subseteq Path
    BY DEF IInv, Types, Good
  <2> QED
    BY <2>1, <2>2, CommitIsTold
<1>2. IInv /\ [N!Next]_(N!vars) => IInv'
  BY StepKeeps
<1> QED
  BY <1>1, <1>2, Initially, PTL DEF N!Spec, WatchersTold, N!WatchersTold
-----------------------------------------------------------------------------
(* Induction, over a set of numbers.                                       *)
LEMMA LeastNumber ==
  ASSUME NEW T, T \subseteq Nat, T # {}
  PROVE  \E m \in T : \A n \in T : m <= n
<1> DEFINE Smaller == OpToRel(<, Nat)
<1>1. IsWellFoundedOn(Smaller, Nat)
  BY NatLessThanWellFounded
<1>2. \A x \in Nat, y \in Nat : <<x, y>> \in Smaller <=> x < y
  BY DEF OpToRel
<1> HIDE DEF Smaller
<1>3. PICK m \in T : \A y \in T : ~ (<<y, m>> \in Smaller)
  BY <1>1, WFMin
<1>4. ASSUME NEW n \in T PROVE m <= n
  <2>1. m \in Nat /\ n \in Nat /\ <<n, m>> \notin Smaller
    BY <1>3
  <2>2. ~(n < m)
    BY <1>2, <2>1
  <2> QED
    BY <2>1, <2>2
<1> QED
  BY <1>4

LEMMA NumberInduction ==
  ASSUME NEW G, 0 \in G, \A n \in Nat : n \in G => n + 1 \in G
  PROVE  Nat \subseteq G
<1> SUFFICES ASSUME NEW k \in Nat, k \notin G PROVE FALSE
  OBVIOUS
<1> DEFINE T == {n \in Nat : n \notin G}
<1>1. PICK m \in T : \A n \in T : m <= n
  BY LeastNumber
<1>2. m \in Nat /\ m # 0 /\ m - 1 \in Nat /\ m - 1 + 1 = m
  BY <1>1
<1>3. m - 1 \notin T
  BY <1>1, <1>2
<1> QED
  BY <1>1, <1>2, <1>3

(* The trees a batch goes through, and the only ones it can go through.    *)
Through(f, n, t, a, b) ==
  /\ f = [i \in 0..n |-> f[i]]
  /\ f[0] = t
  /\ \A i \in 1..n : f[i] = N!Put(f[i - 1], b[i].path, N!Atomic!Value(a, b[i]))

LEMMA OneWayThrough ==
  ASSUME NEW n \in Nat, NEW t, NEW a, NEW b, NEW f, NEW g,
         Through(f, n, t, a, b), Through(g, n, t, a, b)
  PROVE  f[n] = g[n]
<1> DEFINE G == {i \in Nat : i <= n => f[i] = g[i]}
<1>1. 0 \in G
  BY DEF Through
<1>2. ASSUME NEW i \in Nat, i \in G PROVE i + 1 \in G
  <2>1. CASE i + 1 <= n
    <3>1. i + 1 \in 1..n /\ i + 1 - 1 = i /\ f[i] = g[i]
      BY <1>2, <2>1
    <3>2. ASSUME NEW k \in 1..n, k - 1 = i PROVE f[k] = g[k]
      <4>1. /\ f[k] = N!Put(f[k - 1], b[k].path, N!Atomic!Value(a, b[k]))
            /\ g[k] = N!Put(g[k - 1], b[k].path, N!Atomic!Value(a, b[k]))
        BY DEF Through
      <4>2. f[k - 1] = g[k - 1]
        BY <3>1, <3>2
      <4> QED
        BY <4>1, <4>2
    <3> QED
      BY <3>1, <3>2
  <2>2. CASE ~(i + 1 <= n)
    BY <2>2
  <2> QED
    BY <2>1, <2>2
<1> HIDE DEF G
<1>3. n \in G
  BY <1>1, <1>2, NumberInduction
<1> QED
  BY <1>3 DEF G

LEMMA SameTrees ==
  /\ \A t, p, v : N!Atomic!Put(t, p, v) = N!Put(t, p, v)
  /\ \A t, p : N!Atomic!At(t, p) = N!At(t, p)
BY DEF N!Atomic!Put, N!Put, N!Atomic!At, N!At, N!Atomic!Inside, N!Inside, N!Atomic!Rest, N!Rest,
       N!Atomic!IsPrefix, N!IsPrefix

LEMMA AppliedIs ==
  ASSUME NEW t, NEW a, NEW b, Len(b) \in Nat, NEW f, Through(f, Len(b), t, a, b)
  PROVE  N!Atomic!Applied(t, a, b) = f[Len(b)]
<1> DEFINE Rec(g) == [i \in 0..Len(b) |->
                        IF i = 0 THEN t ELSE N!Atomic!Put(g[i - 1], b[i].path, N!Atomic!Value(a, b[i]))]
           after == CHOOSE g : g = Rec(g)
<1>1. f = Rec(f)
  <2>1. f = [i \in 0..Len(b) |-> f[i]]
    BY DEF Through
  <2>2. ASSUME NEW i \in 0..Len(b) PROVE f[i] = Rec(f)[i]
    BY SameTrees DEF Through
  <2> HIDE DEF Rec
  <2>3. Rec(f) = [i \in 0..Len(b) |-> Rec(f)[i]]
    BY DEF Rec
  <2> QED
    BY <2>1, <2>2, <2>3
<1> HIDE DEF Rec
<1>2. after = Rec(after)
  BY <1>1
<1> HIDE DEF after
<1>3. Through(after, Len(b), t, a, b)
  <2>1. /\ after = [i \in 0..Len(b) |-> after[i]]
        /\ \A i \in 0..Len(b) : after[i] =
             IF i = 0 THEN t ELSE N!Atomic!Put(after[i - 1], b[i].path, N!Atomic!Value(a, b[i]))
    BY <1>2 DEF Rec
  <2> QED
    BY <2>1, SameTrees DEF Through
<1>4. after[Len(b)] = f[Len(b)]
  BY <1>3, OneWayThrough
<1> QED
  BY <1>4 DEF N!Atomic!Applied, after, Rec
-----------------------------------------------------------------------------
(* Lookup and MultiLink are atomic.                                        *)

(* A lookup under the lock has read what the tree still says.              *)
LookOK(c) ==
  doing[c] = "resolve" =>
    /\ pos[c] \in 0..Len(job[c])
    /\ reply[c] = [serial |-> serial,
                   nodes |-> [p \in {job[c][i] : i \in 1..pos[c]} |-> N!At(root, p)]]

(* A MultiLink's assertions still hold, its draft is what its requests     *)
(* make of the tree so far, and its answer describes the draft.            *)
LinkOK(c) ==
  N!Linking(c) =>
    /\ pos[c] \in 0..Len(job[c])
    /\ \A r \in N!Entries(job[c]) : r.unchanged => N!At(root, r.path) = N!Seen(c, r.path)
    /\ \E f : Through(f, pos[c], root, seen[c], job[c]) /\ f[pos[c]] = draft[c]
    /\ doing[c] = "commit" =>
         /\ pos[c] = Len(job[c])
         /\ reply[c] = [serial |-> serial + 1,
                        nodes |-> [p \in {r.path : r \in N!Entries(job[c])} |-> N!At(draft[c], p)]]

LocksOK == \A c, d \in Linkers : doing[c] = "resolve" => ~N!Linking(d)

RInv ==
  /\ IInv
  /\ \A c \in Linkers : doing[c] # "look"
  /\ LocksOK
  /\ \A c \in Linkers : LookOK(c) /\ LinkOK(c)

Sound == InputsAreSound /\ LockedOnly

LEMMA RestKeeps ==
  ASSUME NEW d \in Linkers, LookOK(d), LinkOK(d), root' = root, serial' = serial,
         doing'[d] = doing[d], job'[d] = job[d], pos'[d] = pos[d],
         draft'[d] = draft[d], reply'[d] = reply[d], seen'[d] = seen[d]
  PROVE  LookOK(d)' /\ LinkOK(d)'
<1>1. LookOK(d)'
  BY DEF LookOK
<1>2. LinkOK(d)'
  <2>1. N!Linking(d)' <=> N!Linking(d)
    BY DEF N!Linking
  <2>2. \A p : N!Seen(d, p)' = N!Seen(d, p)
    BY DEF N!Seen
  <2> QED
    BY <2>1, <2>2 DEF LinkOK
<1> QED
  BY <1>1, <1>2

LEMMA SameValue == \A c, r : N!Value(c, r) = N!Atomic!Value(seen[c], r)
BY DEF N!Value, N!Atomic!Value, N!Seen, N!Atomic!Seen, N!Missing, N!Atomic!Missing

LEMMA LookBeginKeepsR ==
  ASSUME Sound, RInv, NEW c \in Linkers, NEW ps \in Lookups, NEW kind \in {"look", "resolve"},
         N!LookBegin(c, ps, kind)
  PROVE  RInv'
<1>0. IInv' /\ Types /\ kind = "resolve" /\ (\A d \in Linkers : ~N!Linking(d))
  BY LookBeginKeeps DEF RInv, IInv, Sound, N!LookBegin, N!CanLook, N!ReadLock
<1>1. /\ root' = root /\ serial' = serial
      /\ doing'[c] = "resolve" /\ job'[c] = ps /\ pos'[c] = 0
      /\ reply'[c] = [serial |-> serial, nodes |-> <<>>]
  BY <1>0 DEF Types, IsPerCaller, N!LookBegin
<1>2. \A d \in Linkers : d # c =>
        /\ doing'[d] = doing[d] /\ job'[d] = job[d] /\ pos'[d] = pos[d]
        /\ draft'[d] = draft[d] /\ reply'[d] = reply[d] /\ seen'[d] = seen[d]
  BY <1>0 DEF Types, IsPerCaller, N!LookBegin
<1>3. \A d \in Linkers : ~N!Linking(d)' /\ doing'[d] # "look"
  BY <1>0, <1>1, <1>2 DEF RInv, N!Linking
<1>4. LookOK(c)'
  <2>1. ps \in Seq(Path) /\ 0 \in 0..Len(ps)
    BY DEF Sound, InputsAreSound
  <2>2. \A T, t : T = {} => <<>> = [p \in T |-> N!At(t, p)]
    OBVIOUS
  <2>3. {job'[c][i] : i \in 1..pos'[c]} = {}
    BY <1>1
  <2>4. reply'[c] = [serial |-> serial',
                     nodes |-> [p \in {job'[c][i] : i \in 1..pos'[c]} |-> N!At(root', p)]]
    BY <1>1, <2>2, <2>3
  <2> QED
    BY <1>1, <2>1, <2>4 DEF LookOK
<1>5. \A d \in Linkers : LookOK(d)' /\ LinkOK(d)'
  BY <1>1, <1>2, <1>3, <1>4, RestKeeps DEF RInv, LinkOK
<1> QED
  BY <1>0, <1>3, <1>5 DEF RInv, LocksOK

LEMMA LookRootKeepsR ==
  ASSUME RInv, NEW c \in Linkers, N!LookRoot(c)
  PROVE  RInv'
<1>0. IInv' /\ Types /\ doing[c] = "resolve" /\ ~N!Linking(c)
  BY LookRootKeeps DEF RInv, IInv, N!LookRoot, N!Looking, N!Linking
<1>1. /\ UNCHANGED <<root, serial, doing, job, pos, reply, seen>>
      /\ \A d \in Linkers : d # c => draft'[d] = draft[d]
  BY <1>0 DEF Types, IsPerCaller, N!LookRoot
<1>2. \A d \in Linkers : N!Linking(d)' <=> N!Linking(d)
  BY <1>1 DEF N!Linking
<1>3. LookOK(c)' /\ LinkOK(c)'
  <2>1. LookOK(c)
    BY DEF RInv
  <2>2. LookOK(c)'
    BY <1>1, <2>1 DEF LookOK
  <2> QED
    BY <1>0, <1>2, <2>2 DEF LinkOK
<1>4. \A d \in Linkers : LookOK(d)' /\ LinkOK(d)'
  BY <1>1, <1>3, RestKeeps DEF RInv
<1> QED
  BY <1>0, <1>1, <1>2, <1>4 DEF RInv, LocksOK

LEMMA LookPathKeepsR ==
  ASSUME Sound, RInv, NEW c \in Linkers, N!LookPath(c)
  PROVE  RInv'
<1> DEFINE ps == job[c]
           n == pos[c]
           old == [p \in {ps[i] : i \in 1..n} |-> N!At(root, p)]
           new == [p \in {ps[i] : i \in 1..(n + 1)} |-> N!At(root, p)]
<1>0. IInv' /\ Types /\ doing[c] = "resolve" /\ ~N!Linking(c)
  BY LookPathKeeps DEF Sound, RInv, IInv, N!LookPath, N!Looking, N!Linking
<1>1. /\ UNCHANGED <<root, serial, doing, job, draft, seen>>
      /\ pos' = [pos EXCEPT ![c] = n + 1] /\ n < Len(ps)
  BY DEF N!LookPath
<1>2. ps \in Seq(Path) /\ n \in Nat /\ n + 1 \in 0..Len(ps)
  BY <1>0, <1>1 DEF Types, N!Looking, Sound, InputsAreSound
<1>3. reply[c] = [serial |-> serial, nodes |-> old]
  BY <1>0 DEF RInv, LookOK
<1>4. {ps[i] : i \in 1..(n + 1)} = {ps[i] : i \in 1..n} \union {ps[n + 1]}
  <2>1. 1..(n + 1) = 1..n \union {n + 1}
    BY <1>2
  <2> QED
    BY <2>1
<1>5. new = [q \in DOMAIN old \union {ps[n + 1]} |->
               IF q \in DOMAIN old THEN old[q] ELSE N!At(root, ps[n + 1])]
  BY <1>4
<1>6. reply' = [reply EXCEPT ![c].nodes =
                  [q \in DOMAIN reply[c].nodes \union {ps[n + 1]} |->
                     IF q \in DOMAIN reply[c].nodes THEN reply[c].nodes[q] ELSE N!At(root, ps[n + 1])]]
  BY DEF N!LookPath
<1> HIDE DEF ps, n, old, new
<1>7. reply[c].nodes = old
  BY <1>3
<1>8. reply' = [reply EXCEPT ![c].nodes = new]
  BY <1>5, <1>6, <1>7
<1>9. /\ reply'[c] = [serial |-> serial, nodes |-> new] /\ pos'[c] = n + 1
      /\ \A d \in Linkers : d # c => reply'[d] = reply[d] /\ pos'[d] = pos[d]
  BY <1>0, <1>1, <1>3, <1>8 DEF Types, IsPerCaller
<1>10. LookOK(c)'
  BY <1>1, <1>2, <1>9 DEF LookOK, ps, n, new
<1>11. \A d \in Linkers : N!Linking(d)' <=> N!Linking(d)
  BY <1>1 DEF N!Linking
<1>12. \A d \in Linkers : LookOK(d)' /\ LinkOK(d)'
  BY <1>0, <1>1, <1>9, <1>10, <1>11, RestKeeps DEF RInv, LinkOK
<1> QED
  BY <1>0, <1>1, <1>11, <1>12 DEF RInv, LocksOK

LEMMA LookReturnsKeepsR ==
  ASSUME RInv, NEW c \in Linkers, N!LookReturns(c)
  PROVE  RInv'
<1>0. IInv' /\ Types /\ N!Ends(c) /\ root' = root /\ serial' = serial
  BY LookReturnsKeeps DEF RInv, IInv, N!LookReturns
<1>1. \A d \in Linkers : d # c => seen'[d] = seen[d]
  BY <1>0 DEF Types, IsPerCaller, N!LookReturns
<1>2. doing'[c] = "idle" /\ \A d \in Linkers : d # c => doing'[d] = doing[d]
  BY <1>0, EndsKeeps
<1>3. \A d \in Linkers : LookOK(d)' /\ LinkOK(d)'
  BY <1>0, <1>1, <1>2, EndsKeeps, RestKeeps DEF RInv, LookOK, LinkOK, N!Linking
<1> QED
  BY <1>0, <1>2, <1>3 DEF RInv, LocksOK, N!Linking

LEMMA LinkBeginKeepsR ==
  ASSUME Sound, RInv, NEW c \in Linkers, NEW b \in Batches, N!LinkBegin(c, b)
  PROVE  RInv'
<1>0. IInv' /\ Types
  BY LinkBeginKeeps DEF RInv, IInv
<1>1. /\ UNCHANGED <<root, serial, reply, seen>>
      /\ doing'[c] = "link" /\ job'[c] = b /\ pos'[c] = 0 /\ draft'[c] = root
      /\ \A d \in Linkers : d # c =>
           /\ doing'[d] = doing[d] /\ job'[d] = job[d] /\ pos'[d] = pos[d]
           /\ draft'[d] = draft[d] /\ reply'[d] = reply[d] /\ seen'[d] = seen[d]
  BY <1>0 DEF Types, IsPerCaller, N!LinkBegin
<1>2. \A d \in Linkers : doing'[d] # "resolve" /\ doing'[d] # "look"
  BY <1>0, <1>1 DEF RInv, N!LinkBegin, N!WriteLock
<1>3. LinkOK(c)'
  <2> DEFINE f == [i \in 0..0 |-> root]
  <2>1. Through(f, 0, root, seen[c], b) /\ f[0] = root
    BY DEF Through
  <2> HIDE DEF f
  <2>2. \A r \in N!Entries(b) : r.unchanged => N!At(root, r.path) = N!Seen(c, r.path)
    BY DEF N!LinkBegin, N!Asserted
  <2>3. \A p : N!Seen(c, p)' = N!Seen(c, p)
    BY <1>1 DEF N!Seen
  <2>4. Len(b) \in Nat /\ 0 \in 0..Len(b)
    BY DEF Sound, InputsAreSound
  <2>5. \A r \in N!Entries(job'[c]) : r.unchanged => N!At(root', r.path) = N!Seen(c, r.path)'
    BY <1>1, <2>2, <2>3
  <2>6. \E g : Through(g, pos'[c], root', seen'[c], job'[c]) /\ g[pos'[c]] = draft'[c]
    BY <1>1, <2>1
  <2> QED
    BY <1>1, <2>4, <2>5, <2>6 DEF LinkOK
<1>4. \A d \in Linkers : LookOK(d)' /\ LinkOK(d)'
  BY <1>1, <1>2, <1>3, RestKeeps DEF RInv, LookOK
<1> QED
  BY <1>0, <1>2, <1>4 DEF RInv, LocksOK

LEMMA LinkPathKeepsR ==
  ASSUME Sound, RInv, NEW c \in Linkers, N!LinkPath(c)
  PROVE  RInv'
<1> DEFINE b == job[c]
           n == pos[c]
           r == b[n + 1]
           new == N!Put(draft[c], r.path, N!Value(c, r))
<1>0. IInv' /\ Types /\ N!Linking(c)
  BY LinkPathKeeps DEF RInv, IInv, Sound, N!LinkPath, N!Linking
<1>1. /\ UNCHANGED <<root, serial, doing, job, reply, seen>>
      /\ pos' = [pos EXCEPT ![c] = n + 1] /\ n < Len(b)
      /\ draft' = [draft EXCEPT ![c] = new]
      /\ doing[c] = "link"
  BY DEF N!LinkPath
<1>2. n \in Nat /\ Len(b) \in Nat /\ n + 1 \in 0..Len(b)
  BY <1>0, <1>1 DEF Types, Sound, InputsAreSound
<1>3. PICK f : Through(f, n, root, seen[c], b) /\ f[n] = draft[c]
  BY <1>0 DEF RInv, LinkOK
<1> HIDE DEF new
<1>4. /\ pos'[c] = n + 1 /\ draft'[c] = new
      /\ \A d \in Linkers : d # c => pos'[d] = pos[d] /\ draft'[d] = draft[d]
  BY <1>0, <1>1 DEF Types, IsPerCaller
<1> DEFINE g == [i \in 0..(n + 1) |-> IF i <= n THEN f[i] ELSE new]
<1>5. Through(g, n + 1, root, seen[c], b) /\ g[n + 1] = new
  <2>1. g[n + 1] = new /\ g[0] = root /\ g = [i \in 0..(n + 1) |-> g[i]]
    BY <1>2, <1>3 DEF Through
  <2>2. ASSUME NEW i \in 1..(n + 1)
        PROVE  g[i] = N!Put(g[i - 1], b[i].path, N!Atomic!Value(seen[c], b[i]))
    <3>1. CASE i <= n
      <4>1. i \in 1..n /\ g[i] = f[i] /\ g[i - 1] = f[i - 1]
        BY <1>2, <3>1
      <4> QED
        BY <1>3, <4>1 DEF Through
    <3>2. CASE i = n + 1
      <4>1. g[i - 1] = draft[c] /\ g[i] = new
        BY <1>2, <1>3, <2>1, <3>2
      <4> QED
        BY <3>2, <4>1, SameValue DEF new
    <3> QED
      BY <1>2, <3>1, <3>2
  <2> HIDE DEF g
  <2> QED
    BY <2>1, <2>2 DEF Through
<1> HIDE DEF g
<1>6. LinkOK(c)'
  <2>1. \A p : N!Seen(c, p)' = N!Seen(c, p)
    BY <1>1 DEF N!Seen
  <2>2. \A q \in N!Entries(job'[c]) : q.unchanged => N!At(root', q.path) = N!Seen(c, q.path)'
    <3>1. \A q \in N!Entries(job[c]) : q.unchanged => N!At(root, q.path) = N!Seen(c, q.path)
      BY <1>0 DEF RInv, LinkOK
    <3> QED
      BY <1>1, <2>1, <3>1
  <2>3. Through(g, pos'[c], root', seen'[c], job'[c]) /\ g[pos'[c]] = draft'[c]
    BY <1>1, <1>4, <1>5
  <2> QED
    BY <1>1, <1>2, <1>4, <2>2, <2>3 DEF LinkOK
<1>7. \A d \in Linkers : N!Linking(d)' <=> N!Linking(d)
  BY <1>1 DEF N!Linking
<1>8. LookOK(c)'
  BY <1>1 DEF LookOK
<1>9. \A d \in Linkers : LookOK(d)' /\ LinkOK(d)'
  BY <1>1, <1>4, <1>6, <1>8, RestKeeps DEF RInv
<1> QED
  BY <1>0, <1>1, <1>7, <1>9 DEF RInv, LocksOK

LEMMA LinkAnswerKeepsR ==
  ASSUME Sound, RInv, NEW c \in Linkers, N!LinkAnswer(c)
  PROVE  RInv'
<1> DEFINE new == [serial |-> serial + 1,
                   nodes |-> [p \in {r.path : r \in N!Entries(job[c])} |-> N!At(draft[c], p)]]
<1>0. IInv' /\ Types /\ N!Linking(c)
  BY LinkAnswerKeeps DEF RInv, IInv, Sound, N!LinkAnswer, N!Linking
<1>1. /\ UNCHANGED <<root, serial, job, pos, draft, seen>>
      /\ doing' = [doing EXCEPT ![c] = "commit"] /\ pos[c] = Len(job[c])
      /\ reply' = [reply EXCEPT ![c] = new]
  BY DEF N!LinkAnswer, N!Described
<1> HIDE DEF new
<1>2. /\ doing'[c] = "commit" /\ reply'[c] = new
      /\ \A d \in Linkers : d # c => doing'[d] = doing[d] /\ reply'[d] = reply[d]
  BY <1>0, <1>1 DEF Types, IsPerCaller
<1>3. LinkOK(c)'
  <2>1. LinkOK(c)
    BY DEF RInv
  <2>2. \A p : N!Seen(c, p)' = N!Seen(c, p)
    BY <1>1 DEF N!Seen
  <2>3. reply'[c] = [serial |-> serial' + 1,
                     nodes |-> [p \in {r.path : r \in N!Entries(job'[c])} |-> N!At(draft'[c], p)]]
    BY <1>1, <1>2 DEF new
  <2>4. /\ \A r \in N!Entries(job'[c]) : r.unchanged => N!At(root', r.path) = N!Seen(c, r.path)'
        /\ \E f : Through(f, pos'[c], root', seen'[c], job'[c]) /\ f[pos'[c]] = draft'[c]
        /\ pos'[c] \in 0..Len(job'[c])
    BY <1>0, <1>1, <2>1, <2>2 DEF LinkOK
  <2> QED
    BY <1>1, <2>3, <2>4 DEF LinkOK
<1>4. LookOK(c)'
  BY <1>2 DEF LookOK
<1>5. \A d \in Linkers : LookOK(d)' /\ LinkOK(d)'
  BY <1>1, <1>2, <1>3, <1>4, RestKeeps DEF RInv
<1>6. \A d \in Linkers : N!Linking(d)' <=> N!Linking(d)
  BY <1>0, <1>2 DEF N!Linking
<1> QED
  BY <1>0, <1>2, <1>5, <1>6 DEF RInv, LocksOK

LEMMA LinkCommitKeepsR ==
  ASSUME RInv, NEW c \in Linkers, N!LinkCommit(c)
  PROVE  RInv'
<1>0. IInv' /\ Types /\ LockOK /\ N!Ends(c) /\ N!Linking(c)
  BY LinkCommitKeeps DEF RInv, IInv, N!LinkCommit, N!Linking
<1>1. \A d \in Linkers : ~N!Linking(d)'
  BY <1>0, EndsAlone
<1>2. \A d \in Linkers : doing'[d] \notin {"resolve", "look"}
  BY <1>0, EndsKeeps DEF RInv, LocksOK
<1> QED
  BY <1>0, <1>1, <1>2 DEF RInv, LocksOK, LookOK, LinkOK

LEMMA FailsKeepsR ==
  ASSUME RInv, NEW c \in Linkers, N!Fails(c)
  PROVE  RInv'
<1>0. IInv' /\ Types /\ N!Ends(c) /\ UNCHANGED <<root, serial, seen>>
  BY FailsKeeps DEF RInv, IInv, N!Fails
<1>1. doing'[c] = "idle" /\ \A d \in Linkers : d # c => doing'[d] = doing[d]
  BY <1>0, EndsKeeps
<1>2. \A d \in Linkers : LookOK(d)' /\ LinkOK(d)'
  BY <1>0, <1>1, EndsKeeps, RestKeeps DEF RInv, LookOK, LinkOK, N!Linking
<1> QED
  BY <1>0, <1>1, <1>2 DEF RInv, LocksOK, N!Linking

LEMMA StepKeepsR == Sound /\ RInv /\ [N!Next]_(N!vars) => RInv'
<1> SUFFICES ASSUME Sound, RInv, [N!Next]_(N!vars) PROVE RInv'
  OBVIOUS
<1>1. CASE UNCHANGED N!vars
  <2>1. IInv'
    BY <1>1, StepKeeps DEF RInv, Sound
  <2>2. \A d \in Linkers : LookOK(d)' /\ LinkOK(d)'
    BY <1>1, RestKeeps DEF RInv, N!vars, N!caller
  <2> QED
    BY <1>1, <2>1, <2>2 DEF RInv, LocksOK, N!Linking, N!vars, N!caller
<1>2. CASE N!Next
  <2>1. PICK c \in Linkers :
          \/ \E ps \in Lookups, kind \in {"look", "resolve"} : N!LookBegin(c, ps, kind)
          \/ N!LookRoot(c) \/ N!LookPath(c) \/ N!LookReturns(c)
          \/ \E b \in Batches : N!LinkBegin(c, b)
          \/ N!LinkPath(c) \/ N!LinkAnswer(c) \/ N!LinkCommit(c) \/ N!Fails(c)
    BY <1>2 DEF N!Next
  <2>2. CASE \E ps \in Lookups, kind \in {"look", "resolve"} : N!LookBegin(c, ps, kind)
    BY <2>2, LookBeginKeepsR
  <2>3. CASE N!LookRoot(c)
    BY <2>3, LookRootKeepsR
  <2>4. CASE N!LookPath(c)
    BY <2>4, LookPathKeepsR
  <2>5. CASE N!LookReturns(c)
    BY <2>5, LookReturnsKeepsR
  <2>6. CASE \E b \in Batches : N!LinkBegin(c, b)
    BY <2>6, LinkBeginKeepsR
  <2>7. CASE N!LinkPath(c)
    BY <2>7, LinkPathKeepsR
  <2>8. CASE N!LinkAnswer(c)
    BY <2>8, LinkAnswerKeepsR
  <2>9. CASE N!LinkCommit(c)
    BY <2>9, LinkCommitKeepsR
  <2>10. CASE N!Fails(c)
    BY <2>10, FailsKeepsR
  <2> QED
    BY <2>1, <2>2, <2>3, <2>4, <2>5, <2>6, <2>7, <2>8, <2>9, <2>10
<1> QED
  BY <1>1, <1>2

LEMMA InitiallyR == N!Init => RInv
<1> SUFFICES ASSUME N!Init PROVE RInv
  OBVIOUS
<1>1. \A c \in Linkers : doing[c] = "idle"
  BY DEF N!Init
<1> QED
  BY <1>1, Initially DEF RInv, LocksOK, LookOK, LinkOK, N!Linking

(* The end of a lookup is a lookup of one version.                         *)
LEMMA LookReturnsIsLookup ==
  ASSUME Sound, RInv, NEW c \in Linkers, N!LookReturns(c)
  PROVE  \E ps \in Lookups : N!Atomic!Lookup(c, ps)
<1> DEFINE ps == job[c]
<1>1. /\ doing[c] = "resolve" /\ ps \in Lookups /\ pos[c] = Len(ps)
      /\ UNCHANGED <<root, serial>> /\ seen' = [seen EXCEPT ![c] = reply[c]]
  BY DEF RInv, IInv, Types, N!LookReturns, N!Looking
<1>2. reply[c] = [serial |-> serial, nodes |-> [p \in {ps[i] : i \in 1..Len(ps)} |-> N!At(root, p)]]
  BY <1>1 DEF RInv, LookOK
<1> HIDE DEF ps
<1>3. reply[c] = N!Atomic!Answer(root, serial, N!Atomic!Entries(ps))
  BY <1>2, SameTrees DEF N!Atomic!Answer, N!Atomic!Entries
<1>4. N!Atomic!Lookup(c, ps)
  BY <1>1, <1>3 DEF N!Atomic!Lookup
<1> QED
  BY <1>1, <1>4

(* The commit of a MultiLink is the link of its whole batch.               *)
LEMMA LinkCommitIsLink ==
  ASSUME Sound, RInv, NEW c \in Linkers, N!LinkCommit(c)
  PROVE  \E b \in Batches : N!Atomic!Link(c, b)
<1> DEFINE b == job[c]
           new == N!Atomic!Applied(root, seen[c], b)
<1>1. /\ N!Linking(c) /\ doing[c] = "commit" /\ b \in Batches
      /\ root' = draft[c] /\ serial' = serial + 1 /\ seen' = [seen EXCEPT ![c] = reply[c]]
  BY DEF RInv, IInv, Types, N!LinkCommit, N!Linking
<1>2. /\ \A r \in N!Entries(b) : r.unchanged => N!At(root, r.path) = N!Seen(c, r.path)
      /\ pos[c] = Len(b)
      /\ reply[c] = [serial |-> serial + 1,
                     nodes |-> [p \in {r.path : r \in N!Entries(b)} |-> N!At(draft[c], p)]]
  BY <1>1 DEF RInv, LinkOK
<1>3. PICK f : Through(f, Len(b), root, seen[c], b) /\ f[Len(b)] = draft[c]
  BY <1>1, <1>2 DEF RInv, LinkOK
<1> HIDE DEF b, new
<1>4. new = draft[c]
  <2>1. Len(b) \in Nat
    BY <1>1 DEF Sound, InputsAreSound
  <2> QED
    BY <1>3, <2>1, AppliedIs DEF new
<1>5. N!Atomic!Entries(b) = N!Entries(b)
  BY DEF N!Atomic!Entries, N!Entries
<1>6. \A r \in N!Entries(b) : N!Atomic!Holds(root, seen[c], r)
  BY <1>2, SameTrees DEF N!Atomic!Holds, N!Atomic!Seen, N!Seen, N!Atomic!Missing, N!Missing
<1>7. reply[c] = N!Atomic!Answer(new, serial + 1, {r.path : r \in N!Atomic!Entries(b)})
  BY <1>2, <1>4, <1>5, SameTrees DEF N!Atomic!Answer
<1>8. N!Atomic!Link(c, b)
  BY <1>1, <1>4, <1>5, <1>6, <1>7 DEF N!Atomic!Link, new
<1> QED
  BY <1>1, <1>8

(* MultiLink and Lookup under the lock implement the abstract tree: each   *)
(* lookup of many paths reads one version, each link of many requests      *)
(* happens in one step, on a tree that is as it asserts, or not at all.    *)
THEOREM LinksAndLookupsAreAtomic == Sound => (N!Spec => ImplementsAtomicTree)
<1> SUFFICES ASSUME Sound PROVE N!Spec => ImplementsAtomicTree
  OBVIOUS
<1>1. N!Init => N!Atomic!Init
  BY DEF N!Init, N!Atomic!Init, N!EmptyTree, N!NoAnswer, N!Atomic!NoAnswer
<1>2. RInv /\ [N!Next]_(N!vars) => [N!Atomic!Next]_(N!Atomic!vars)
  <2> SUFFICES ASSUME RInv, [N!Next]_(N!vars), ~UNCHANGED <<root, serial, seen>> PROVE N!Atomic!Next
    BY DEF N!Atomic!vars
  <2>1. PICK c \in Linkers : N!LookReturns(c) \/ N!LinkCommit(c)
    BY DEF N!Next, N!LookBegin, N!LookRoot, N!LookPath, N!LinkBegin, N!LinkPath, N!LinkAnswer, N!Fails, N!vars, N!caller
  <2> QED
    BY <2>1, LookReturnsIsLookup, LinkCommitIsLink DEF N!Atomic!Next, N!Atomic!Link
<1>3. RInv /\ [N!Next]_(N!vars) => RInv'
  BY StepKeepsR
<1> QED
  BY <1>1, <1>2, <1>3, InitiallyR, PTL DEF N!Spec, ImplementsAtomicTree, N!ImplementsAtomicTree, N!Atomic!Spec
-----------------------------------------------------------------------------
(* resolvePath of a volume whose tree is another server's.                 *)
(* The root is the one of its number, and so is that of every answer.      *)
RemoteOK ==
  /\ remote \in Nat /\ serialNumber \in Nat /\ rootAddr = serialNumber
  /\ lookup = [l \in RemoteLookups |-> lookup[l]]
  /\ \A l \in RemoteLookups :
       /\ lookup[l] = [stage |-> lookup[l].stage, answer |-> lookup[l].answer]
       /\ lookup[l].stage \in {"lock", "update"} => lookup[l].answer \in Nat

LEMMA RemoteStep == RemoteOK /\ [R!Next]_(R!remoteVars) => RemoteOK'
<1> SUFFICES ASSUME RemoteOK, [R!Next]_(R!remoteVars) PROVE RemoteOK'
  OBVIOUS
<1>1. CASE UNCHANGED R!remoteVars
  BY <1>1 DEF RemoteOK, R!remoteVars
<1>2. CASE R!RemoteChanges \/ R!CacheDurationOver
  BY <1>2 DEF RemoteOK, R!RemoteChanges, R!CacheDurationOver
<1>3. ASSUME NEW l \in RemoteLookups, R!Start(l) \/ R!Resolve(l) \/ R!Lock(l)
      PROVE  RemoteOK'
  <2>1. UNCHANGED <<remote, serialNumber, rootAddr>>
    BY <1>3 DEF R!Start, R!Resolve, R!Lock
  <2>2. PICK s \in {"resolve", "done", "fetch", "update"} :
          /\ lookup' = [lookup EXCEPT ![l].stage = s]
          /\ s = "update" => lookup[l].stage = "lock"
    BY <1>3 DEF R!Start, R!Resolve, R!Lock, R!To
  <2> QED
    BY <2>1, <2>2 DEF RemoteOK
<1>4. ASSUME NEW l \in RemoteLookups, R!FetchPath(l) PROVE RemoteOK'
  <2>1. UNCHANGED <<remote, serialNumber, rootAddr>>
    BY <1>4 DEF R!FetchPath
  <2>2. \/ lookup' = [lookup EXCEPT ![l] = [stage |-> "lock", answer |-> remote]]
        \/ lookup' = [lookup EXCEPT ![l].stage = "done"]
    BY <1>4 DEF R!FetchPath, R!To
  <2> QED
    BY <2>1, <2>2 DEF RemoteOK
<1>5. ASSUME NEW l \in RemoteLookups, R!Update(l) PROVE RemoteOK'
  <2>1. lookup' = [lookup EXCEPT ![l].stage = "done"] /\ remote' = remote /\ lookup[l].answer \in Nat
    BY <1>5 DEF RemoteOK, R!Update, R!To
  <2>2. serialNumber' \in Nat /\ rootAddr' = serialNumber'
    BY <1>5, <2>1 DEF RemoteOK, R!Update, R!Install
  <2> QED
    BY <2>1, <2>2 DEF RemoteOK
<1>6. ASSUME NEW l \in RemoteLookups, R!Return(l) PROVE RemoteOK'
  BY <1>6 DEF RemoteOK, R!Return, R!NewLookup
<1> QED
  BY <1>1, <1>2, <1>3, <1>4, <1>5, <1>6 DEF R!Next, R!GoesOn

(* resolveFromFetchers: whatever answers overtake each other, the tree of  *)
(* a remote volume never goes back to an older root, and has the root of   *)
(* its serial number.                                                      *)
THEOREM RemoteRootIsNewest == R!Spec => RootNeverGoesBack
<1> DEFINE Forward == serialNumber' >= serialNumber /\ rootAddr' = serialNumber'
<1>1. R!Init => RemoteOK
  BY DEF R!Init, R!NewLookup, RemoteOK
<1>2. RemoteOK /\ RemoteOK' /\ [R!Next]_(R!remoteVars) => [Forward]_<<rootAddr, serialNumber>>
  <2> SUFFICES ASSUME RemoteOK, RemoteOK', [R!Next]_(R!remoteVars),
                      ~UNCHANGED <<rootAddr, serialNumber>>
               PROVE  serialNumber' >= serialNumber
    BY DEF RemoteOK
  <2>1. PICK l \in RemoteLookups : R!Update(l)
    BY DEF R!Next, R!GoesOn, R!remoteVars, R!RemoteChanges, R!CacheDurationOver,
           R!Start, R!Resolve, R!FetchPath, R!Lock, R!Return
  <2>2. lookup[l].answer \in Nat
    BY <2>1 DEF RemoteOK, R!Update
  <2> QED
    BY <2>1, <2>2 DEF RemoteOK, R!Update, R!Install
<1> QED
  BY <1>1, <1>2, RemoteStep, PTL DEF R!Spec, RootNeverGoesBack, R!RootNeverGoesBack
-----------------------------------------------------------------------------
(* A volume that is mounted.                                               *)
FilesAreNamed == NoNode \notin Node /\ F!NoName \notin Name

Names == Name \union {F!NoName}
Files ==
  [path : Names, refCount : Nat, tmpFile : SUBSET Nat, tmpMetadata : BOOLEAN, cachedFile : BOOLEAN]

(* The requests, by what they wait for.                                    *)
RequestOK(r) ==
  /\ r = [kind |-> r.kind, stage |-> r.stage, node |-> r.node, name |-> r.name, to |-> r.to,
          listed |-> r.listed]
  /\ \/ r.stage = "add" /\ r.kind \in {"write", "setattr"} /\ r.node \in Node
     \/ r.stage = "flush" /\ r.kind \in {"write", "setattr", "flush", "release"} /\ r.node \in Node
     \/ r.stage = "remove" /\ r.kind \in {"setattr", "flush", "release"} /\ r.node \in Node
     \/ r.stage = "node" /\ r.kind = "lookup" /\ r.node \in Node /\ r.name \in Name
     \/ /\ r.stage = "node" /\ r.kind = "rename" /\ r.node \in Node
        /\ r.name \in Name /\ r.to \in Name /\ r.name # r.to
     \/ /\ r.stage = "moved" /\ r.kind = "rename" /\ r.node = NoNode
        /\ r.name \in Name /\ r.to \in Name /\ r.name # r.to
     \/ r.stage = "unlinked" /\ r.kind = "unlink" /\ r.node = NoNode /\ r.name \in Name
     \/ r.stage = "list" /\ r.kind = "readdir" /\ r.node = NoNode

FileTypes ==
  /\ inode \in [Node -> Files]
  /\ child \in [Name -> Node \union {NoNode}]
  /\ dirtyNodesMap \in [Name -> Node \union {NoNode}]
  /\ edits \in Nat /\ unsaved \in [Node -> SUBSET Nat]
  /\ displaced \subseteq Node /\ clobbered \in BOOLEAN
  /\ IsFiniteSet(requests)
  /\ \A r \in requests : RequestOK(r)

(* One request has the mutex of a node, one that of the map, one the       *)
(* directory.                                                              *)
KeepersOf(n) == {r \in requests : F!KeepsNode(r) /\ r.node = n}
OneKeeper == \A n : \A r, s \in KeepersOf(n) : r = s
OneOfMap == \A r, s \in requests : F!KeepsMap(r) /\ F!KeepsMap(s) => r = s
OneOfDir == \A r, s \in requests : r.kind \in {"unlink", "rename"} /\ s.kind \in {"unlink", "rename"} => r = s

(* The nodes that somebody knows have a path.                              *)
Named == {n \in Node : inode[n].path # F!NoName}
KnownOK ==
  /\ \A x \in Name : child[x] \in Named \union {NoNode} /\ dirtyNodesMap[x] \in Named \union {NoNode}
  /\ \A r \in requests : r.node \in Named \union {NoNode}

(* What is not saved is in the temporary file; a node with one is open, or *)
(* a request on it is not over.                                            *)
SavedAt(n) ==
  /\ unsaved[n] # {} => inode[n].tmpFile # F!NoFile /\ unsaved[n] \subseteq inode[n].tmpFile
  /\ inode[n].tmpFile # F!NoFile => inode[n].refCount > 0 \/ \E r \in KeepersOf(n) : r.kind = "setattr"
  /\ \A r \in KeepersOf(n) : /\ r.kind # "setattr" => inode[n].refCount > 0
                             /\ r.kind = "write" => inode[n].tmpFile # F!NoFile
                             /\ r.stage = "remove" => inode[n].tmpFile = F!NoFile
  /\ inode[n].refCount > 0 => n \in Named
SavedOK == \A n \in Node : SavedAt(n)

FilesOK == FileTypes /\ OneKeeper /\ OneOfMap /\ OneOfDir /\ KnownOK /\ SavedOK

(* What the methods make of the fields of a node.                          *)
LEMMA FieldsAre ==
  ASSUME NEW f \in Files
  PROVE  /\ F!Opened(f) \in Files /\ F!Opened(f).path = f.path
         /\ F!Opened(f).refCount = f.refCount /\ F!Opened(f).tmpFile = f.tmpFile
         /\ \A t \in BOOLEAN : /\ F!Editable(f, t) \in Files /\ F!Editable(f, t).path = f.path
                               /\ F!Editable(f, t).refCount = f.refCount
                               /\ F!Editable(f, t).tmpFile # F!NoFile
         /\ f.tmpFile # F!NoFile => F!Editable(f, FALSE).tmpFile = f.tmpFile
         /\ F!Saved(f) \in Files /\ F!Saved(f).path = f.path
         /\ F!Saved(f).refCount = f.refCount /\ F!Saved(f).tmpFile = F!NoFile
         /\ F!NotSaved(f) \in Files /\ F!NotSaved(f).path = f.path
         /\ F!NotSaved(f).refCount = f.refCount /\ F!NotSaved(f).tmpFile = F!NoFile
<1>1. F!Opened(f) \in Files /\ F!Opened(f).path = f.path
      /\ F!Opened(f).refCount = f.refCount /\ F!Opened(f).tmpFile = f.tmpFile
  BY DEF F!Opened, Files
<1>2. F!NoFile \in SUBSET Nat /\ {} # F!NoFile
  BY DEF F!NoFile
<1>3. ASSUME NEW t \in BOOLEAN
      PROVE  /\ F!Editable(f, t) \in Files /\ F!Editable(f, t).path = f.path
             /\ F!Editable(f, t).refCount = f.refCount /\ F!Editable(f, t).tmpFile # F!NoFile
  BY <1>2 DEF F!Editable, Files
<1>4. f.tmpFile # F!NoFile => F!Editable(f, FALSE).tmpFile = f.tmpFile
  BY DEF F!Editable
<1>5. F!Saved(f) \in Files /\ F!Saved(f).path = f.path
      /\ F!Saved(f).refCount = f.refCount /\ F!Saved(f).tmpFile = F!NoFile
  BY <1>2 DEF F!Saved, Files
<1>6. F!NotSaved(f) \in Files /\ F!NotSaved(f).path = f.path
      /\ F!NotSaved(f).refCount = f.refCount /\ F!NotSaved(f).tmpFile = F!NoFile
  BY <1>2 DEF F!NotSaved, Files
<1> QED
  BY <1>1, <1>3, <1>4, <1>5, <1>6

LEMMA ClosedIs ==
  ASSUME NEW f \in Files, f.refCount > 0
  PROVE  /\ F!Closed(f) \in Files /\ F!Closed(f).path = f.path
         /\ F!Closed(f).tmpFile \in {f.tmpFile, F!NoFile}
         /\ F!Closed(f).refCount = 0 => F!Closed(f).tmpFile = F!NoFile
<1>1. F!NoFile \in SUBSET Nat /\ f.refCount \in Nat
  BY DEF F!NoFile, Files
<1>2. CASE f.refCount = 1
  BY <1>1, <1>2 DEF F!Closed, Files
<1>3. CASE f.refCount # 1
  <2>1. F!Closed(f) = [f EXCEPT !.refCount = @ - 1] /\ f.refCount - 1 \in Nat /\ f.refCount - 1 # 0
    BY <1>1, <1>3 DEF F!Closed
  <2> QED
    BY <1>1, <2>1 DEF Files
<1> QED
  BY <1>2, <1>3

(* What has a handle is open.                                              *)
LEMMA HandleIsOpen ==
  ASSUME FileTypes, NEW n \in Node, F!HasHandle(n)
  PROVE  inode[n].refCount > 0
<1> DEFINE S == {r \in F!At(n) : r.kind = "release"}
<1>1. S \subseteq requests /\ IsFiniteSet(requests)
  BY DEF FileTypes, F!At
<1>2. Cardinality(S) \in Nat
  BY <1>1, FS_Subset, FS_CardinalityType
<1>3. inode[n].refCount > Cardinality(S) /\ inode[n].refCount \in Nat
  BY DEF F!HasHandle, FileTypes, Files, Cardinality, F!Cardinality
<1> QED
  BY <1>2, <1>3

LEMMA NodeFreeIs == ASSUME NEW n, F!NodeFree(n) PROVE KeepersOf(n) = {}
BY DEF F!NodeFree, F!At, KeepersOf

(* A request that goes on is the same one at another stage.                *)
LEMMA NextStage ==
  ASSUME NEW r, RequestOK(r), NEW s
  PROVE  LET now == [r EXCEPT !.stage = s] IN
         /\ now = [kind |-> r.kind, stage |-> s, node |-> r.node, name |-> r.name, to |-> r.to,
                   listed |-> r.listed]
         /\ now.kind = r.kind /\ now.stage = s /\ now.node = r.node /\ now.name = r.name /\ now.to = r.to
         /\ now.listed = r.listed
<1> DEFINE now == [r EXCEPT !.stage = s]
<1>1. r = [kind |-> r.kind, stage |-> r.stage, node |-> r.node, name |-> r.name, to |-> r.to,
           listed |-> r.listed]
  BY DEF RequestOK
<1>2. now = [kind |-> r.kind, stage |-> s, node |-> r.node, name |-> r.name, to |-> r.to,
             listed |-> r.listed]
  BY <1>1
<1> QED
  BY <1>2

IsDirRequest(r) == r.kind \in {"unlink", "rename"}

(* The requests in Gone go and the one in T comes.                         *)
Comes(Gone, T) ==
  /\ requests' = (requests \ Gone) \union T
  /\ IsFiniteSet(T) /\ \A s, t \in T : s = t
  /\ \A t \in T : /\ RequestOK(t) /\ t.node \in Named' \union {NoNode}
                  /\ F!KeepsNode(t) => KeepersOf(t.node) \subseteq Gone
                  /\ F!KeepsMap(t) => \A r \in requests \ Gone : ~F!KeepsMap(r)
                  /\ IsDirRequest(t) => \A r \in requests \ Gone : ~IsDirRequest(r)

LEMMA RequestsKeep ==
  ASSUME FileTypes, OneKeeper, OneOfMap, OneOfDir, NEW Gone, NEW T, Comes(Gone, T)
  PROVE  /\ IsFiniteSet(requests') /\ \A r \in requests' : RequestOK(r)
         /\ OneKeeper' /\ OneOfMap' /\ OneOfDir'
         /\ \A m : KeepersOf(m)' = (KeepersOf(m) \ Gone) \union {t \in T : F!KeepsNode(t) /\ t.node = m}
<1>1. requests' = (requests \ Gone) \union T
  BY DEF Comes
<1>2. IsFiniteSet(requests')
  <2>1. IsFiniteSet(requests \ Gone)
    BY FS_Difference, FS_Subset DEF FileTypes
  <2> QED
    BY <1>1, <2>1, FS_Union DEF Comes
<1>3. \A r \in requests' : RequestOK(r)
  BY <1>1 DEF Comes, FileTypes
<1>4. ASSUME NEW m
      PROVE  KeepersOf(m)' = (KeepersOf(m) \ Gone) \union {t \in T : F!KeepsNode(t) /\ t.node = m}
  BY <1>1 DEF KeepersOf, F!KeepsNode
<1>5. ASSUME NEW m, NEW r \in KeepersOf(m)', NEW s \in KeepersOf(m)' PROVE r = s
  <2>1. CASE r \in T /\ s \in T
    BY <2>1 DEF Comes
  <2>2. CASE r \notin T /\ s \notin T
    BY <1>4, <1>5, <2>2 DEF OneKeeper
  <2>3. ASSUME NEW t \in T, NEW u \in KeepersOf(m) \ Gone, F!KeepsNode(t), t.node = m
        PROVE  FALSE
    BY <2>3 DEF Comes
  <2>4. \A q \in KeepersOf(m)' : F!KeepsNode(q) /\ q.node = m /\ (q \in T \/ q \in KeepersOf(m) \ Gone)
    BY <1>4 DEF KeepersOf
  <2> QED
    BY <2>1, <2>2, <2>3, <2>4
<1>6. OneKeeper'
  BY <1>5 DEF OneKeeper
<1>7. OneOfMap'
  BY <1>1 DEF OneOfMap, Comes, F!KeepsMap
<1>8. OneOfDir'
  BY <1>1 DEF OneOfDir, Comes, IsDirRequest
<1> QED
  BY <1>2, <1>3, <1>4, <1>6, <1>7, <1>8

LEMMA SavedSame ==
  ASSUME NEW m \in Node, SavedAt(m), inode'[m].tmpFile = inode[m].tmpFile,
         inode'[m].refCount = inode[m].refCount, unsaved'[m] = unsaved[m],
         KeepersOf(m)' = KeepersOf(m), m \in Named => m \in Named'
  PROVE  SavedAt(m)'
BY DEF SavedAt

(* Only the nodes in Z change, and requests on them.                       *)
Touches(Gone, T, Z) ==
  /\ \A r \in T \union (Gone \intersect requests) : F!KeepsNode(r) => r.node \in Z
  /\ \A m \in Node \ Z : /\ inode'[m].tmpFile = inode[m].tmpFile
                         /\ inode'[m].refCount = inode[m].refCount
                         /\ unsaved'[m] = unsaved[m]
  /\ \A m \in Z \intersect Node : SavedAt(m)'

(* The names lead to nodes with a path.                                    *)
Leads(map) == map \in [Name -> Node \union {NoNode}] /\ \A x \in Name : map[x] \in Named \union {NoNode}

LEMMA FilesKeep ==
  ASSUME FilesOK, NEW Gone, NEW T, NEW Z, Comes(Gone, T), Touches(Gone, T, Z),
         inode' \in [Node -> Files], unsaved' \in [Node -> SUBSET Nat],
         Named \subseteq Named', Leads(child)', Leads(dirtyNodesMap)',
         edits' \in Nat, displaced' \subseteq Node, clobbered' \in BOOLEAN
  PROVE  FilesOK'
<1>1. /\ IsFiniteSet(requests') /\ \A r \in requests' : RequestOK(r)
      /\ OneKeeper' /\ OneOfMap' /\ OneOfDir'
      /\ \A m : KeepersOf(m)' = (KeepersOf(m) \ Gone) \union {t \in T : F!KeepsNode(t) /\ t.node = m}
  BY RequestsKeep DEF FilesOK
<1>2. FileTypes'
  BY <1>1 DEF FileTypes, Leads
<1>3. KnownOK'
  <2>1. \A r \in requests' : r.node \in Named' \union {NoNode}
    BY DEF Comes, FilesOK, KnownOK
  <2> QED
    BY <2>1 DEF KnownOK, Leads
<1>4. ASSUME NEW m \in Node PROVE SavedAt(m)'
  <2>1. CASE m \in Z
    BY <2>1 DEF Touches
  <2>2. CASE m \notin Z
    <3>1. \A r \in KeepersOf(m) : r \notin Gone
      BY <2>2 DEF KeepersOf, Touches
    <3>2. {t \in T : F!KeepsNode(t) /\ t.node = m} = {}
      BY <2>2 DEF Touches
    <3>3. KeepersOf(m)' = KeepersOf(m)
      BY <1>1, <3>1, <3>2
    <3>4. SavedAt(m)
      BY DEF FilesOK, SavedOK
    <3> QED
      BY <2>2, <3>3, <3>4, SavedSame DEF Touches
  <2> QED
    BY <2>1, <2>2
<1> QED
  BY <1>1, <1>2, <1>3, <1>4 DEF FilesOK, SavedOK

LEMMA SamePaths ==
  ASSUME \A m \in Node : inode'[m].path = inode[m].path
  PROVE  Named' = Named
BY DEF Named

LEMMA NoneComes == ASSUME requests' = requests PROVE Comes({}, {})
BY FS_EmptySet DEF Comes

LEMMA OneGoes ==
  ASSUME NEW r, requests' = requests \ {r}
  PROVE  Comes({r}, {})
BY FS_EmptySet DEF Comes

LEMMA OneComes ==
  ASSUME NEW t, requests' = requests \union {t}, RequestOK(t), t.node \in Named' \union {NoNode},
         F!KeepsNode(t) => KeepersOf(t.node) = {},
         F!KeepsMap(t) => F!MapFree,
         IsDirRequest(t) => \A r \in requests : ~IsDirRequest(r)
  PROVE  Comes({}, {t})
<1>1. IsFiniteSet({t})
  BY FS_Singleton
<1> QED
  BY <1>1 DEF Comes, F!MapFree

LEMMA OneGoesOn ==
  ASSUME FileTypes, OneKeeper, OneOfMap, OneOfDir, NEW r \in requests, NEW t,
         requests' = (requests \ {r}) \union {t}, RequestOK(t), t.node \in Named' \union {NoNode},
         F!KeepsNode(t) => F!KeepsNode(r) /\ t.node = r.node,
         F!KeepsMap(t) => F!KeepsMap(r),
         IsDirRequest(t) => IsDirRequest(r)
  PROVE  Comes({r}, {t})
<1>1. IsFiniteSet({t})
  BY FS_Singleton
<1>2. F!KeepsNode(t) => KeepersOf(t.node) \subseteq {r}
  BY DEF KeepersOf, OneKeeper
<1>3. F!KeepsMap(t) => \A s \in requests \ {r} : ~F!KeepsMap(s)
  BY DEF OneOfMap
<1>4. IsDirRequest(t) => \A s \in requests \ {r} : ~IsDirRequest(s)
  BY DEF OneOfDir, IsDirRequest
<1> QED
  BY <1>1, <1>2, <1>3, <1>4 DEF Comes

(* What a change of one node leaves as it was.                             *)
LEMMA OneNode ==
  ASSUME FilesOK, NEW n \in Node, NEW g \in Files, inode' = [inode EXCEPT ![n] = g], g.path = inode[n].path
  PROVE  /\ inode' \in [Node -> Files] /\ inode'[n] = g /\ \A m \in Node \ {n} : inode'[m] = inode[m]
         /\ Named' = Named
<1>1. inode' \in [Node -> Files] /\ inode'[n] = g /\ \A m \in Node \ {n} : inode'[m] = inode[m]
  BY DEF FilesOK, FileTypes
<1> QED
  BY <1>1, SamePaths

LEMMA NodeKeeps ==
  ASSUME FilesOK, NEW Gone, NEW T, Comes(Gone, T), NEW n \in Node, NEW g \in Files,
         inode' = [inode EXCEPT ![n] = g], g.path = inode[n].path,
         \A r \in T \union (Gone \intersect requests) : F!KeepsNode(r) => r.node = n,
         unsaved' \in [Node -> SUBSET Nat], \A m \in Node \ {n} : unsaved'[m] = unsaved[m],
         SavedAt(n)', UNCHANGED <<child, displaced>>, Leads(dirtyNodesMap)',
         edits' \in Nat, clobbered' \in BOOLEAN
  PROVE  FilesOK'
<1>1. /\ inode' \in [Node -> Files] /\ inode'[n] = g /\ \A m \in Node \ {n} : inode'[m] = inode[m]
      /\ Named' = Named
  BY OneNode
<1>2. Touches(Gone, T, {n})
  BY <1>1 DEF Touches
<1>3. Leads(child)' /\ displaced' \subseteq Node /\ Named \subseteq Named'
  BY <1>1 DEF FilesOK, FileTypes, KnownOK, Leads
<1> QED
  BY <1>1, <1>2, <1>3, FilesKeep

LEMMA OpensKeep ==
  ASSUME FilesAreNamed, FilesOK, NEW n \in Node, F!Open(n) \/ F!Read(n)
  PROVE  FilesOK'
<1>1. /\ UNCHANGED <<child, dirtyNodesMap, requests, edits, unsaved, displaced, clobbered>>
      /\ F!Known(n) \/ F!HasHandle(n)
  BY DEF F!Open, F!Read, F!history
<1>2. inode[n] \in Files /\ F!Opened(inode[n]) \in Files
  BY FieldsAre DEF FilesOK, FileTypes
<1>3. PICK g \in Files : /\ inode' = [inode EXCEPT ![n] = g] /\ g.path = inode[n].path
                         /\ g.tmpFile = inode[n].tmpFile /\ g.refCount >= inode[n].refCount
  <2>1. CASE F!Read(n)
    <3> DEFINE h == F!Opened(inode[n])
    <3>1. h \in Files /\ h.path = inode[n].path /\ h.tmpFile = inode[n].tmpFile /\ h.refCount = inode[n].refCount
      BY <1>2, FieldsAre
    <3>2. inode' = [inode EXCEPT ![n] = h]
      BY <2>1 DEF F!Read
    <3> HIDE DEF h
    <3>3. h.refCount >= inode[n].refCount
      BY <3>1 DEF Files
    <3> QED
      BY <3>1, <3>2, <3>3
  <2>2. CASE F!Open(n)
    <3> DEFINE h == IF inode[n].refCount = 0 THEN F!Opened(inode[n]) ELSE inode[n]
               k == [h EXCEPT !.refCount = @ + 1]
    <3>1. h \in Files /\ h.path = inode[n].path /\ h.tmpFile = inode[n].tmpFile /\ h.refCount = inode[n].refCount
      BY <1>2, FieldsAre
    <3>2. inode' = [inode EXCEPT ![n] = k]
      BY <2>2 DEF F!Open
    <3> HIDE DEF h
    <3>3. k \in Files /\ k.path = h.path /\ k.tmpFile = h.tmpFile /\ k.refCount >= h.refCount
      BY <3>1 DEF Files
    <3> QED
      BY <3>1, <3>2, <3>3
  <2> QED
    BY <2>1, <2>2
<1>4. /\ inode'[n] = g /\ Named' = Named
  BY <1>3, OneNode
<1>5. n \in Named
  <2>1. CASE F!Known(n)
    BY <2>1 DEF F!Known, FilesOK, KnownOK, FilesAreNamed
  <2>2. CASE F!HasHandle(n)
    BY <2>2, HandleIsOpen DEF FilesOK, SavedOK, SavedAt
  <2> QED
    BY <1>1, <2>1, <2>2
<1>6. SavedAt(n)'
  <2>1. KeepersOf(n)' = KeepersOf(n) /\ unsaved'[n] = unsaved[n]
    BY <1>1 DEF KeepersOf
  <2>2. SavedAt(n)
    BY DEF FilesOK, SavedOK
  <2>3. inode[n].refCount \in Nat /\ g.refCount \in Nat
    BY <1>2 DEF Files
  <2> QED
    BY <1>3, <1>4, <1>5, <2>1, <2>2, <2>3 DEF SavedAt
<1>7. Comes({}, {})
  BY <1>1, NoneComes
<1>8. /\ unsaved' \in [Node -> SUBSET Nat] /\ edits' \in Nat /\ clobbered' \in BOOLEAN
      /\ Leads(dirtyNodesMap)'
  BY <1>1, <1>4 DEF FilesOK, FileTypes, KnownOK, Leads
<1>9. \A r \in {} \union ({} \intersect requests) : F!KeepsNode(r) => r.node = n
  OBVIOUS
<1> QED
  BY <1>1, <1>3, <1>6, <1>7, <1>8, <1>9, NodeKeeps

LEMMA KnownIsNamed ==
  ASSUME FilesAreNamed, FilesOK, NEW n \in Node, F!Known(n) \/ F!HasHandle(n)
  PROVE  n \in Named
<1>1. CASE F!Known(n)
  BY <1>1 DEF F!Known, FilesOK, KnownOK, FilesAreNamed
<1>2. CASE F!HasHandle(n)
  BY <1>2, HandleIsOpen DEF FilesOK, SavedOK, SavedAt
<1> QED
  BY <1>1, <1>2

LEMMA RequestIs ==
  ASSUME NEW kind, NEW stage0, NEW n
  PROVE  [F!Request(kind, stage0) EXCEPT !.node = n] =
           [kind |-> kind, stage |-> stage0, node |-> n, name |-> F!NoName, to |-> F!NoName, listed |-> {}]
BY DEF F!Request

LEMMA NamedRequestIs ==
  ASSUME NEW kind, NEW stage0, NEW x
  PROVE  [F!Request(kind, stage0) EXCEPT !.name = x] =
           [kind |-> kind, stage |-> stage0, node |-> NoNode, name |-> x, to |-> F!NoName, listed |-> {}]
BY DEF F!Request

LEMMA LookupIs ==
  ASSUME NEW x, NEW n
  PROVE  [F!Request("lookup", "node") EXCEPT !.name = x, !.node = n] =
           [kind |-> "lookup", stage |-> "node", node |-> n, name |-> x, to |-> F!NoName, listed |-> {}]
<1> DEFINE u == [F!Request("lookup", "node") EXCEPT !.name = x]
<1>1. [F!Request("lookup", "node") EXCEPT !.name = x, !.node = n] = [u EXCEPT !.node = n]
  OBVIOUS
<1>2. u = [kind |-> "lookup", stage |-> "node", node |-> NoNode, name |-> x, to |-> F!NoName, listed |-> {}]
  BY NamedRequestIs
<1> HIDE DEF u
<1>3. [u EXCEPT !.node = n] =
        [kind |-> "lookup", stage |-> "node", node |-> n, name |-> x, to |-> F!NoName, listed |-> {}]
  BY <1>2
<1> QED
  BY <1>1, <1>3, Zenon

LEMMA RenameIs ==
  ASSUME NEW stage0, NEW x, NEW y
  PROVE  [F!Request("rename", stage0) EXCEPT !.name = x, !.to = y] =
           [kind |-> "rename", stage |-> stage0, node |-> NoNode, name |-> x, to |-> y, listed |-> {}]
<1> DEFINE u == [F!Request("rename", stage0) EXCEPT !.name = x]
<1>1. [F!Request("rename", stage0) EXCEPT !.name = x, !.to = y] = [u EXCEPT !.to = y]
  OBVIOUS
<1>2. u = [kind |-> "rename", stage |-> stage0, node |-> NoNode, name |-> x, to |-> F!NoName, listed |-> {}]
  BY NamedRequestIs
<1> HIDE DEF u
<1>3. [u EXCEPT !.to = y] =
        [kind |-> "rename", stage |-> stage0, node |-> NoNode, name |-> x, to |-> y, listed |-> {}]
  BY <1>2
<1> QED
  BY <1>1, <1>3, Zenon

LEMMA BeginsKeep ==
  ASSUME FilesAreNamed, FilesOK, NEW n \in Named, NEW kind \in {"write", "setattr"}, NEW f \in Files,
         f.path = inode[n].path, f.refCount = inode[n].refCount, f.tmpFile # F!NoFile,
         kind = "write" => inode[n].refCount > 0, F!Begins(n, kind, f),
         unsaved' \in [Node -> SUBSET Nat], unsaved'[n] \subseteq f.tmpFile,
         \A m \in Node \ {n} : unsaved'[m] = unsaved[m]
  PROVE  FilesOK'
<1> DEFINE s == IF F!NewlyDirty(inode[n]) THEN "add" ELSE "flush"
           t == [F!Request(kind, s) EXCEPT !.node = n]
<1>1. /\ UNCHANGED <<child, dirtyNodesMap, edits, displaced, clobbered>>
      /\ F!NodeFree(n) /\ inode' = [inode EXCEPT ![n] = f] /\ requests' = requests \union {t}
  BY DEF F!Begins, F!history, F!Arrives
<1>0. s \in {"add", "flush"}
  OBVIOUS
<1> HIDE DEF s
<1> HIDE DEF t
<1>2. t.kind = kind /\ t.stage \in {"add", "flush"} /\ t.node = n /\ RequestOK(t)
  <2>1. t = [kind |-> kind, stage |-> s, node |-> n, name |-> F!NoName, to |-> F!NoName, listed |-> {}]
    BY RequestIs DEF t
  <2>2. /\ t = [kind |-> t.kind, stage |-> t.stage, node |-> t.node, name |-> t.name, to |-> t.to,
                listed |-> t.listed]
        /\ t.kind = kind /\ t.stage = s /\ t.node = n
    BY ONLY <2>1
  <2> QED
    BY <1>0, <2>2 DEF RequestOK, Named
<1>3. F!KeepsNode(t) /\ ~F!KeepsMap(t) /\ ~IsDirRequest(t)
  BY <1>2 DEF F!KeepsNode, F!KeepsMap, IsDirRequest
<1>4. inode'[n] = f /\ Named' = Named /\ n \in Node
  BY <1>1, OneNode DEF Named
<1>5. KeepersOf(n) = {}
  BY <1>1, NodeFreeIs
<1>6. Comes({}, {t})
  BY <1>1, <1>2, <1>3, <1>4, <1>5, OneComes
<1>7. KeepersOf(n)' = {t}
  BY <1>1, <1>2, <1>3, <1>5 DEF KeepersOf
<1>8. SavedAt(n)'
  <2>1. inode[n].refCount > 0 \/ t.kind = "setattr"
    BY <1>2
  <2> QED
    BY <1>2, <1>4, <1>7, <2>1 DEF SavedAt
<1>9. Leads(dirtyNodesMap)' /\ edits' \in Nat /\ clobbered' \in BOOLEAN
  BY <1>1, <1>4 DEF FilesOK, FileTypes, KnownOK, Leads
<1>10. \A r \in {t} \union ({} \intersect requests) : F!KeepsNode(r) => r.node = n
  BY <1>2
<1> QED
  BY <1>1, <1>4, <1>6, <1>8, <1>9, <1>10, NodeKeeps

LEMMA WriteKeeps ==
  ASSUME FilesAreNamed, FilesOK, NEW n \in Node, F!Write(n)
  PROVE  FilesOK'
<1> DEFINE f == F!Editable(inode[n], FALSE)
<1>1. F!HasHandle(n) /\ F!Begins(n, "write", f) /\ unsaved' = unsaved
  BY DEF F!Write
<1>2. n \in Named /\ inode[n].refCount > 0 /\ inode[n] \in Files /\ FALSE \in BOOLEAN
  BY <1>1, KnownIsNamed, HandleIsOpen DEF FilesOK, FileTypes
<1>3. /\ f \in Files /\ f.path = inode[n].path /\ f.refCount = inode[n].refCount /\ f.tmpFile # F!NoFile
      /\ inode[n].tmpFile # F!NoFile => f.tmpFile = inode[n].tmpFile
  BY <1>2, FieldsAre
<1> HIDE DEF f
<1>4. unsaved' \in [Node -> SUBSET Nat] /\ unsaved'[n] \subseteq f.tmpFile
  BY <1>1, <1>3 DEF FilesOK, FileTypes, SavedOK, SavedAt
<1> QED
  BY <1>1, <1>2, <1>3, <1>4, BeginsKeep

LEMMA SetattrKeeps ==
  ASSUME FilesAreNamed, FilesOK, NEW n \in Node, NEW truncate \in BOOLEAN, F!Setattr(n, truncate)
  PROVE  FilesOK'
<1> DEFINE h == F!Opened(inode[n])
           f == F!Editable(h, truncate)
<1>1. /\ F!Known(n) \/ F!HasHandle(n)
      /\ F!Begins(n, "setattr", f)
      /\ unsaved' = IF truncate THEN [unsaved EXCEPT ![n] = {}] ELSE unsaved
  BY DEF F!Setattr
<1>2. n \in Named
  BY <1>1, KnownIsNamed
<1>3. /\ inode[n] \in Files /\ h \in Files /\ h.path = inode[n].path
      /\ h.refCount = inode[n].refCount /\ h.tmpFile = inode[n].tmpFile
  BY FieldsAre DEF FilesOK, FileTypes
<1> HIDE DEF h
<1>4. /\ f \in Files /\ f.path = inode[n].path /\ f.refCount = inode[n].refCount /\ f.tmpFile # F!NoFile
      /\ inode[n].tmpFile # F!NoFile /\ ~truncate => f.tmpFile = inode[n].tmpFile
  <2>1. /\ f \in Files /\ f.path = h.path /\ f.refCount = h.refCount /\ f.tmpFile # F!NoFile
        /\ h.tmpFile # F!NoFile => F!Editable(h, FALSE).tmpFile = h.tmpFile
    BY <1>3, FieldsAre
  <2>2. ~truncate => truncate = FALSE
    OBVIOUS
  <2> QED
    BY <1>3, <2>1, <2>2
<1> HIDE DEF f
<1>5. /\ unsaved' \in [Node -> SUBSET Nat] /\ unsaved'[n] \subseteq f.tmpFile
      /\ \A m \in Node \ {n} : unsaved'[m] = unsaved[m]
  <2>1. unsaved \in [Node -> SUBSET Nat] /\ (unsaved[n] # {} => inode[n].tmpFile # F!NoFile /\ unsaved[n] \subseteq inode[n].tmpFile)
    BY DEF FilesOK, FileTypes, SavedOK, SavedAt
  <2>2. CASE truncate
    BY <1>1, <2>1, <2>2
  <2>3. CASE ~truncate
    BY <1>1, <1>4, <2>1, <2>3
  <2> QED
    BY <2>2, <2>3
<1> QED
  BY <1>1, <1>2, <1>4, <1>5, BeginsKeep

LEMMA FlushKeeps ==
  ASSUME FilesAreNamed, FilesOK, NEW n \in Node, NEW kind \in {"flush", "release"}, F!Flush(n, kind)
  PROVE  FilesOK'
<1> DEFINE t == [F!Request(kind, "flush") EXCEPT !.node = n]
<1>1. /\ UNCHANGED <<inode, child, dirtyNodesMap, edits, unsaved, displaced, clobbered>>
      /\ F!HasHandle(n) /\ F!NodeFree(n) /\ requests' = requests \union {t}
  BY DEF F!Flush, F!history, F!Arrives
<1>2. t.kind = kind /\ t.stage = "flush" /\ t.node = n /\ RequestOK(t)
  BY DEF F!Request, RequestOK
<1> HIDE DEF t
<1>3. F!KeepsNode(t) /\ ~F!KeepsMap(t) /\ ~IsDirRequest(t)
  BY <1>2 DEF F!KeepsNode, F!KeepsMap, IsDirRequest
<1>4. n \in Named /\ Named' = Named /\ inode[n].refCount > 0
  BY <1>1, KnownIsNamed, HandleIsOpen DEF Named, FilesOK
<1>5. KeepersOf(n) = {}
  BY <1>1, NodeFreeIs
<1>6. Comes({}, {t})
  BY <1>1, <1>2, <1>3, <1>4, <1>5, OneComes
<1>7. KeepersOf(n)' = {t}
  BY <1>1, <1>2, <1>3, <1>5 DEF KeepersOf
<1>8. SavedAt(n)'
  BY <1>1, <1>2, <1>4, <1>7 DEF SavedAt, FilesOK, SavedOK
<1>9. /\ Leads(dirtyNodesMap)' /\ edits' \in Nat /\ clobbered' \in BOOLEAN /\ unsaved' \in [Node -> SUBSET Nat]
      /\ inode[n] \in Files /\ inode' = [inode EXCEPT ![n] = inode[n]]
  BY <1>1, <1>4 DEF FilesOK, FileTypes, KnownOK, Leads
<1>10. /\ \A r \in {t} \union ({} \intersect requests) : F!KeepsNode(r) => r.node = n
       /\ \A m \in Node \ {n} : unsaved'[m] = unsaved[m]
       /\ UNCHANGED <<child, displaced>>
  BY <1>1, <1>2
<1> QED
  BY <1>6, <1>8, <1>9, <1>10, NodeKeeps

(* A request that has the node's mutex, and goes on with it or gives it    *)
(* back.                                                                   *)
LEMMA KeeperIs ==
  ASSUME FilesAreNamed, FilesOK, NEW r \in requests, F!KeepsNode(r)
  PROVE  RequestOK(r) /\ r.node \in Node /\ r.node \in Named /\ KeepersOf(r.node) = {r} /\ SavedAt(r.node)
         /\ inode[r.node] \in Files /\ ~F!KeepsMap(r) /\ ~IsDirRequest(r)
<1>1. RequestOK(r)
  BY DEF FilesOK, FileTypes
<1>2. r.node \in Node /\ ~F!KeepsMap(r) /\ ~IsDirRequest(r)
  BY <1>1 DEF RequestOK, F!KeepsNode, F!KeepsMap, IsDirRequest
<1>3. KeepersOf(r.node) = {r}
  BY DEF FilesOK, OneKeeper, KeepersOf
<1>4. SavedAt(r.node) /\ inode[r.node] \in Files
  BY <1>2 DEF FilesOK, FileTypes, SavedOK
<1>5. CASE r.kind # "setattr"
  <2>1. inode[r.node].refCount > 0
    BY <1>3, <1>4, <1>5 DEF SavedAt
  <2> QED
    BY <1>1, <1>2, <1>3, <1>4, <2>1 DEF SavedAt
<1>6. CASE r.kind = "setattr"
  <2>1. r.node \in Named \union {NoNode}
    BY DEF FilesOK, KnownOK
  <2> QED
    BY <1>1, <1>2, <1>3, <1>4, <2>1 DEF FilesAreNamed
<1> QED
  BY <1>5, <1>6

LEMMA KeeperGoesOn ==
  ASSUME FilesAreNamed, FilesOK, NEW r \in requests, F!KeepsNode(r), NEW stage0 \in {"flush", "remove"},
         F!GoesOn(r, [r EXCEPT !.stage = stage0]),
         stage0 = "remove" => r.kind # "write", Named' = Named
  PROVE  /\ Comes({r}, {[r EXCEPT !.stage = stage0]})
         /\ KeepersOf(r.node)' = {[r EXCEPT !.stage = stage0]}
         /\ \A s \in {[r EXCEPT !.stage = stage0]} \union ({r} \intersect requests) : F!KeepsNode(s) => s.node = r.node
<1> DEFINE t == [r EXCEPT !.stage = stage0]
<1>1. RequestOK(r) /\ r.node \in Node /\ r.node \in Named /\ KeepersOf(r.node) = {r}
  BY KeeperIs
<1>2. /\ t = [kind |-> r.kind, stage |-> stage0, node |-> r.node, name |-> r.name, to |-> r.to,
              listed |-> r.listed]
      /\ t.kind = r.kind /\ t.stage = stage0 /\ t.node = r.node /\ t.name = r.name /\ t.to = r.to
      /\ t.listed = r.listed
  BY <1>1, NextStage
<1>3. requests' = (requests \ {r}) \union {t}
  BY DEF F!GoesOn
<1> HIDE DEF t
<1>4. r.kind \in {"write", "setattr", "flush", "release"}
  BY <1>1 DEF RequestOK, F!KeepsNode
<1>5. RequestOK(t)
  BY <1>1, <1>2, <1>4 DEF RequestOK
<1>6. F!KeepsNode(t) /\ ~F!KeepsMap(t) /\ ~IsDirRequest(t)
  BY <1>2, <1>4 DEF F!KeepsNode, F!KeepsMap, IsDirRequest
<1>7. Comes({r}, {t})
  BY <1>1, <1>2, <1>3, <1>5, <1>6, OneGoesOn DEF FilesOK
<1>8. KeepersOf(r.node)' = {t}
  BY <1>1, <1>2, <1>3, <1>6 DEF KeepersOf
<1> QED
  BY <1>2, <1>7, <1>8 DEF t

LEMMA KeeperGoes ==
  ASSUME FilesAreNamed, FilesOK, NEW r \in requests, F!KeepsNode(r), F!Answer(r)
  PROVE  /\ Comes({r}, {}) /\ KeepersOf(r.node)' = {}
         /\ \A s \in {} \union ({r} \intersect requests) : F!KeepsNode(s) => s.node = r.node
<1>1. KeepersOf(r.node) = {r} /\ requests' = requests \ {r}
  BY KeeperIs DEF F!Answer
<1>2. KeepersOf(r.node)' = {}
  BY <1>1 DEF KeepersOf
<1> QED
  BY <1>1, <1>2, OneGoes

LEMMA AddDirtyKeeps ==
  ASSUME FilesAreNamed, FilesOK, NEW r \in requests, F!AddDirtyNode(r)
  PROVE  FilesOK'
<1> DEFINE t == [r EXCEPT !.stage = "flush"]
           n == r.node
<1>1. /\ UNCHANGED <<inode, child, edits, unsaved, displaced>> /\ r.stage = "add"
      /\ dirtyNodesMap' = [dirtyNodesMap EXCEPT ![inode[n].path] = n]
      /\ F!GoesOn(r, t) /\ clobbered' = (clobbered \/ n \in displaced)
  BY DEF F!AddDirtyNode
<1>2. F!KeepsNode(r) /\ Named' = Named
  BY <1>1 DEF F!KeepsNode, Named
<1>3. RequestOK(r) /\ n \in Node /\ n \in Named /\ KeepersOf(n) = {r} /\ SavedAt(n) /\ inode[n] \in Files
  BY <1>2, KeeperIs
<1>4. /\ Comes({r}, {t}) /\ KeepersOf(n)' = {t}
      /\ \A s \in {t} \union ({r} \intersect requests) : F!KeepsNode(s) => s.node = n
  BY <1>1, <1>2, KeeperGoesOn
<1>5. t.kind = r.kind /\ t.stage = "flush"
  BY <1>3, NextStage
<1> HIDE DEF t
<1>6. SavedAt(n)'
  <2>1. r \in KeepersOf(n)
    BY <1>3
  <2> HIDE DEF n
  <2>2. (inode[n].tmpFile # F!NoFile => inode[n].refCount > 0 \/ r.kind = "setattr")
        /\ (r.kind # "setattr" => inode[n].refCount > 0) /\ (r.kind = "write" => inode[n].tmpFile # F!NoFile)
    BY <1>3 DEF SavedAt
  <2>3. /\ unsaved[n] # {} => inode[n].tmpFile # F!NoFile /\ unsaved[n] \subseteq inode[n].tmpFile
        /\ inode[n].refCount > 0 => n \in Named
    BY <1>3 DEF SavedAt
  <2>4. inode'[n] = inode[n] /\ unsaved'[n] = unsaved[n] /\ n' = n
    BY <1>1 DEF n
  <2> QED
    BY <1>2, <1>4, <1>5, <2>2, <2>3, <2>4 DEF SavedAt
<1>7. Leads(dirtyNodesMap)'
  <2>1. inode[n].path \in Name
    BY <1>3 DEF Named, Files, Names
  <2> QED
    BY <1>1, <1>2, <1>3, <2>1 DEF FilesOK, FileTypes, KnownOK, Leads
<1>8. edits' \in Nat /\ clobbered' \in BOOLEAN /\ unsaved' \in [Node -> SUBSET Nat]
      /\ inode' = [inode EXCEPT ![n] = inode[n]] /\ UNCHANGED <<child, displaced>>
      /\ \A m \in Node \ {n} : unsaved'[m] = unsaved[m]
  BY <1>1, <1>3 DEF FilesOK, FileTypes
<1> HIDE DEF n
<1> QED
  BY <1>3, <1>4, <1>6, <1>7, <1>8, NodeKeeps

(* A request is over, and g is what it has made of its node.               *)
LEMMA EndKeeps ==
  ASSUME FilesAreNamed, FilesOK, NEW r \in requests, F!KeepsNode(r), F!Answer(r), NEW g \in Files,
         inode' = [inode EXCEPT ![r.node] = g], g.path = inode[r.node].path,
         unsaved' \in [Node -> SUBSET Nat], \A m \in Node \ {r.node} : unsaved'[m] = unsaved[m],
         unsaved'[r.node] # {} => g.tmpFile # F!NoFile /\ unsaved'[r.node] \subseteq g.tmpFile,
         g.tmpFile # F!NoFile => g.refCount > 0,
         UNCHANGED <<child, displaced>>, Leads(dirtyNodesMap)', edits' \in Nat, clobbered' \in BOOLEAN
  PROVE  FilesOK'
<1> DEFINE n == r.node
<1>1. n \in Node /\ n \in Named
  BY KeeperIs
<1>2. /\ Comes({r}, {}) /\ KeepersOf(n)' = {}
      /\ \A s \in {} \union ({r} \intersect requests) : F!KeepsNode(s) => s.node = n
  BY KeeperGoes
<1>3. unsaved'[n] # {} => g.tmpFile # F!NoFile /\ unsaved'[n] \subseteq g.tmpFile
  OBVIOUS
<1>4. inode' = [inode EXCEPT ![n] = g] /\ g.path = inode[n].path
      /\ \A m \in Node \ {n} : unsaved'[m] = unsaved[m]
  OBVIOUS
<1> HIDE DEF n
<1>5. inode'[n] = g /\ Named' = Named
  BY <1>1, <1>4, OneNode
<1>6. SavedAt(n)'
  <2>1. n' = n
    BY DEF n
  <2> QED
    BY <1>1, <1>2, <1>3, <1>5, <2>1 DEF SavedAt
<1>7. /\ unsaved' \in [Node -> SUBSET Nat] /\ edits' \in Nat /\ clobbered' \in BOOLEAN
      /\ UNCHANGED <<child, displaced>> /\ Leads(dirtyNodesMap)' /\ FilesOK
  OBVIOUS
<1> QED
  BY ONLY <1>1, <1>2, <1>4, <1>6, <1>7, g \in Files, NodeKeeps

LEMMA EditKeeps ==
  ASSUME FilesAreNamed, FilesOK, NEW r \in requests, F!Edit(r)
  PROVE  FilesOK'
<1> DEFINE n == r.node
           g == [inode[n] EXCEPT !.tmpFile = @ \union {edits'}]
<1>1. /\ r.kind = "write" /\ r.stage = "flush"
      /\ UNCHANGED <<child, dirtyNodesMap, displaced, clobbered>>
      /\ \/ /\ edits' = edits + 1
            /\ unsaved' = [unsaved EXCEPT ![n] = @ \union {edits'}]
            /\ F!Ends(r, g)
         \/ F!Ends(r, inode[n]) /\ UNCHANGED <<edits, unsaved>>
  BY DEF F!Edit, F!history
<1>2. F!KeepsNode(r)
  BY <1>1 DEF F!KeepsNode
<1>3. RequestOK(r) /\ n \in Node /\ n \in Named /\ KeepersOf(n) = {r} /\ SavedAt(n) /\ inode[n] \in Files
  BY <1>2, KeeperIs
<1>4. \A f : F!Ends(r, f) => F!Answer(r) /\ inode' = [inode EXCEPT ![n] = f]
  BY <1>1 DEF F!Ends
<1>5. inode[n].tmpFile # F!NoFile /\ inode[n].refCount > 0 /\ unsaved[n] \subseteq inode[n].tmpFile
  BY <1>1, <1>3 DEF SavedAt
<1>6. edits \in Nat /\ unsaved \in [Node -> SUBSET Nat] /\ clobbered' \in BOOLEAN
  BY <1>1 DEF FilesOK, FileTypes
<1>7. Leads(dirtyNodesMap)'
  <2>1. Named' = Named
    <3>1. inode' = [inode EXCEPT ![n] = g] \/ inode' = [inode EXCEPT ![n] = inode[n]]
      BY <1>1, <1>4
    <3>2. g.path = inode[n].path /\ inode \in [Node -> Files]
      BY <1>3 DEF Files, FilesOK, FileTypes
    <3> HIDE DEF g
    <3>3. \A m \in Node : inode'[m].path = inode[m].path
      BY <1>3, <3>1, <3>2
    <3> QED
      BY <3>3, SamePaths
  <2> QED
    BY <1>1, <2>1 DEF FilesOK, FileTypes, KnownOK, Leads
<1> HIDE DEF n
<1>8. CASE /\ edits' = edits + 1 /\ unsaved' = [unsaved EXCEPT ![n] = @ \union {edits'}]
           /\ F!Ends(r, g)
  <2>1. edits' \in Nat /\ edits' # 0
    BY <1>6, <1>8
  <2>2. /\ g \in Files /\ g.path = inode[n].path /\ g.refCount = inode[n].refCount
        /\ g.tmpFile = inode[n].tmpFile \union {edits'}
    BY <1>3, <2>1 DEF Files
  <2> HIDE DEF g
  <2>3. g.tmpFile # F!NoFile
    BY <2>1, <2>2 DEF F!NoFile
  <2>4. /\ unsaved' \in [Node -> SUBSET Nat] /\ unsaved'[n] = unsaved[n] \union {edits'}
        /\ \A m \in Node \ {n} : unsaved'[m] = unsaved[m]
    BY <1>3, <1>6, <1>8, <2>1
  <2>5. unsaved'[n] \subseteq g.tmpFile /\ g.refCount > 0
    BY <1>5, <2>2, <2>4
  <2> QED
    BY <1>1, <1>2, <1>3, <1>4, <1>6, <1>7, <1>8, <2>1, <2>2, <2>3, <2>4, <2>5, EndKeeps DEF n
<1>9. CASE F!Ends(r, inode[n]) /\ UNCHANGED <<edits, unsaved>>
  <2>1. unsaved' \in [Node -> SUBSET Nat] /\ edits' \in Nat /\ \A m \in Node \ {n} : unsaved'[m] = unsaved[m]
    BY <1>6, <1>9
  <2> QED
    BY <1>1, <1>2, <1>3, <1>4, <1>5, <1>6, <1>7, <1>9, <2>1, EndKeeps DEF n
<1> QED
  BY <1>1, <1>8, <1>9

LEMMA EndsIs ==
  ASSUME NEW r, NEW f \in Files, f.tmpFile = F!NoFile, r.kind = "release" => f.refCount > 0, F!Ends(r, f)
  PROVE  /\ F!Answer(r)
         /\ \E g \in Files : /\ inode' = [inode EXCEPT ![r.node] = g] /\ g.path = f.path
                             /\ g.tmpFile = F!NoFile
<1>1. CASE r.kind = "release"
  <2>1. F!Answer(r) /\ inode' = [inode EXCEPT ![r.node] = F!Closed(f)]
    BY <1>1 DEF F!Ends
  <2>2. F!Closed(f) \in Files /\ F!Closed(f).path = f.path /\ F!Closed(f).tmpFile = F!NoFile
    BY <1>1, ClosedIs
  <2> QED
    BY <2>1, <2>2
<1>2. CASE r.kind # "release"
  BY <1>2 DEF F!Ends
<1> QED
  BY <1>1, <1>2

LEMMA FlushesKeep ==
  ASSUME FilesAreNamed, FilesOK, NEW r \in requests, F!Flushes(r)
  PROVE  FilesOK'
<1> DEFINE n == r.node
           f == inode[n]
           t == [r EXCEPT !.stage = "remove"]
<1>1. /\ r.kind # "write" /\ r.stage = "flush"
      /\ UNCHANGED <<child, dirtyNodesMap, edits, displaced, clobbered>>
      /\ \/ ~F!Dirty(f) /\ F!Ends(r, f) /\ UNCHANGED unsaved
         \/ F!Dirty(f) /\ F!Ends(r, F!NotSaved(f)) /\ unsaved' = [unsaved EXCEPT ![n] = {}]
         \/ /\ F!Dirty(f) /\ unsaved' = [unsaved EXCEPT ![n] = @ \ f.tmpFile]
            /\ inode' = [inode EXCEPT ![n] = F!Saved(f)]
            /\ F!GoesOn(r, t)
  BY DEF F!Flushes, F!history
<1>2. F!KeepsNode(r) /\ (r.kind = "release" => r.kind # "setattr")
  BY <1>1 DEF F!KeepsNode
<1>3. RequestOK(r) /\ n \in Node /\ n \in Named /\ KeepersOf(n) = {r} /\ SavedAt(n) /\ f \in Files
  BY <1>2, KeeperIs
<1>4. /\ F!Saved(f) \in Files /\ F!Saved(f).path = f.path
      /\ F!Saved(f).refCount = f.refCount /\ F!Saved(f).tmpFile = F!NoFile
      /\ F!NotSaved(f) \in Files /\ F!NotSaved(f).path = f.path
      /\ F!NotSaved(f).refCount = f.refCount /\ F!NotSaved(f).tmpFile = F!NoFile
  BY <1>3, FieldsAre
<1>5. /\ unsaved[n] # {} => f.tmpFile # F!NoFile /\ unsaved[n] \subseteq f.tmpFile
      /\ r.kind # "setattr" => f.refCount > 0
      /\ f.refCount > 0 => n \in Named
  BY <1>3 DEF SavedAt
<1>6. unsaved \in [Node -> SUBSET Nat] /\ edits' \in Nat /\ clobbered' \in BOOLEAN
      /\ inode \in [Node -> Files] /\ FilesOK
  BY <1>1 DEF FilesOK, FileTypes
<1>7. ASSUME Named' = Named PROVE Leads(dirtyNodesMap)'
  BY <1>1, <1>7 DEF FilesOK, FileTypes, KnownOK, Leads
<1> HIDE DEF n
<1>8. ASSUME NEW h \in Files, h.tmpFile = F!NoFile, h.refCount = f.refCount, h.path = f.path, F!Ends(r, h),
             unsaved' \in [Node -> SUBSET Nat], \A m \in Node \ {n} : unsaved'[m] = unsaved[m],
             unsaved'[n] = {}
      PROVE  FilesOK'
  <2>1. F!Answer(r) /\ \E g \in Files : inode' = [inode EXCEPT ![r.node] = g] /\ g.path = h.path /\ g.tmpFile = F!NoFile
    BY <1>2, <1>5, <1>8, EndsIs
  <2>2. PICK g \in Files : inode' = [inode EXCEPT ![n] = g] /\ g.path = h.path /\ g.tmpFile = F!NoFile
    BY <2>1 DEF n
  <2>3. Leads(dirtyNodesMap)'
    BY <1>3, <1>6, <1>7, <1>8, <2>2, OneNode
  <2> QED
    BY <1>1, <1>2, <1>3, <1>6, <1>8, <2>1, <2>2, <2>3, EndKeeps DEF n
<1> HIDE DEF f
<1>9. CASE ~F!Dirty(f) /\ F!Ends(r, f) /\ UNCHANGED unsaved
  BY <1>3, <1>5, <1>6, <1>8, <1>9 DEF F!Dirty
<1>10. CASE F!Dirty(f) /\ F!Ends(r, F!NotSaved(f)) /\ unsaved' = [unsaved EXCEPT ![n] = {}]
  BY <1>3, <1>4, <1>6, <1>8, <1>10
<1>11. CASE /\ F!Dirty(f) /\ unsaved' = [unsaved EXCEPT ![n] = @ \ f.tmpFile]
            /\ inode' = [inode EXCEPT ![n] = F!Saved(f)]
            /\ F!GoesOn(r, t)
  <2> DEFINE g == F!Saved(f)
  <2>1. g \in Files /\ inode' = [inode EXCEPT ![n] = g] /\ g.path = inode[n].path /\ g.refCount = f.refCount
        /\ g.tmpFile = F!NoFile /\ F!GoesOn(r, t)
    BY <1>4, <1>11 DEF f
  <2> HIDE DEF g
  <2>2. inode'[n] = g /\ Named' = Named
    BY <1>3, <1>6, <2>1, OneNode
  <2>3. /\ Comes({r}, {t}) /\ KeepersOf(n)' = {t}
        /\ \A s \in {t} \union ({r} \intersect requests) : F!KeepsNode(s) => s.node = n
    BY <1>1, <1>2, <2>1, <2>2, KeeperGoesOn DEF n
  <2>4. t.kind = r.kind /\ t.stage = "remove"
    BY <1>3, NextStage
  <2> HIDE DEF t
  <2>5. /\ unsaved' \in [Node -> SUBSET Nat] /\ unsaved'[n] = {}
        /\ \A m \in Node \ {n} : unsaved'[m] = unsaved[m]
    BY <1>3, <1>5, <1>6, <1>11
  <2>6. SavedAt(n)'
    <3>1. n' = n
      BY DEF n
    <3> QED
      BY <1>1, <1>3, <1>5, <2>1, <2>2, <2>3, <2>4, <2>5, <3>1 DEF SavedAt
  <2>7. Leads(dirtyNodesMap)' /\ UNCHANGED <<child, displaced>>
    BY <1>1, <1>7, <2>2
  <2>8. n \in Node /\ g \in Files /\ inode' = [inode EXCEPT ![n] = g] /\ g.path = inode[n].path
        /\ FilesOK /\ Comes({r}, {t}) /\ unsaved' \in [Node -> SUBSET Nat]
    BY <1>3, <1>6, <2>1, <2>3, <2>5
  <2>9. edits' \in Nat /\ clobbered' \in BOOLEAN /\ (\A m \in Node \ {n} : unsaved'[m] = unsaved[m])
        /\ \A s \in {t} \union ({r} \intersect requests) : F!KeepsNode(s) => s.node = n
    BY <1>6, <2>3, <2>5
  <2> QED
    BY ONLY <2>6, <2>7, <2>8, <2>9, NodeKeeps
<1> QED
  BY <1>1, <1>9, <1>10, <1>11

LEMMA RemoveDirtyKeeps ==
  ASSUME FilesAreNamed, FilesOK, NEW r \in requests, F!RemoveDirtyNode(r)
  PROVE  FilesOK'
<1> DEFINE n == r.node
           f == inode[n]
<1>1. /\ UNCHANGED <<child, edits, unsaved, displaced>> /\ r.stage = "remove"
      /\ dirtyNodesMap' = [dirtyNodesMap EXCEPT ![f.path] = NoNode]
      /\ F!Ends(r, f) /\ clobbered' = (clobbered \/ n \in displaced)
  BY DEF F!RemoveDirtyNode
<1>2. F!KeepsNode(r) /\ (r.kind = "release" => r.kind # "setattr")
  BY <1>1 DEF F!KeepsNode
<1>3. RequestOK(r) /\ n \in Node /\ n \in Named /\ KeepersOf(n) = {r} /\ SavedAt(n) /\ f \in Files
  BY <1>2, KeeperIs
<1>4. f.tmpFile = F!NoFile /\ unsaved[n] = {} /\ (r.kind = "release" => f.refCount > 0)
  BY <1>1, <1>2, <1>3 DEF SavedAt
<1>5. F!Answer(r) /\ \E g \in Files : inode' = [inode EXCEPT ![r.node] = g] /\ g.path = f.path /\ g.tmpFile = F!NoFile
  BY <1>1, <1>3, <1>4, EndsIs
<1>6. PICK g \in Files : inode' = [inode EXCEPT ![n] = g] /\ g.path = f.path /\ g.tmpFile = F!NoFile
  BY <1>5
<1>7. Named' = Named
  BY <1>3, <1>6, OneNode
<1>8. Leads(dirtyNodesMap)'
  <2>1. f.path \in Name
    BY <1>3 DEF Named, Files, Names
  <2> QED
    BY <1>1, <1>7, <2>1 DEF FilesOK, FileTypes, KnownOK, Leads
<1>9. edits' \in Nat /\ clobbered' \in BOOLEAN /\ unsaved' \in [Node -> SUBSET Nat]
      /\ \A m \in Node \ {n} : unsaved'[m] = unsaved[m]
  BY <1>1 DEF FilesOK, FileTypes
<1>10. unsaved'[n] = {} /\ UNCHANGED <<child, displaced>>
  BY <1>1, <1>4
<1> QED
  BY ONLY FilesAreNamed, FilesOK, r \in requests, <1>2, <1>5, <1>6, <1>8, <1>9, <1>10, EndKeeps

(* What changes no file, and waits for none.                               *)
LEMMA StillKeeps ==
  ASSUME FilesOK, NEW Gone, NEW T, Comes(Gone, T),
         \A r \in T \union (Gone \intersect requests) : ~F!KeepsNode(r),
         inode' \in [Node -> Files],
         \A m \in Node : inode'[m].tmpFile = inode[m].tmpFile /\ inode'[m].refCount = inode[m].refCount,
         unsaved' = unsaved, Named \subseteq Named', Leads(child)', Leads(dirtyNodesMap)', edits' = edits,
         displaced' \subseteq Node, clobbered' \in BOOLEAN
  PROVE  FilesOK'
<1>1. Touches(Gone, T, {})
  BY DEF Touches
<1>2. unsaved' \in [Node -> SUBSET Nat] /\ edits' \in Nat
  BY DEF FilesOK, FileTypes
<1> QED
  BY <1>1, <1>2, FilesKeep

LEMMA LeadsSame ==
  ASSUME FilesOK, NEW x \in Name, Named \subseteq Named'
  PROVE  /\ child' = child => Leads(child)'
         /\ dirtyNodesMap' = dirtyNodesMap => Leads(dirtyNodesMap)'
         /\ \A n \in Named' \union {NoNode} :
              /\ child' = [child EXCEPT ![x] = n] => Leads(child)'
              /\ dirtyNodesMap' = [dirtyNodesMap EXCEPT ![x] = n] => Leads(dirtyNodesMap)'
<1>1. \A n \in Named' : n \in Node
  BY DEF Named
<1>2. \A y \in Name : child[y] \in Named' \union {NoNode} /\ dirtyNodesMap[y] \in Named' \union {NoNode}
  BY DEF FilesOK, KnownOK
<1>3. child \in [Name -> Node \union {NoNode}] /\ dirtyNodesMap \in [Name -> Node \union {NoNode}]
  BY DEF FilesOK, FileTypes
<1> QED
  BY <1>1, <1>2, <1>3 DEF Leads

(* A new file has no edits, and nobody waits for it.                       *)
LEMMA FreshIs ==
  ASSUME FilesAreNamed, FilesOK, NEW n \in F!Fresh
  PROVE  /\ n \in Node /\ inode[n] = F!Unused /\ n \notin Named /\ unsaved[n] = {}
         /\ inode[n].tmpFile = F!NoFile /\ inode[n].refCount = 0
         /\ \A r \in requests : r.node # n
         /\ \A x \in Name : child[x] # n /\ dirtyNodesMap[x] # n
<1>1. n \in Node /\ inode[n] = F!Unused
  BY DEF F!Fresh
<1>2. inode[n].path = F!NoName /\ inode[n].tmpFile = F!NoFile /\ inode[n].refCount = 0
  BY <1>1 DEF F!Unused
<1>3. n \notin Named /\ n # NoNode
  BY <1>1, <1>2 DEF Named, FilesAreNamed
<1>4. unsaved[n] = {}
  BY <1>1, <1>2 DEF FilesOK, SavedOK, SavedAt
<1> QED
  BY <1>1, <1>2, <1>3, <1>4 DEF FilesOK, KnownOK

LEMMA LookupKeeps ==
  ASSUME FilesAreNamed, FilesOK, NEW x \in Name, F!Lookup(x)
  PROVE  FilesOK'
<1> DEFINE t == [F!Request("lookup", "node") EXCEPT !.name = x, !.node = dirtyNodesMap[x]]
<1>1. /\ UNCHANGED <<dirtyNodesMap, edits, unsaved, displaced, clobbered>> /\ F!MapFree
      /\ \/ dirtyNodesMap[x] # NoNode /\ requests' = requests \union {t} /\ UNCHANGED <<inode, child>>
         \/ /\ \E n \in F!Fresh : inode' = [inode EXCEPT ![n].path = x] /\ child' = [child EXCEPT ![x] = n]
            /\ requests' = requests
  BY DEF F!Lookup, F!history, F!Arrives
<1>2. displaced' \subseteq Node /\ clobbered' \in BOOLEAN /\ inode \in [Node -> Files]
  BY <1>1 DEF FilesOK, FileTypes
<1>3. CASE dirtyNodesMap[x] # NoNode /\ requests' = requests \union {t} /\ UNCHANGED <<inode, child>>
  <2>1. dirtyNodesMap[x] \in Named /\ Named' = Named
    BY <1>3 DEF FilesOK, KnownOK, Named
  <2>2. t = [kind |-> "lookup", stage |-> "node", node |-> dirtyNodesMap[x], name |-> x, to |-> F!NoName, listed |-> {}]
    BY LookupIs, Zenon
  <2> HIDE DEF t
  <2>3. /\ t = [kind |-> t.kind, stage |-> t.stage, node |-> t.node, name |-> t.name, to |-> t.to,
                listed |-> t.listed]
        /\ t.kind = "lookup" /\ t.stage = "node" /\ t.node = dirtyNodesMap[x] /\ t.name = x
    BY ONLY <2>2
  <2>4. RequestOK(t) /\ ~F!KeepsNode(t) /\ ~IsDirRequest(t)
    BY <2>1, <2>3 DEF RequestOK, F!KeepsNode, IsDirRequest, Named
  <2>5. Comes({}, {t})
    BY <1>1, <1>3, <2>1, <2>3, <2>4, OneComes
  <2>6. Leads(child)' /\ Leads(dirtyNodesMap)'
    BY <1>1, <1>3, <2>1, LeadsSame
  <2> QED
    BY <1>1, <1>2, <1>3, <2>1, <2>4, <2>5, <2>6, StillKeeps
<1>4. ASSUME NEW n \in F!Fresh, inode' = [inode EXCEPT ![n].path = x], child' = [child EXCEPT ![x] = n],
             requests' = requests
      PROVE  FilesOK'
  <2>1. n \in Node /\ inode[n] \in Files
    BY <1>2, FreshIs
  <2>2. [inode[n] EXCEPT !.path = x] \in Files
    BY <2>1 DEF Files, Names
  <2>3. /\ inode' \in [Node -> Files] /\ inode'[n].path = x
        /\ \A m \in Node : inode'[m].tmpFile = inode[m].tmpFile /\ inode'[m].refCount = inode[m].refCount
        /\ \A m \in Node \ {n} : inode'[m] = inode[m]
    <3>1. inode' = [inode EXCEPT ![n] = [inode[n] EXCEPT !.path = x]]
      BY <1>4
    <3>2. [inode[n] EXCEPT !.path = x].tmpFile = inode[n].tmpFile /\ [inode[n] EXCEPT !.path = x].path = x
          /\ [inode[n] EXCEPT !.path = x].refCount = inode[n].refCount
      BY <2>1 DEF Files
    <3> QED
      BY <1>2, <2>1, <2>2, <3>1, <3>2
  <2>4. Named \subseteq Named' /\ n \in Named'
    BY <2>1, <2>3 DEF Named, FilesAreNamed
  <2>5. Leads(child)' /\ Leads(dirtyNodesMap)'
    BY <1>1, <1>4, <2>4, LeadsSame
  <2>6. Comes({}, {}) /\ \A r \in {} \union ({} \intersect requests) : ~F!KeepsNode(r)
    BY <1>4, NoneComes
  <2> QED
    BY <1>1, <1>2, <2>3, <2>4, <2>5, <2>6, StillKeeps
<1> QED
  BY <1>1, <1>3, <1>4

LEMMA LookupDirtyKeeps ==
  ASSUME FilesAreNamed, FilesOK, NEW r \in requests, F!LookupDirty(r)
  PROVE  FilesOK'
<1>1. /\ UNCHANGED <<inode, dirtyNodesMap, edits, unsaved, displaced>> /\ r.kind = "lookup"
      /\ child' = [child EXCEPT ![r.name] = r.node] /\ requests' = requests \ {r}
      /\ clobbered' = (clobbered \/ r.node \in displaced)
  BY DEF F!LookupDirty, F!Answer
<1>2. r.stage = "node" /\ r.node \in Named /\ r.name \in Name
  BY <1>1 DEF FilesOK, FileTypes, KnownOK, RequestOK, FilesAreNamed
<1>3. Named' = Named
  BY <1>1 DEF Named
<1>4. Leads(child)' /\ Leads(dirtyNodesMap)'
  BY <1>1, <1>2, <1>3, LeadsSame
<1>5. Comes({r}, {}) /\ \A s \in {} \union ({r} \intersect requests) : ~F!KeepsNode(s)
  BY <1>1, <1>2, OneGoes DEF F!KeepsNode
<1>6. displaced' \subseteq Node /\ clobbered' \in BOOLEAN /\ inode' \in [Node -> Files]
  BY <1>1 DEF FilesOK, FileTypes
<1> QED
  BY <1>1, <1>3, <1>4, <1>5, <1>6, StillKeeps

(* A request on the directory arrives, for no file's mutex.                *)
LEMMA DirArrives ==
  ASSUME FilesOK, NEW t, RequestOK(t), t.kind \in {"readdir", "unlink", "rename"}, t.node \in Named \union {NoNode},
         requests' = requests \union {t}, UNCHANGED <<inode, child, dirtyNodesMap, edits, unsaved, clobbered>>,
         F!KeepsMap(t) => F!MapFree, displaced' \subseteq Node,
         IsDirRequest(t) => \A r \in requests : ~IsDirRequest(r)
  PROVE  FilesOK'
<1>1. Named' = Named /\ ~F!KeepsNode(t)
  BY DEF Named, RequestOK, F!KeepsNode
<1>2. Comes({}, {t})
  BY <1>1, OneComes
<1>3. Leads(child)' /\ Leads(dirtyNodesMap)' /\ inode' \in [Node -> Files] /\ clobbered' \in BOOLEAN
  BY <1>1 DEF Leads, FilesOK, FileTypes, KnownOK
<1> QED
  BY <1>1, <1>2, <1>3, StillKeeps

LEMMA ReaddirKeeps ==
  ASSUME FilesAreNamed, FilesOK, F!Readdir
  PROVE  FilesOK'
<1> DEFINE t == [F!Request("readdir", "list") EXCEPT !.listed = tree]
<1>1. t = [kind |-> "readdir", stage |-> "list", node |-> NoNode, name |-> F!NoName, to |-> F!NoName, listed |-> tree]
  BY DEF F!Request
<1>2. requests' = requests \union {t} /\ UNCHANGED <<inode, child, dirtyNodesMap, edits, unsaved, clobbered, displaced>>
  BY DEF F!Readdir, F!Arrives, F!history
<1> HIDE DEF t
<1>3. /\ t = [kind |-> t.kind, stage |-> t.stage, node |-> t.node, name |-> t.name, to |-> t.to,
              listed |-> t.listed]
      /\ t.kind = "readdir" /\ t.stage = "list" /\ t.node = NoNode
  BY ONLY <1>1
<1>4. RequestOK(t) /\ ~F!KeepsMap(t) /\ ~IsDirRequest(t)
  BY <1>3 DEF RequestOK, F!KeepsMap, IsDirRequest
<1>5. displaced' \subseteq Node
  BY <1>2 DEF FilesOK, FileTypes
<1> QED
  BY <1>2, <1>3, <1>4, <1>5, DirArrives

LEMMA ReaddirDirtyKeeps ==
  ASSUME FilesAreNamed, FilesOK, NEW r \in requests, F!ReaddirDirty(r)
  PROVE  FilesOK'
<1>1. /\ r.stage = "list" /\ requests' = requests \ {r}
      /\ UNCHANGED <<inode, child, dirtyNodesMap, edits, unsaved, clobbered, displaced>>
  BY DEF F!ReaddirDirty, F!Answer, F!history
<1>2. Comes({r}, {}) /\ \A s \in {} \union ({r} \intersect requests) : ~F!KeepsNode(s)
  BY <1>1, OneGoes DEF F!KeepsNode
<1>3. Named' = Named
  BY <1>1 DEF Named
<1>4. Leads(child)' /\ Leads(dirtyNodesMap)' /\ inode' \in [Node -> Files] /\ clobbered' \in BOOLEAN
      /\ displaced' \subseteq Node
  BY <1>1, <1>3 DEF Leads, FilesOK, FileTypes, KnownOK
<1> QED
  BY <1>1, <1>2, <1>3, <1>4, StillKeeps

LEMMA PathIs ==
  ASSUME NEW f \in Files, NEW x \in Name
  PROVE  /\ [f EXCEPT !.path = x] \in Files /\ [f EXCEPT !.path = x].path = x
         /\ [f EXCEPT !.path = x].tmpFile = f.tmpFile /\ [f EXCEPT !.path = x].refCount = f.refCount
         /\ [f EXCEPT !.path = x].tmpMetadata = f.tmpMetadata
BY DEF Files, Names

LEMMA CreateKeeps ==
  ASSUME FilesAreNamed, FilesOK, NEW x \in Name, F!Create(x)
  PROVE  FilesOK'
<1> DEFINE g == [F!Editable(F!Unused, TRUE) EXCEPT !.path = x, !.refCount = 1]
<1>1. /\ UNCHANGED <<requests, edits, unsaved, displaced, clobbered>>
      /\ \E n \in F!Fresh : /\ inode' = [inode EXCEPT ![n] = g] /\ child' = [child EXCEPT ![x] = n]
                            /\ dirtyNodesMap' = [dirtyNodesMap EXCEPT ![x] = n]
  BY DEF F!Create, F!history
<1>2. g \in Files /\ g.path = x /\ g.refCount = 1 /\ g.tmpFile # F!NoFile
  <2> DEFINE e == F!Editable(F!Unused, TRUE)
  <2>1. F!Unused \in Files /\ TRUE \in BOOLEAN
    BY DEF F!Unused, Files, Names, F!NoFile
  <2>2. e \in Files /\ e.tmpFile # F!NoFile
    BY <2>1, FieldsAre
  <2> HIDE DEF e
  <2> DEFINE u == [e EXCEPT !.path = x]
  <2>3. g = [u EXCEPT !.refCount = 1]
    BY Zenon DEF e
  <2>4. u \in Files /\ u.path = x /\ u.tmpFile # F!NoFile
    BY <2>2, PathIs
  <2> HIDE DEF u
  <2>5. [u EXCEPT !.refCount = 1] \in Files /\ [u EXCEPT !.refCount = 1].path = x
        /\ [u EXCEPT !.refCount = 1].tmpFile # F!NoFile /\ [u EXCEPT !.refCount = 1].refCount = 1
    BY <2>4 DEF Files
  <2> QED
    BY <2>3, <2>5, Zenon
<1> HIDE DEF g
<1>3. PICK n \in F!Fresh : /\ inode' = [inode EXCEPT ![n] = g] /\ child' = [child EXCEPT ![x] = n]
                          /\ dirtyNodesMap' = [dirtyNodesMap EXCEPT ![x] = n]
  BY <1>1
<1>5. /\ n \in Node /\ n \notin Named /\ unsaved[n] = {} /\ \A r \in requests : r.node # n
  BY FreshIs
<1>6. inode' \in [Node -> Files] /\ inode'[n] = g /\ \A m \in Node \ {n} : inode'[m] = inode[m]
  BY <1>3, <1>2, <1>5 DEF FilesOK, FileTypes
<1>7. Named \subseteq Named' /\ n \in Named'
  BY <1>2, <1>5, <1>6 DEF Named, FilesAreNamed
<1>8. SavedAt(n)'
  <2>1. KeepersOf(n)' = {} /\ unsaved'[n] = {}
    BY <1>1, <1>5 DEF KeepersOf
  <2> QED
    BY <1>2, <1>6, <1>7, <2>1 DEF SavedAt
<1>9. Comes({}, {}) /\ Touches({}, {}, {n})
  BY <1>1, <1>6, <1>8, NoneComes DEF Touches
<1>10. Leads(child)' /\ Leads(dirtyNodesMap)'
  BY <1>3, <1>7, LeadsSame
<1>11. unsaved' \in [Node -> SUBSET Nat] /\ edits' \in Nat /\ displaced' \subseteq Node /\ clobbered' \in BOOLEAN
  BY <1>1 DEF FilesOK, FileTypes
<1> QED
  BY <1>6, <1>7, <1>9, <1>10, <1>11, FilesKeep

LEMMA DisplacesOnly ==
  ASSUME FilesOK, NEW S, S \subseteq Node \union {NoNode}, F!Displaces(S)
  PROVE  displaced' \subseteq Node
BY DEF F!Displaces, FilesOK, FileTypes

LEMMA NoDirRequest ==
  ASSUME F!DirFree
  PROVE  \A r \in requests : ~IsDirRequest(r)
BY DEF F!DirFree, F!Doing, IsDirRequest

LEMMA UnlinkKeeps ==
  ASSUME FilesAreNamed, FilesOK, NEW x \in Name, F!Unlink(x)
  PROVE  FilesOK'
<1> DEFINE t == [F!Request("unlink", "unlinked") EXCEPT !.name = x]
<1>1. /\ requests' = requests \union {t} /\ F!DirFree /\ F!Displaces({child[x]})
      /\ UNCHANGED <<inode, child, dirtyNodesMap, edits, unsaved, clobbered>>
  BY DEF F!Unlink, F!Arrives
<1>2. t = [kind |-> "unlink", stage |-> "unlinked", node |-> NoNode, name |-> x, to |-> F!NoName, listed |-> {}]
  BY NamedRequestIs
<1> HIDE DEF t
<1>3. /\ t = [kind |-> t.kind, stage |-> t.stage, node |-> t.node, name |-> t.name, to |-> t.to,
              listed |-> t.listed]
      /\ t.kind = "unlink" /\ t.stage = "unlinked" /\ t.node = NoNode /\ t.name = x
  BY ONLY <1>2
<1>4. RequestOK(t) /\ ~F!KeepsMap(t)
  BY <1>3 DEF RequestOK, F!KeepsMap
<1>5. displaced' \subseteq Node
  <2>1. {child[x]} \subseteq Node \union {NoNode}
    BY DEF FilesOK, FileTypes
  <2> QED
    BY <1>1, <2>1, DisplacesOnly
<1> QED
  BY <1>1, <1>3, <1>4, <1>5, DirArrives, NoDirRequest

LEMMA UnlinkEndsKeeps ==
  ASSUME FilesAreNamed, FilesOK, NEW r \in requests, F!UnlinkEnds(r)
  PROVE  FilesOK'
<1>1. /\ r.stage = "unlinked" /\ requests' = requests \ {r}
      /\ dirtyNodesMap' = [dirtyNodesMap EXCEPT ![r.name] = NoNode] /\ child' = [child EXCEPT ![r.name] = NoNode]
      /\ UNCHANGED <<inode, edits, unsaved, clobbered, displaced>>
  BY DEF F!UnlinkEnds, F!Answer, F!history
<1>2. Comes({r}, {}) /\ \A s \in {} \union ({r} \intersect requests) : ~F!KeepsNode(s)
  BY <1>1, OneGoes DEF F!KeepsNode
<1>3. Named' = Named /\ r.name \in Name
  BY <1>1 DEF Named, FilesOK, FileTypes, RequestOK
<1>4. Leads(child)' /\ Leads(dirtyNodesMap)'
  BY <1>1, <1>3, LeadsSame
<1>5. inode' \in [Node -> Files] /\ clobbered' \in BOOLEAN /\ displaced' \subseteq Node
  BY <1>1 DEF FilesOK, FileTypes
<1> QED
  BY <1>1, <1>2, <1>3, <1>4, <1>5, StillKeeps

LEMMA RenameKeeps ==
  ASSUME FilesAreNamed, FilesOK, NEW x \in Name, NEW y \in Name, F!Rename(x, y)
  PROVE  FilesOK'
<1> DEFINE t == [F!Request("rename", "node") EXCEPT !.name = x, !.to = y, !.node = dirtyNodesMap[x]]
           u == [F!Request("rename", "moved") EXCEPT !.name = x, !.to = y]
<1>1. /\ F!DirFree /\ F!MapFree /\ x # y
      /\ UNCHANGED <<inode, child, dirtyNodesMap, edits, unsaved, clobbered>>
      /\ \/ dirtyNodesMap[x] # NoNode /\ requests' = requests \union {t} /\ displaced' = displaced
         \/ requests' = requests \union {u} /\ F!Displaces({child[y]})
  BY DEF F!Rename, F!Arrives
<1>2. t = [kind |-> "rename", stage |-> "node", node |-> dirtyNodesMap[x], name |-> x, to |-> y, listed |-> {}]
  <2> DEFINE v == [F!Request("rename", "node") EXCEPT !.name = x, !.to = y]
  <2>1. t = [v EXCEPT !.node = dirtyNodesMap[x]]
    OBVIOUS
  <2>2. v = [kind |-> "rename", stage |-> "node", node |-> NoNode, name |-> x, to |-> y, listed |-> {}]
    BY RenameIs, Zenon
  <2> HIDE DEF v
  <2>3. [v EXCEPT !.node = dirtyNodesMap[x]] =
          [kind |-> "rename", stage |-> "node", node |-> dirtyNodesMap[x], name |-> x, to |-> y, listed |-> {}]
    BY <2>2
  <2> QED
    BY <2>1, <2>3, Zenon
<1>0. u = [kind |-> "rename", stage |-> "moved", node |-> NoNode, name |-> x, to |-> y, listed |-> {}]
  BY RenameIs, Zenon
<1> HIDE DEF t
<1> HIDE DEF u
<1>3. CASE dirtyNodesMap[x] # NoNode /\ requests' = requests \union {t} /\ displaced' = displaced
  <2>1. /\ t = [kind |-> t.kind, stage |-> t.stage, node |-> t.node, name |-> t.name, to |-> t.to,
                listed |-> t.listed]
        /\ t.kind = "rename" /\ t.stage = "node" /\ t.node = dirtyNodesMap[x] /\ t.name = x /\ t.to = y
    BY ONLY <1>2
  <2>2. dirtyNodesMap[x] \in Named /\ displaced' \subseteq Node
    BY <1>3 DEF FilesOK, FileTypes, KnownOK
  <2>3. RequestOK(t)
    BY <1>1, <2>1, <2>2 DEF RequestOK, Named
  <2> QED
    BY <1>1, <1>3, <2>1, <2>2, <2>3, DirArrives, NoDirRequest
<1>4. CASE requests' = requests \union {u} /\ F!Displaces({child[y]})
  <2>1. /\ u = [kind |-> u.kind, stage |-> u.stage, node |-> u.node, name |-> u.name, to |-> u.to,
                listed |-> u.listed]
        /\ u.kind = "rename" /\ u.stage = "moved" /\ u.node = NoNode /\ u.name = x /\ u.to = y
    BY ONLY <1>0
  <2>2. {child[y]} \subseteq Node \union {NoNode}
    BY DEF FilesOK, FileTypes
  <2>3. displaced' \subseteq Node
    BY <1>4, <2>2, DisplacesOnly
  <2>4. RequestOK(u)
    BY <1>1, <2>1 DEF RequestOK
  <2> QED
    BY <1>1, <1>4, <2>1, <2>3, <2>4, DirArrives, NoDirRequest
<1> QED
  BY <1>1, <1>3, <1>4

(* A file has another path, whatever becomes of the request.               *)
LEMMA PathKeeps ==
  ASSUME FilesAreNamed, FilesOK, NEW n, NEW y \in Name, inode' = [inode EXCEPT ![n].path = y]
  PROVE  /\ inode' \in [Node -> Files] /\ Named \subseteq Named'
         /\ \A m \in Node : /\ inode'[m].tmpFile = inode[m].tmpFile /\ inode'[m].refCount = inode[m].refCount
                            /\ inode'[m].tmpMetadata = inode[m].tmpMetadata
         /\ \A m \in Node \ {n} : inode'[m] = inode[m]
         /\ n \in Node => inode'[n].path = y /\ n \in Named'
<1>1. inode \in [Node -> Files] /\ y # F!NoName
  BY DEF FilesOK, FileTypes, FilesAreNamed
<1>2. CASE n \in Node
  <2>1. inode' = [inode EXCEPT ![n] = [inode[n] EXCEPT !.path = y]]
    OBVIOUS
  <2> DEFINE g == [inode[n] EXCEPT !.path = y]
  <2>2. /\ g \in Files /\ g.path = y /\ g.tmpFile = inode[n].tmpFile /\ g.refCount = inode[n].refCount
        /\ g.tmpMetadata = inode[n].tmpMetadata
    BY <1>1, <1>2, PathIs
  <2> HIDE DEF g
  <2>3. inode' \in [Node -> Files] /\ inode'[n] = g /\ \A m \in Node \ {n} : inode'[m] = inode[m]
    BY <1>1, <1>2, <2>1, <2>2 DEF g
  <2>4. Named \subseteq Named' /\ n \in Named'
    BY <1>1, <1>2, <2>2, <2>3 DEF Named
  <2> QED
    BY <2>2, <2>3, <2>4
<1>3. CASE n \notin Node
  <2>1. inode' = inode
    BY <1>1, <1>3
  <2> QED
    BY <1>1, <1>3, <2>1 DEF Named
<1> QED
  BY <1>2, <1>3

LEMMA RenameDirtyKeeps ==
  ASSUME FilesAreNamed, FilesOK, NEW r \in requests, F!RenameDirty(r)
  PROVE  FilesOK'
<1> DEFINE n == r.node
           x == r.name
           y == r.to
           t == [r EXCEPT !.stage = "moved", !.node = NoNode]
<1>1. /\ r.kind = "rename" /\ r.stage = "node" /\ inode' = [inode EXCEPT ![n].path = y]
      /\ UNCHANGED <<child, edits, unsaved, clobbered>>
      /\ \/ /\ dirtyNodesMap' = [dirtyNodesMap EXCEPT ![x] = NoNode, ![y] = n]
            /\ F!Displaces({child[y]}) /\ requests' = (requests \ {r}) \union {t}
         \/ requests' = requests \ {r} /\ F!Displaces({n}) /\ UNCHANGED dirtyNodesMap
  BY DEF F!RenameDirty, F!GoesOn, F!Answer
<1>2. RequestOK(r) /\ n \in Node /\ n \in Named /\ x \in Name /\ y \in Name /\ x # y
  BY <1>1 DEF FilesOK, FileTypes, KnownOK, RequestOK, FilesAreNamed
<1>3. /\ inode' \in [Node -> Files] /\ Named \subseteq Named'
      /\ \A m \in Node : inode'[m].tmpFile = inode[m].tmpFile /\ inode'[m].refCount = inode[m].refCount
  BY <1>1, <1>2, PathKeeps
<1>4. {child[y]} \subseteq Node \union {NoNode} /\ {n} \subseteq Node \union {NoNode}
  BY <1>2 DEF FilesOK, FileTypes
<1>5. displaced' \subseteq Node /\ clobbered' \in BOOLEAN /\ ~F!KeepsNode(r)
  BY <1>1, <1>4, DisplacesOnly DEF FilesOK, FileTypes, F!KeepsNode
<1>6. CASE /\ dirtyNodesMap' = [dirtyNodesMap EXCEPT ![x] = NoNode, ![y] = n]
           /\ requests' = (requests \ {r}) \union {t}
  <2>1. t = [kind |-> r.kind, stage |-> "moved", node |-> NoNode, name |-> r.name, to |-> r.to, listed |-> r.listed]
    <3> DEFINE u == [r EXCEPT !.stage = "moved"]
    <3>1. t = [u EXCEPT !.node = NoNode]
      BY Zenon
    <3>2. u = [kind |-> r.kind, stage |-> "moved", node |-> r.node, name |-> r.name, to |-> r.to, listed |-> r.listed]
      BY <1>2, NextStage
    <3> HIDE DEF u
    <3>3. [u EXCEPT !.node = NoNode] =
            [kind |-> r.kind, stage |-> "moved", node |-> NoNode, name |-> r.name, to |-> r.to, listed |-> r.listed]
      BY <3>2
    <3> QED
      BY <3>1, <3>3, Zenon
  <2> HIDE DEF t
  <2>2. /\ t = [kind |-> t.kind, stage |-> t.stage, node |-> t.node, name |-> t.name, to |-> t.to,
                listed |-> t.listed]
        /\ t.kind = r.kind /\ t.stage = "moved" /\ t.node = NoNode /\ t.name = r.name /\ t.to = r.to
    BY ONLY <2>1
  <2>3. RequestOK(t) /\ ~F!KeepsNode(t) /\ ~F!KeepsMap(t) /\ IsDirRequest(r)
    BY <1>1, <1>2, <2>2 DEF RequestOK, F!KeepsNode, F!KeepsMap, IsDirRequest
  <2>4. Comes({r}, {t})
    BY <1>6, <2>2, <2>3, OneGoesOn DEF FilesOK
  <2>5. Leads(child)' /\ Leads(dirtyNodesMap)'
    BY <1>1, <1>2, <1>3, <1>6 DEF FilesOK, FileTypes, KnownOK, Leads
  <2> QED
    BY <1>1, <1>3, <1>5, <2>3, <2>4, <2>5, StillKeeps
<1>7. CASE requests' = requests \ {r} /\ UNCHANGED dirtyNodesMap
  <2>1. Comes({r}, {})
    BY <1>7, OneGoes
  <2>2. Leads(child)' /\ Leads(dirtyNodesMap)'
    BY <1>1, <1>2, <1>3, <1>7, LeadsSame
  <2> QED
    BY <1>1, <1>3, <1>5, <2>1, <2>2, StillKeeps
<1> QED
  BY <1>1, <1>6, <1>7

LEMMA RenameEndsKeeps ==
  ASSUME FilesAreNamed, FilesOK, NEW r \in requests, F!RenameEnds(r)
  PROVE  FilesOK'
<1> DEFINE x == r.name
           y == r.to
           n == child[x]
<1>1. /\ r.stage = "moved" /\ inode' = [inode EXCEPT ![n].path = y]
      /\ child' = [child EXCEPT ![x] = NoNode, ![y] = n] /\ requests' = requests \ {r}
      /\ UNCHANGED <<dirtyNodesMap, edits, unsaved, clobbered, displaced>>
  BY DEF F!RenameEnds, F!Answer, F!history
<1>2. RequestOK(r) /\ x \in Name /\ y \in Name /\ x # y /\ ~F!KeepsNode(r)
  BY <1>1 DEF FilesOK, FileTypes, RequestOK, F!KeepsNode
<1>3. /\ inode' \in [Node -> Files] /\ Named \subseteq Named'
      /\ \A m \in Node : inode'[m].tmpFile = inode[m].tmpFile /\ inode'[m].refCount = inode[m].refCount
  BY <1>1, <1>2, PathKeeps
<1>4. Comes({r}, {})
  BY <1>1, OneGoes
<1>5. Leads(child)' /\ Leads(dirtyNodesMap)'
  BY <1>1, <1>2, <1>3 DEF FilesOK, FileTypes, KnownOK, Leads
<1>6. displaced' \subseteq Node /\ clobbered' \in BOOLEAN
  BY <1>1 DEF FilesOK, FileTypes
<1> QED
  BY <1>1, <1>2, <1>3, <1>4, <1>5, <1>6, StillKeeps

LEMMA OthersLinkKeeps ==
  ASSUME FilesOK, NEW x, F!OthersLink(x)
  PROVE  FilesOK'
<1>1. UNCHANGED <<inode, child, dirtyNodesMap, requests, edits, unsaved, displaced, clobbered>>
  BY DEF F!OthersLink, F!history
<1> QED
  BY <1>1 DEF FilesOK, FileTypes, OneKeeper, OneOfMap, OneOfDir, KnownOK, SavedOK, SavedAt, Named, KeepersOf

(* A file that is forgotten has no edits.                                  *)
LEMMA ForgetKeeps ==
  ASSUME FilesAreNamed, FilesOK, NEW n \in Node, F!Forget(n)
  PROVE  FilesOK'
<1>1. /\ inode[n].refCount = 0 /\ F!At(n) = {} /\ \A x \in Name : dirtyNodesMap[x] # n
      /\ inode' = [inode EXCEPT ![n] = F!Unused]
      /\ child' = [x \in Name |-> IF child[x] = n THEN NoNode ELSE child[x]]
      /\ displaced' = displaced \ {n}
      /\ UNCHANGED <<dirtyNodesMap, requests, edits, unsaved, clobbered>>
  BY DEF F!Forget
<1>2. F!Unused \in Files /\ F!Unused.tmpFile = F!NoFile /\ F!Unused.refCount = 0 /\ F!Unused.path = F!NoName
  BY DEF F!Unused, Files, Names, F!NoFile
<1>3. KeepersOf(n) = {} /\ \A r \in requests : r.node # n
  BY <1>1 DEF F!At, KeepersOf
<1>4. unsaved[n] = {}
  BY <1>1, <1>3 DEF FilesOK, SavedOK, SavedAt
<1>5. /\ inode' \in [Node -> Files] /\ inode'[n] = F!Unused /\ \A m \in Node \ {n} : inode'[m] = inode[m]
  BY <1>1, <1>2 DEF FilesOK, FileTypes
<1>6. \A m \in Named \ {n} : m \in Named'
  BY <1>5 DEF Named
<1>7. FileTypes' /\ OneKeeper' /\ OneOfMap' /\ OneOfDir' /\ \A m : KeepersOf(m)' = KeepersOf(m)
  BY <1>1, <1>5 DEF FilesOK, FileTypes, OneKeeper, OneOfMap, OneOfDir, KeepersOf
<1>8. KnownOK'
  BY <1>1, <1>3, <1>6 DEF FilesOK, KnownOK
<1>9. ASSUME NEW m \in Node PROVE SavedAt(m)'
  <2>1. CASE m = n
    BY <1>1, <1>2, <1>3, <1>4, <1>5, <1>7, <2>1 DEF SavedAt
  <2>2. CASE m # n
    <3>1. SavedAt(m) /\ inode'[m] = inode[m] /\ unsaved'[m] = unsaved[m] /\ KeepersOf(m)' = KeepersOf(m)
          /\ (m \in Named => m \in Named')
      BY <1>1, <1>5, <1>6, <1>7, <2>2 DEF FilesOK, SavedOK
    <3> QED
      BY <3>1, SavedSame
  <2> QED
    BY <2>1, <2>2
<1> QED
  BY <1>7, <1>8, <1>9 DEF FilesOK, SavedOK

LEMMA FilesInit == F!Init => FilesOK
<1> SUFFICES ASSUME F!Init PROVE FilesOK
  OBVIOUS
<1>1. /\ inode = [n \in Node |-> F!Unused] /\ child = [x \in Name |-> NoNode]
      /\ dirtyNodesMap = [x \in Name |-> NoNode] /\ requests = {} /\ edits = 0
      /\ unsaved = [n \in Node |-> {}] /\ displaced = {} /\ clobbered = FALSE
  BY DEF F!Init
<1>2. F!Unused \in Files /\ F!Unused.tmpFile = F!NoFile /\ F!Unused.refCount = 0
  BY DEF F!Unused, Files, Names, F!NoFile
<1>3. FileTypes
  BY <1>1, <1>2, FS_EmptySet DEF FileTypes
<1>4. OneKeeper /\ OneOfMap /\ OneOfDir /\ KnownOK
  BY <1>1 DEF OneKeeper, OneOfMap, OneOfDir, KnownOK, KeepersOf
<1>5. SavedOK
  <2> SUFFICES ASSUME NEW n \in Node PROVE SavedAt(n)
    BY DEF SavedOK
  <2>1. inode[n].tmpFile = F!NoFile /\ inode[n].refCount = 0 /\ unsaved[n] = {} /\ KeepersOf(n) = {}
    BY <1>1, <1>2 DEF KeepersOf
  <2> QED
    BY <2>1 DEF SavedAt
<1> QED
  BY <1>3, <1>4, <1>5 DEF FilesOK

LEMMA FilesStep == FilesAreNamed /\ FilesOK /\ [F!Next]_(F!mountVars) => FilesOK'
<1> SUFFICES ASSUME FilesAreNamed, FilesOK, [F!Next]_(F!mountVars) PROVE FilesOK'
  OBVIOUS
<1>1. CASE F!Next
  <2>1. ASSUME NEW n \in Node, F!Open(n) \/ F!Read(n) PROVE FilesOK'
    BY <2>1, OpensKeep
  <2>2. ASSUME NEW n \in Node, F!Write(n) PROVE FilesOK'
    BY <2>2, WriteKeeps
  <2>3. ASSUME NEW n \in Node, F!Forget(n) PROVE FilesOK'
    BY <2>3, ForgetKeeps
  <2>4. ASSUME NEW n \in Node, NEW truncate \in BOOLEAN, F!Setattr(n, truncate) PROVE FilesOK'
    BY <2>4, SetattrKeeps
  <2>5. ASSUME NEW n \in Node, NEW kind \in {"flush", "release"}, F!Flush(n, kind) PROVE FilesOK'
    BY <2>5, FlushKeeps
  <2>6. ASSUME NEW x \in Name, F!Lookup(x) PROVE FilesOK'
    BY <2>6, LookupKeeps
  <2>7. ASSUME NEW x \in Name, F!Create(x) PROVE FilesOK'
    BY <2>7, CreateKeeps
  <2>8. ASSUME NEW x \in Name, F!Unlink(x) PROVE FilesOK'
    BY <2>8, UnlinkKeeps
  <2>9. ASSUME NEW x \in Name, NEW y \in Name, F!Rename(x, y) PROVE FilesOK'
    BY <2>9, RenameKeeps
  <2>10. ASSUME F!Readdir PROVE FilesOK'
    BY <2>10, ReaddirKeeps
  <2>11. ASSUME NEW r \in requests, F!Proceeds(r) PROVE FilesOK'
    <3>1. CASE F!AddDirtyNode(r)
      BY <3>1, AddDirtyKeeps
    <3>2. CASE F!Edit(r)
      BY <3>2, EditKeeps
    <3>3. CASE F!Flushes(r)
      BY <3>3, FlushesKeep
    <3>4. CASE F!RemoveDirtyNode(r)
      BY <3>4, RemoveDirtyKeeps
    <3>5. CASE F!LookupDirty(r)
      BY <3>5, LookupDirtyKeeps
    <3>6. CASE F!ReaddirDirty(r)
      BY <3>6, ReaddirDirtyKeeps
    <3>7. CASE F!UnlinkEnds(r)
      BY <3>7, UnlinkEndsKeeps
    <3>8. CASE F!RenameDirty(r)
      BY <3>8, RenameDirtyKeeps
    <3>9. CASE F!RenameEnds(r)
      BY <3>9, RenameEndsKeeps
    <3> QED
      BY <2>11, <3>1, <3>2, <3>3, <3>4, <3>5, <3>6, <3>7, <3>8, <3>9 DEF F!Proceeds
  <2>12. ASSUME NEW x, F!OthersLink(x) PROVE FilesOK'
    BY <2>12, OthersLinkKeeps
  <2> QED
    BY <1>1, <2>1, <2>2, <2>3, <2>4, <2>5, <2>6, <2>7, <2>8, <2>9, <2>10, <2>11, <2>12 DEF F!Next
<1>2. CASE UNCHANGED F!mountVars
  BY <1>2 DEF F!mountVars, FilesOK, FileTypes, OneKeeper, OneOfMap, OneOfDir, KnownOK, SavedOK, SavedAt, Named,
              KeepersOf
<1> QED
  BY <1>1, <1>2
-----------------------------------------------------------------------------
(* What the requests are about to do to the names.                         *)
Moving(x, y) == \E r \in requests : r.stage = "moved" /\ r.name = x /\ r.to = y
Leaving(x) == \E r \in requests : r.kind = "rename" /\ r.name = x
Unlinking(x) == \E r \in requests : r.stage = "unlinked" /\ r.name = x
Adding(n) == \E r \in requests : r.stage = "add" /\ r.node = n
Changing(n) == \E r \in requests : r.kind \in {"write", "setattr"} /\ r.node = n
Looked(x, n) == \E r \in requests : F!KeepsMap(r) /\ r.name = x /\ r.node = n

(* A node that is at its path is known there, or was there before a        *)
(* rename that is not over; what a name leads to is at that path, or will  *)
(* be.                                                                     *)
Own == Node \ displaced
KnownAtPath ==
  \A n \in Own, p \in Name : inode[n].path = p => child[p] = n \/ \E x \in Name : Moving(x, p) /\ child[x] = n
ChildrenAtPath ==
  \A n \in Own, x \in Name : child[x] = n => inode[n].path = x \/ \E y \in Name : Moving(x, y) /\ inode[n].path = y
MapAtPath == \A n \in Own, x \in Name : dirtyNodesMap[x] = n => inode[n].path = x

(* A dirty node that is known is in the map, or will be after the request  *)
(* under way.                                                              *)
InMap(x, n) ==
  \/ dirtyNodesMap[x] = n \/ Unlinking(x)
  \/ \E y \in Name : Moving(y, x) \/ (Moving(x, y) /\ dirtyNodesMap[y] = n)
DirtyInMap ==
  \A n \in Node, x \in Name : child[x] = n /\ F!Dirty(inode[n]) /\ ~Adding(n) => InMap(x, n)

(* The directory's requests find the names as they have left them.         *)
LeavesOK == \A x \in Name : Leaving(x) => child[x] # NoNode /\ \A n \in Node : child[x] = n => ~Changing(n)
MovesOK ==
  \A x, y \in Name : Moving(x, y) =>
    dirtyNodesMap[x] = NoNode /\ child[y] \in displaced \union {NoNode, child[x]}
UnlinksOK == \A x \in Name : Unlinking(x) => child[x] \in displaced \union {NoNode}
LookedOK == \A x \in Name, n \in Node : Looked(x, n) => dirtyNodesMap[x] = n

PathsOK ==
  /\ KnownAtPath /\ ChildrenAtPath /\ MapAtPath /\ DirtyInMap
  /\ LeavesOK /\ MovesOK /\ UnlinksOK /\ LookedOK

(* The names in the requests are names.                                    *)
LEMMA MovesAre ==
  ASSUME FilesOK
  PROVE  /\ \A x, y : Moving(x, y) => x \in Name /\ y \in Name /\ x # y /\ Leaving(x)
         /\ \A x, y, z, w : Moving(x, y) /\ Moving(z, w) => x = z /\ y = w
         /\ \A x, y, z : Moving(x, y) /\ Leaving(z) => x = z
         /\ \A x, y, z : Moving(x, y) => ~Unlinking(z)
         /\ \A x, z : Unlinking(x) => ~Leaving(z)
         /\ \A x, z : Unlinking(x) /\ Unlinking(z) => x = z
         /\ \A x, z : Leaving(x) /\ Leaving(z) => x = z
         /\ \A x : Unlinking(x) => x \in Name
<1>1. \A r \in requests : /\ r.stage = "moved" => r.kind = "rename" /\ r.name \in Name /\ r.to \in Name /\ r.name # r.to
                          /\ r.stage = "unlinked" => r.kind = "unlink" /\ r.name \in Name
  BY DEF FilesOK, FileTypes, RequestOK
<1>2. \A r, s \in requests : r.kind \in {"unlink", "rename"} /\ s.kind \in {"unlink", "rename"} => r = s
  BY DEF FilesOK, OneOfDir
<1> QED
  BY <1>1, <1>2 DEF Moving, Leaving, Unlinking

(* Only the requests on the directory matter to the names.                 *)
LEMMA SameMoves ==
  ASSUME FilesOK, FilesOK', \A r : IsDirRequest(r) => (r \in requests' <=> r \in requests)
  PROVE  \A x, y : /\ (Moving(x, y)' <=> Moving(x, y))
                  /\ (Unlinking(x)' <=> Unlinking(x))
                  /\ (Leaving(x)' <=> Leaving(x))
<1>1. \A r \in requests : r.stage \in {"moved", "unlinked"} \/ r.kind = "rename" => IsDirRequest(r)
  BY DEF FilesOK, FileTypes, RequestOK, IsDirRequest
<1>2. \A r \in requests' : r.stage \in {"moved", "unlinked"} \/ r.kind = "rename" => IsDirRequest(r)
  BY DEF FilesOK, FileTypes, RequestOK, IsDirRequest
<1> TAKE x, y
<1>3. Moving(x, y)' <=> Moving(x, y)
  BY <1>1, <1>2 DEF Moving
<1>4. Unlinking(x)' <=> Unlinking(x)
  BY <1>1, <1>2 DEF Unlinking
<1>5. Leaving(x)' <=> Leaving(x)
  BY <1>1, <1>2 DEF Leaving
<1> QED
  BY <1>3, <1>4, <1>5

LEMMA NoMoves ==
  ASSUME FilesOK, \A r \in requests : ~IsDirRequest(r)
  PROVE  \A x, y : ~Moving(x, y) /\ ~Unlinking(x) /\ ~Leaving(x)
<1>1. \A r \in requests : r.stage \in {"moved", "unlinked"} \/ r.kind = "rename" => IsDirRequest(r)
  BY DEF FilesOK, FileTypes, RequestOK, IsDirRequest
<1> QED
  BY <1>1 DEF Moving, Unlinking, Leaving

(* Steps that leave the names, the map and the paths as they are.          *)
QuietFile(n) ==
  /\ inode'[n].path = inode[n].path
  /\ (F!Dirty(inode'[n]) /\ ~Adding(n)') => (F!Dirty(inode[n]) /\ ~Adding(n))
QuietMoves == \A x, y : (Moving(x, y)' <=> Moving(x, y)) /\ (Unlinking(x)' <=> Unlinking(x))
Quiet ==
  /\ UNCHANGED <<child, dirtyNodesMap, displaced>>
  /\ \A n \in Node : QuietFile(n)
  /\ QuietMoves /\ LeavesOK' /\ LookedOK'

LEMMA QuietKeeps == ASSUME PathsOK, Quiet PROVE PathsOK'
<1>1. KnownAtPath' /\ ChildrenAtPath' /\ MapAtPath'
  BY DEF PathsOK, Quiet, QuietFile, QuietMoves, KnownAtPath, ChildrenAtPath, MapAtPath, Own
<1>2. DirtyInMap'
  <2> SUFFICES ASSUME NEW n \in Node, NEW x \in Name, child'[x] = n, F!Dirty(inode'[n]), ~Adding(n)'
               PROVE  InMap(x, n)'
    BY DEF DirtyInMap, F!Dirty
  <2>1. InMap(x, n)
    BY DEF PathsOK, Quiet, QuietFile, DirtyInMap
  <2> QED
    BY <2>1 DEF InMap, Quiet, QuietMoves
<1>3. LeavesOK' /\ MovesOK' /\ UnlinksOK' /\ LookedOK'
  BY DEF PathsOK, Quiet, QuietMoves, MovesOK, UnlinksOK
<1> QED
  BY <1>1, <1>2, <1>3 DEF PathsOK

(* The requests on files.                                                  *)
LEMMA Keepers ==
  ASSUME FilesOK
  PROVE  /\ \A r \in requests : r.kind \in {"write", "setattr"} => F!KeepsNode(r)
         /\ \A n : KeepersOf(n) = {} => ~Adding(n) /\ ~Changing(n)
         /\ \A n : \A r \in KeepersOf(n) : r.stage # "add" => ~Adding(n)
<1>1. \A r \in requests : r.kind \in {"write", "setattr"} => F!KeepsNode(r)
  BY DEF FilesOK, FileTypes, RequestOK, F!KeepsNode
<1>2. \A n : KeepersOf(n) = {} => ~Adding(n) /\ ~Changing(n)
  BY <1>1 DEF KeepersOf, Adding, Changing, F!KeepsNode
<1>3. \A n : \A r \in KeepersOf(n) : r.stage # "add" => ~Adding(n)
  BY DEF FilesOK, OneKeeper, KeepersOf, Adding, F!KeepsNode
<1> QED
  BY <1>1, <1>2, <1>3

(* A request that is not on the directory comes, goes or goes on.          *)
OffDir(Gone, T) ==
  /\ requests' = (requests \ Gone) \union T
  /\ \A r \in T \union (Gone \intersect requests) : ~IsDirRequest(r)
Quietly(t) ==
  /\ F!KeepsMap(t) => dirtyNodesMap[t.name] = t.node
  /\ t.kind \in {"write", "setattr"} =>
       t.node \in Node /\ (Changing(t.node) \/ \A x \in Name : Leaving(x) => child[x] # t.node)

LEMMA QuietIs ==
  ASSUME FilesOK, FilesOK', PathsOK, NEW Gone, NEW T, OffDir(Gone, T), \A t \in T : Quietly(t),
         UNCHANGED <<child, dirtyNodesMap, displaced>>, \A n \in Node : QuietFile(n)
  PROVE  PathsOK'
<1>1. \A x, y : /\ (Moving(x, y)' <=> Moving(x, y))
               /\ (Unlinking(x)' <=> Unlinking(x))
               /\ (Leaving(x)' <=> Leaving(x))
  BY SameMoves DEF OffDir
<1>2. ASSUME NEW x \in Name, Leaving(x)'
      PROVE  child[x] # NoNode /\ \A n \in Node : child[x] = n => ~Changing(n)'
  <2>1. Leaving(x) /\ child[x] # NoNode /\ \A n \in Node : child[x] = n => ~Changing(n)
    BY <1>1, <1>2 DEF PathsOK, LeavesOK
  <2>2. ASSUME NEW n \in Node, child[x] = n, NEW r \in requests', r.kind \in {"write", "setattr"}, r.node = n
        PROVE  FALSE
    <3>1. r \notin requests
      BY <2>1, <2>2 DEF Changing
    <3>2. r \in T /\ Quietly(r)
      BY <3>1 DEF OffDir
    <3> QED
      BY <2>1, <2>2, <3>2 DEF Quietly
  <2> QED
    BY <2>1, <2>2 DEF Changing
<1>3. ASSUME NEW x \in Name, NEW n \in Node, Looked(x, n)' PROVE dirtyNodesMap[x] = n
  <2>1. PICK r \in requests' : F!KeepsMap(r) /\ r.name = x /\ r.node = n
    BY <1>3 DEF Looked, F!KeepsMap
  <2>2. CASE r \in requests
    BY <2>1, <2>2 DEF PathsOK, LookedOK, Looked
  <2>3. CASE r \in T
    BY <2>1, <2>3 DEF Quietly
  <2> QED
    BY <2>2, <2>3 DEF OffDir
<1>4. QuietMoves
  BY <1>1 DEF QuietMoves
<1>5. LeavesOK'
  BY <1>2 DEF LeavesOK
<1>6. LookedOK'
  BY <1>3 DEF LookedOK
<1> QED
  BY <1>4, <1>5, <1>6, QuietKeeps DEF Quiet

OfFile(Gone, T, n) ==
  /\ requests' = (requests \ Gone) \union T
  /\ \A r \in T \union (Gone \intersect requests) : F!KeepsNode(r) => r.node = n

(* One file changes, and no other waits for the map's mutex than before.   *)
LEMMA QuietFiles ==
  ASSUME FilesOK, NEW Gone, NEW T, NEW n \in Node, OfFile(Gone, T, n),
         NEW g, inode' = [inode EXCEPT ![n] = g], g.path = inode[n].path,
         F!Dirty(g) /\ ~Adding(n)' => F!Dirty(inode[n]) /\ ~Adding(n)
  PROVE  \A m \in Node : QuietFile(m)
<1>1. inode'[n] = g /\ \A m \in Node \ {n} : inode'[m] = inode[m]
  BY DEF FilesOK, FileTypes
<1>2. ASSUME NEW m \in Node \ {n}, Adding(m) PROVE Adding(m)'
  <2>1. PICK r \in requests : r.stage = "add" /\ r.node = m
    BY <1>2 DEF Adding
  <2>2. F!KeepsNode(r)
    BY <2>1 DEF F!KeepsNode
  <2>3. r \in requests'
    BY <2>1, <2>2 DEF OfFile
  <2> QED
    BY <2>1, <2>3 DEF Adding
<1>3. ASSUME NEW m \in Node PROVE QuietFile(m)
  <2>1. CASE m = n
    BY <1>1, <2>1 DEF QuietFile
  <2>2. CASE m # n
    BY <1>1, <1>2, <2>2 DEF QuietFile
  <2> QED
    BY <2>1, <2>2
<1> QED
  BY <1>3

LEMMA OpensQuiet ==
  ASSUME FilesOK, FilesOK', PathsOK, NEW n \in Node, F!Open(n) \/ F!Read(n)
  PROVE  PathsOK'
<1>1. UNCHANGED <<child, dirtyNodesMap, requests, displaced>>
  BY DEF F!Open, F!Read, F!history
<1>2. inode[n] \in Files
  BY DEF FilesOK, FileTypes
<1>3. \E g : inode' = [inode EXCEPT ![n] = g] /\ g.path = inode[n].path /\ g.tmpFile = inode[n].tmpFile
  <2> DEFINE h == F!Opened(inode[n])
             k == IF inode[n].refCount = 0 THEN h ELSE inode[n]
             l == [k EXCEPT !.refCount = @ + 1]
  <2>1. h \in Files /\ h.path = inode[n].path /\ h.tmpFile = inode[n].tmpFile
    BY <1>2, FieldsAre
  <2>2. F!Read(n) => inode' = [inode EXCEPT ![n] = h]
    BY DEF F!Read
  <2>3. F!Open(n) => inode' = [inode EXCEPT ![n] = l]
    BY DEF F!Open
  <2> HIDE DEF h
  <2>4. k \in Files /\ k.path = inode[n].path /\ k.tmpFile = inode[n].tmpFile
    BY <1>2, <2>1
  <2> HIDE DEF k
  <2>5. l.path = inode[n].path /\ l.tmpFile = inode[n].tmpFile
    BY <2>4 DEF Files
  <2> QED
    BY <2>1, <2>2, <2>3, <2>5
<1>4. PICK g : inode' = [inode EXCEPT ![n] = g] /\ g.path = inode[n].path /\ g.tmpFile = inode[n].tmpFile
  BY <1>3
<1>5. OffDir({}, {}) /\ OfFile({}, {}, n)
  BY <1>1 DEF OffDir, OfFile
<1>6. F!Dirty(g) /\ ~Adding(n)' => F!Dirty(inode[n]) /\ ~Adding(n)
  <2>1. ~Adding(n)' => ~Adding(n)
    BY <1>1 DEF Adding
  <2> QED
    BY <1>4, <2>1 DEF F!Dirty
<1>7. \A m \in Node : QuietFile(m)
  BY <1>4, <1>5, <1>6, QuietFiles
<1> QED
  BY <1>1, <1>5, <1>7, QuietIs

LEMMA BeginsQuiet ==
  ASSUME FilesAreNamed, FilesOK, FilesOK', PathsOK, NEW n \in Node, NEW kind \in {"write", "setattr"}, NEW f,
         f.path = inode[n].path, F!Begins(n, kind, f)
  PROVE  PathsOK'
<1> DEFINE s == IF F!NewlyDirty(inode[n]) THEN "add" ELSE "flush"
           t == [F!Request(kind, s) EXCEPT !.node = n]
<1>1. /\ UNCHANGED <<child, dirtyNodesMap, displaced>> /\ F!InodeFree(n)
      /\ F!NodeFree(n) /\ inode' = [inode EXCEPT ![n] = f] /\ requests' = (requests \ {}) \union {t}
  BY DEF F!Begins, F!history, F!Arrives
<1>2. s \in {"add", "flush"} /\ (~F!Dirty(inode[n]) => s = "add")
  BY DEF F!NewlyDirty
<1> HIDE DEF s
<1>3. t = [kind |-> kind, stage |-> s, node |-> n, name |-> F!NoName, to |-> F!NoName, listed |-> {}]
  BY RequestIs
<1> HIDE DEF t
<1>4. t.kind = kind /\ t.stage = s /\ t.node = n
  BY ONLY <1>3
<1>5. ~F!KeepsMap(t) /\ ~IsDirRequest(t)
  BY <1>2, <1>4 DEF F!KeepsMap, IsDirRequest
<1>6. ~Adding(n)
  BY <1>1, NodeFreeIs, Keepers
<1>7. F!Dirty(f) /\ ~Adding(n)' => F!Dirty(inode[n]) /\ ~Adding(n)
  <2>1. s = "add" => Adding(n)'
    BY <1>1, <1>4 DEF Adding
  <2> QED
    BY <1>2, <1>6, <2>1
<1>8. OffDir({}, {t}) /\ OfFile({}, {t}, n)
  BY <1>1, <1>4, <1>5 DEF OffDir, OfFile
<1>10. \A m \in Node : QuietFile(m)
  BY <1>1, <1>7, <1>8, QuietFiles
<1>9. ASSUME NEW x \in Name, Leaving(x) PROVE child[x] # n
  <2>1. PICK r \in requests : r.kind = "rename" /\ r.name = x
    BY <1>9 DEF Leaving
  <2>2. x # F!NoName
    BY <2>1 DEF FilesOK, FileTypes, RequestOK, FilesAreNamed
  <2> QED
    BY <1>1, <2>1, <2>2 DEF F!InodeFree, F!Doing
<1>11. \A q \in {t} : Quietly(q)
  BY <1>4, <1>5, <1>9 DEF Quietly
<1> QED
  BY <1>1, <1>8, <1>10, <1>11, QuietIs

LEMMA WriteQuiet ==
  ASSUME FilesAreNamed, FilesOK, FilesOK', PathsOK, NEW n \in Node, F!Write(n)
  PROVE  PathsOK'
<1> DEFINE f == F!Editable(inode[n], FALSE)
<1>1. F!Begins(n, "write", f)
  BY DEF F!Write
<1>2. inode[n] \in Files /\ FALSE \in BOOLEAN
  BY DEF FilesOK, FileTypes
<1>3. f.path = inode[n].path
  BY <1>2, FieldsAre
<1> HIDE DEF f
<1> QED
  BY <1>1, <1>3, BeginsQuiet

LEMMA SetattrQuiet ==
  ASSUME FilesAreNamed, FilesOK, FilesOK', PathsOK, NEW n \in Node, NEW truncate \in BOOLEAN, F!Setattr(n, truncate)
  PROVE  PathsOK'
<1> DEFINE h == F!Opened(inode[n])
           f == F!Editable(h, truncate)
<1>1. F!Begins(n, "setattr", f)
  BY DEF F!Setattr
<1>2. h \in Files /\ h.path = inode[n].path
  BY FieldsAre DEF FilesOK, FileTypes
<1> HIDE DEF h
<1>3. f.path = h.path
  BY <1>2, FieldsAre
<1> HIDE DEF f
<1> QED
  BY <1>1, <1>2, <1>3, BeginsQuiet

(* Steps that change no file.                                              *)
LEMMA NoFileChanges ==
  ASSUME FilesOK, FilesOK', PathsOK, NEW Gone, NEW T, OffDir(Gone, T), \A t \in T : Quietly(t),
         \A r \in Gone \intersect requests : r.stage # "add",
         UNCHANGED <<inode, child, dirtyNodesMap, displaced>>
  PROVE  PathsOK'
<1>1. ASSUME NEW n \in Node, Adding(n) PROVE Adding(n)'
  BY <1>1 DEF Adding, OffDir
<1>2. \A n \in Node : QuietFile(n)
  BY <1>1 DEF QuietFile
<1> QED
  BY <1>2, QuietIs

LEMMA FlushQuiet ==
  ASSUME FilesOK, FilesOK', PathsOK, NEW n \in Node, NEW kind \in {"flush", "release"}, F!Flush(n, kind)
  PROVE  PathsOK'
<1> DEFINE t == [F!Request(kind, "flush") EXCEPT !.node = n]
<1>1. UNCHANGED <<inode, child, dirtyNodesMap, displaced>> /\ requests' = (requests \ {}) \union {t}
  BY DEF F!Flush, F!history, F!Arrives
<1>2. t.kind = kind /\ t.stage = "flush"
  BY DEF F!Request
<1> HIDE DEF t
<1>3. OffDir({}, {t}) /\ \A q \in {t} : Quietly(q)
  BY <1>1, <1>2 DEF OffDir, Quietly, F!KeepsMap, IsDirRequest
<1>4. \A r \in {} \intersect requests : r.stage # "add"
  OBVIOUS
<1> QED
  BY <1>1, <1>3, <1>4, NoFileChanges

LEMMA ReaddirQuiet ==
  ASSUME FilesOK, FilesOK', PathsOK, F!Readdir
  PROVE  PathsOK'
<1> DEFINE t == [F!Request("readdir", "list") EXCEPT !.listed = tree]
<1>1. UNCHANGED <<inode, child, dirtyNodesMap, displaced>> /\ requests' = (requests \ {}) \union {t}
  BY DEF F!Readdir, F!history, F!Arrives
<1>2. t.kind = "readdir" /\ t.stage = "list"
  BY DEF F!Request
<1> HIDE DEF t
<1>3. OffDir({}, {t}) /\ \A q \in {t} : Quietly(q)
  BY <1>1, <1>2 DEF OffDir, Quietly, F!KeepsMap, IsDirRequest
<1>4. \A r \in {} \intersect requests : r.stage # "add"
  OBVIOUS
<1> QED
  BY <1>1, <1>3, <1>4, NoFileChanges

LEMMA ReaddirDirtyQuiet ==
  ASSUME FilesOK, FilesOK', PathsOK, NEW r \in requests, F!ReaddirDirty(r)
  PROVE  PathsOK'
<1>1. /\ UNCHANGED <<inode, child, dirtyNodesMap, displaced>> /\ requests' = (requests \ {r}) \union {}
      /\ r.stage = "list"
  BY DEF F!ReaddirDirty, F!history, F!Answer
<1>2. ~IsDirRequest(r)
  BY <1>1 DEF FilesOK, FileTypes, RequestOK, IsDirRequest
<1>3. OffDir({r}, {}) /\ \A q \in {} : Quietly(q)
  BY <1>1, <1>2 DEF OffDir
<1>4. \A q \in {r} \intersect requests : q.stage # "add"
  BY <1>1
<1> QED
  BY <1>1, <1>3, <1>4, NoFileChanges

LEMMA OthersLinkQuiet ==
  ASSUME FilesOK, FilesOK', PathsOK, NEW x, F!OthersLink(x)
  PROVE  PathsOK'
<1>1. UNCHANGED <<inode, child, dirtyNodesMap, displaced>> /\ requests' = (requests \ {}) \union {}
  BY DEF F!OthersLink, F!history
<1>2. OffDir({}, {}) /\ (\A q \in {} : Quietly(q)) /\ \A r \in {} \intersect requests : r.stage # "add"
  BY <1>1 DEF OffDir
<1> QED
  BY <1>1, <1>2, NoFileChanges

(* A request on a file that is not the one that adds it to the map goes,   *)
(* or goes on, and has made nothing dirty that was not.                    *)
GoesTo(r, T) ==
  /\ F!KeepsNode(r) /\ r.stage # "add"
  /\ requests' = (requests \ {r}) \union T
  /\ \A t \in T : t.kind = r.kind /\ t.node = r.node /\ F!KeepsNode(t)

LEMMA KeeperQuiet ==
  ASSUME FilesAreNamed, FilesOK, FilesOK', PathsOK, NEW r \in requests, NEW T, GoesTo(r, T),
         NEW g, inode' = [inode EXCEPT ![r.node] = g], g.path = inode[r.node].path,
         F!Dirty(g) => F!Dirty(inode[r.node]), UNCHANGED <<child, dirtyNodesMap, displaced>>
  PROVE  PathsOK'
<1>1. r.node \in Node /\ ~F!KeepsMap(r) /\ ~IsDirRequest(r) /\ KeepersOf(r.node) = {r}
  BY KeeperIs DEF GoesTo
<1>2. ~Adding(r.node)
  BY <1>1, Keepers DEF GoesTo
<1>3. OffDir({r}, T)
  BY <1>1 DEF GoesTo, OffDir, IsDirRequest
<1>4. OfFile({r}, T, r.node)
  BY DEF GoesTo, OfFile
<1>5. \A n \in Node : QuietFile(n)
  BY <1>1, <1>2, <1>4, QuietFiles
<1>6. \A t \in T : Quietly(t)
  BY <1>1 DEF GoesTo, Quietly, F!KeepsMap, F!KeepsNode, Changing
<1> QED
  BY <1>3, <1>5, <1>6, QuietIs

LEMMA EditQuiet ==
  ASSUME FilesAreNamed, FilesOK, FilesOK', PathsOK, NEW r \in requests, F!Edit(r)
  PROVE  PathsOK'
<1> DEFINE g == [inode[r.node] EXCEPT !.tmpFile = @ \union {edits'}]
<1>1. /\ UNCHANGED <<child, dirtyNodesMap, displaced>> /\ r.kind = "write" /\ r.stage = "flush"
      /\ F!Ends(r, g) \/ F!Ends(r, inode[r.node])
  BY DEF F!Edit, F!history
<1>2. F!KeepsNode(r)
  BY <1>1 DEF F!KeepsNode
<1>3. r.node \in Node /\ inode[r.node] \in Files /\ KeepersOf(r.node) = {r} /\ SavedAt(r.node)
  BY <1>2, KeeperIs
<1>4. F!Dirty(inode[r.node])
  BY <1>1, <1>3 DEF SavedAt, F!Dirty
<1>5. g.path = inode[r.node].path
  BY <1>3 DEF Files
<1>6. \A f : F!Ends(r, f) => inode' = [inode EXCEPT ![r.node] = f] /\ requests' = requests \ {r}
  BY <1>1 DEF F!Ends, F!Answer
<1> HIDE DEF g
<1>7. GoesTo(r, {})
  BY <1>1, <1>2, <1>6 DEF GoesTo
<1>8. CASE F!Ends(r, g)
  BY <1>1, <1>4, <1>5, <1>6, <1>7, <1>8, KeeperQuiet
<1>9. CASE F!Ends(r, inode[r.node])
  BY <1>1, <1>4, <1>6, <1>7, <1>9, KeeperQuiet
<1> QED
  BY <1>1, <1>8, <1>9

LEMMA FlushesQuiet ==
  ASSUME FilesAreNamed, FilesOK, FilesOK', PathsOK, NEW r \in requests, F!Flushes(r)
  PROVE  PathsOK'
<1> DEFINE n == r.node
           f == inode[n]
           t == [r EXCEPT !.stage = "remove"]
<1>1. /\ r.stage = "flush"
      /\ UNCHANGED <<child, dirtyNodesMap, displaced>>
      /\ \/ ~F!Dirty(f) /\ F!Ends(r, f)
         \/ F!Dirty(f) /\ F!Ends(r, F!NotSaved(f))
         \/ inode' = [inode EXCEPT ![n] = F!Saved(f)] /\ F!GoesOn(r, t)
  BY DEF F!Flushes, F!history
<1>2. F!KeepsNode(r) /\ r.stage # "add"
  BY <1>1 DEF F!KeepsNode
<1>3. RequestOK(r) /\ n \in Node /\ f \in Files /\ KeepersOf(n) = {r} /\ SavedAt(n)
  BY <1>2, KeeperIs
<1>4. /\ F!Saved(f) \in Files /\ F!Saved(f).path = f.path /\ F!Saved(f).tmpFile = F!NoFile
      /\ F!NotSaved(f) \in Files /\ F!NotSaved(f).path = f.path /\ F!NotSaved(f).tmpFile = F!NoFile
      /\ F!NotSaved(f).refCount = f.refCount
  BY <1>3, FieldsAre
<1>5. r.kind = "release" => f.refCount > 0
  BY <1>3 DEF SavedAt
<1>6. ASSUME NEW h \in Files, h.tmpFile = F!NoFile, h.refCount = f.refCount, h.path = f.path, F!Ends(r, h)
      PROVE  PathsOK'
  <2>1. F!Answer(r) /\ \E g \in Files : inode' = [inode EXCEPT ![r.node] = g] /\ g.path = h.path /\ g.tmpFile = F!NoFile
    BY <1>5, <1>6, EndsIs
  <2>2. PICK g \in Files : inode' = [inode EXCEPT ![r.node] = g] /\ g.path = h.path /\ g.tmpFile = F!NoFile
    BY <2>1
  <2>3. GoesTo(r, {})
    BY <1>2, <2>1 DEF F!Answer, GoesTo
  <2>4. F!Dirty(g) => F!Dirty(inode[r.node])
    BY <2>2 DEF F!Dirty
  <2> QED
    BY <1>1, <1>6, <2>2, <2>3, <2>4, KeeperQuiet
<1>7. CASE ~F!Dirty(f) /\ F!Ends(r, f)
  BY <1>3, <1>6, <1>7 DEF F!Dirty
<1>8. CASE F!Dirty(f) /\ F!Ends(r, F!NotSaved(f))
  <2> HIDE DEF f
  <2> QED
    BY <1>4, <1>6, <1>8
<1>9. CASE inode' = [inode EXCEPT ![n] = F!Saved(f)] /\ F!GoesOn(r, t)
  <2>1. t.kind = r.kind /\ t.stage = "remove" /\ t.node = r.node /\ requests' = (requests \ {r}) \union {t}
    BY <1>3, <1>9, NextStage DEF F!GoesOn
  <2> DEFINE g == F!Saved(f)
  <2>2. g.path = inode[r.node].path /\ ~F!Dirty(g) /\ inode' = [inode EXCEPT ![r.node] = g]
    BY <1>4, <1>9 DEF F!Dirty
  <2> HIDE DEF g
  <2> HIDE DEF t
  <2>3. GoesTo(r, {t})
    BY <1>2, <2>1 DEF GoesTo, F!KeepsNode
  <2> QED
    BY <1>1, <2>2, <2>3, KeeperQuiet
<1> QED
  BY <1>1, <1>7, <1>8, <1>9
-----------------------------------------------------------------------------
(* Steps that change the map.                                              *)
LEMMA OthersAdding ==
  ASSUME NEW r, NEW T, requests' = (requests \ {r}) \union T, NEW m, m # r.node, Adding(m)
  PROVE  Adding(m)'
BY DEF Adding

(* The node of a path that is its own: where it is known.                  *)
LEMMA KnownAt ==
  ASSUME FilesOK, PathsOK, NEW n \in Own, n \in Named
  PROVE  /\ inode[n].path \in Name
         /\ child[inode[n].path] = n \/ \E z \in Name : Moving(z, inode[n].path) /\ child[z] = n
<1>1. inode[n].path \in Name
  BY DEF Own, Named, FilesOK, FileTypes, Files, Names
<1> QED
  BY <1>1 DEF PathsOK, KnownAtPath

LEMMA AddDirtyPaths ==
  ASSUME FilesAreNamed, FilesOK, FilesOK', PathsOK, NEW r \in requests, F!AddDirtyNode(r), ~clobbered'
  PROVE  PathsOK'
<1> DEFINE n == r.node
           p == inode[n].path
           t == [r EXCEPT !.stage = "flush"]
<1>1. /\ r.stage = "add" /\ F!MapFree /\ UNCHANGED <<inode, child, displaced>>
      /\ dirtyNodesMap' = [dirtyNodesMap EXCEPT ![p] = n]
      /\ requests' = (requests \ {r}) \union {t} /\ n \notin displaced
  BY DEF F!AddDirtyNode, F!GoesOn
<1>2. F!KeepsNode(r)
  BY <1>1 DEF F!KeepsNode
<1>3. RequestOK(r) /\ n \in Node /\ n \in Named /\ ~F!KeepsMap(r) /\ ~IsDirRequest(r)
  BY <1>2, KeeperIs
<1>4. t.kind = r.kind /\ t.stage = "flush" /\ t.node = n
  BY <1>3, NextStage
<1> HIDE DEF t
<1>5. \A x, y : /\ (Moving(x, y)' <=> Moving(x, y))
               /\ (Unlinking(x)' <=> Unlinking(x))
               /\ (Leaving(x)' <=> Leaving(x))
  <2>1. \A q : IsDirRequest(q) => (q \in requests' <=> q \in requests)
    BY <1>1, <1>3, <1>4 DEF IsDirRequest
  <2> QED
    BY <2>1, SameMoves
<1>6. n \in Own /\ n # NoNode /\ p \in Name /\ (child[p] = n \/ \E z \in Name : Moving(z, p) /\ child[z] = n)
  BY <1>1, <1>3, KnownAt DEF Own, FilesAreNamed
<1>7. \A m : Changing(m)' => Changing(m)
  BY <1>1, <1>4 DEF Changing
<1>8. Changing(n)
  BY <1>1, <1>3 DEF RequestOK, Changing
<1>9. \A m \in Node \ {n} : Adding(m) => Adding(m)'
  BY <1>1, OthersAdding
<1>10. \A x, m : ~Looked(x, m)'
  <2>1. \A q \in requests' : ~F!KeepsMap(q)
    BY <1>1, <1>4 DEF F!MapFree, F!KeepsMap
  <2> QED
    BY <2>1 DEF Looked, F!KeepsMap
<1>11. dirtyNodesMap'[p] = n /\ \A x \in Name \ {p} : dirtyNodesMap'[x] = dirtyNodesMap[x]
  BY <1>1, <1>6 DEF FilesOK, FileTypes
<1> HIDE DEF p
<1> HIDE DEF n
<1>12. inode[n].path = p
  BY DEF p
<1>13. ASSUME NEW x \in Name, Moving(x, p) PROVE child[x] = n
  <2>1. child[p] # n => child[x] = n
    BY <1>6, <1>13, MovesAre
  <2>2. child[p] = n => child[x] = n
    BY <1>6, <1>13 DEF PathsOK, MovesOK, Own
  <2> QED
    BY <2>1, <2>2
<1>14. KnownAtPath' /\ ChildrenAtPath' /\ UnlinksOK'
  <2>1. KnownAtPath'
    BY <1>1, <1>5 DEF PathsOK, KnownAtPath, Own
  <2>2. ChildrenAtPath'
    BY <1>1, <1>5 DEF PathsOK, ChildrenAtPath, Own
  <2>3. UnlinksOK'
    BY <1>1, <1>5 DEF PathsOK, UnlinksOK
  <2> QED
    BY <2>1, <2>2, <2>3
<1>15. MapAtPath'
  BY <1>1, <1>11, <1>12 DEF PathsOK, MapAtPath, Own
<1>16. DirtyInMap'
  <2> SUFFICES ASSUME NEW m \in Node, NEW x \in Name, child[x] = m, F!Dirty(inode[m]), ~Adding(m)'
               PROVE  InMap(x, m)'
    BY <1>1 DEF DirtyInMap
  <2>1. CASE m = n
    <3>1. p = x \/ Moving(x, p)
      BY <1>6, <1>12, <2>1 DEF PathsOK, ChildrenAtPath
    <3> QED
      BY <1>5, <1>6, <1>11, <2>1, <3>1 DEF InMap
  <2>2. CASE m # n
    <3>1. InMap(x, m)
      BY <1>9, <2>2 DEF PathsOK, DirtyInMap
    <3>2. CASE dirtyNodesMap[x] = m
      <4>1. x # p => dirtyNodesMap'[x] = m
        BY <1>11, <3>2
      <4>2. x = p => \E z \in Name : Moving(z, x)
        BY <1>6, <2>2
      <4> QED
        BY <1>5, <4>1, <4>2 DEF InMap
    <3>3. CASE Unlinking(x)
      BY <1>5, <3>3 DEF InMap
    <3>4. ASSUME NEW y \in Name, Moving(y, x) PROVE InMap(x, m)'
      BY <1>5, <3>4 DEF InMap
    <3>5. ASSUME NEW y \in Name, Moving(x, y), dirtyNodesMap[y] = m PROVE InMap(x, m)'
      <4>1. y # p
        BY <1>13, <2>2, <3>5
      <4>2. dirtyNodesMap'[y] = m
        BY <1>11, <3>5, <4>1
      <4> QED
        BY <1>5, <3>5, <4>2 DEF InMap
    <3> QED
      BY <3>1, <3>2, <3>3, <3>4, <3>5 DEF InMap
  <2> QED
    BY <2>1, <2>2
<1>17. LeavesOK'
  BY <1>1, <1>5, <1>7 DEF PathsOK, LeavesOK
<1>18. MovesOK'
  <2>1. ASSUME NEW x \in Name, NEW y \in Name, Moving(x, y) PROVE x # p
    <3>1. Leaving(x) /\ x # y
      BY <2>1, MovesAre
    <3>2. child[x] # n
      BY <1>3, <1>8, <3>1 DEF PathsOK, LeavesOK, n
    <3>3. ASSUME x = p, NEW z \in Name, Moving(z, p) PROVE FALSE
      BY <2>1, <3>1, <3>3, MovesAre
    <3> QED
      BY <1>6, <3>2, <3>3
  <2> QED
    BY <1>1, <1>5, <1>11, <2>1 DEF PathsOK, MovesOK
<1>19. LookedOK'
  BY <1>10 DEF LookedOK
<1> QED
  BY <1>14, <1>15, <1>16, <1>17, <1>18, <1>19 DEF PathsOK

LEMMA RemoveDirtyPaths ==
  ASSUME FilesAreNamed, FilesOK, FilesOK', PathsOK, NEW r \in requests, F!RemoveDirtyNode(r), ~clobbered'
  PROVE  PathsOK'
<1> DEFINE n == r.node
           p == inode[n].path
<1>1. /\ r.stage = "remove" /\ F!MapFree /\ UNCHANGED <<child, displaced>>
      /\ dirtyNodesMap' = [dirtyNodesMap EXCEPT ![p] = NoNode]
      /\ F!Ends(r, inode[n]) /\ n \notin displaced
  BY DEF F!RemoveDirtyNode
<1>2. F!KeepsNode(r) /\ (r.kind = "release" => r.kind # "setattr")
  BY <1>1 DEF F!KeepsNode
<1>3. /\ RequestOK(r) /\ n \in Node /\ n \in Named /\ ~F!KeepsMap(r) /\ ~IsDirRequest(r)
      /\ KeepersOf(n) = {r} /\ SavedAt(n) /\ inode[n] \in Files
  BY <1>2, KeeperIs
<1>4. inode[n].tmpFile = F!NoFile /\ (r.kind = "release" => inode[n].refCount > 0)
  BY <1>1, <1>2, <1>3 DEF SavedAt
<1>5. F!Answer(r) /\ \E g \in Files : inode' = [inode EXCEPT ![r.node] = g] /\ g.path = p /\ g.tmpFile = F!NoFile
  BY <1>1, <1>3, <1>4, EndsIs
<1>6. requests' = requests \ {r}
  BY <1>5 DEF F!Answer
<1>7. /\ inode'[n].path = p /\ ~F!Dirty(inode'[n])
      /\ \A m \in Node \ {n} : inode'[m] = inode[m]
  BY <1>3, <1>5 DEF FilesOK, FileTypes, F!Dirty
<1>8. \A x, y : /\ (Moving(x, y)' <=> Moving(x, y))
               /\ (Unlinking(x)' <=> Unlinking(x))
               /\ (Leaving(x)' <=> Leaving(x))
  <2>1. \A q : IsDirRequest(q) => (q \in requests' <=> q \in requests)
    BY <1>3, <1>6
  <2> QED
    BY <2>1, SameMoves
<1>9. n \in Own /\ n # NoNode /\ p \in Name /\ (child[p] = n \/ \E z \in Name : Moving(z, p) /\ child[z] = n)
  BY <1>1, <1>3, KnownAt DEF Own, FilesAreNamed
<1>10. \A m : Changing(m)' => Changing(m)
  BY <1>6 DEF Changing
<1>11. \A m \in Node \ {n} : Adding(m) => Adding(m)'
  <2>1. requests' = (requests \ {r}) \union {}
    BY <1>6
  <2> QED
    BY <2>1, OthersAdding
<1>12. \A x, m : ~Looked(x, m)'
  <2>1. \A q \in requests' : ~F!KeepsMap(q)
    BY <1>1, <1>6 DEF F!MapFree
  <2> QED
    BY <2>1 DEF Looked, F!KeepsMap
<1>13. dirtyNodesMap'[p] = NoNode /\ \A x \in Name \ {p} : dirtyNodesMap'[x] = dirtyNodesMap[x]
  BY <1>1, <1>9 DEF FilesOK, FileTypes
<1>14. \A m \in Node : inode'[m].path = inode[m].path
  BY <1>7
<1> HIDE DEF p
<1> HIDE DEF n
<1>15. ASSUME NEW x \in Name, Moving(x, p) PROVE child[x] = n
  <2>1. child[p] # n => child[x] = n
    BY <1>9, <1>15, MovesAre
  <2>2. child[p] = n => child[x] = n
    BY <1>9, <1>15 DEF PathsOK, MovesOK, Own
  <2> QED
    BY <2>1, <2>2
<1>16. KnownAtPath'
  BY <1>1, <1>8, <1>14 DEF PathsOK, KnownAtPath, Own
<1>17. ChildrenAtPath'
  BY <1>1, <1>8, <1>14 DEF PathsOK, ChildrenAtPath, Own
<1>18. MapAtPath'
  BY <1>1, <1>13, <1>14 DEF PathsOK, MapAtPath, Own, FilesAreNamed
<1>19. DirtyInMap'
  <2> SUFFICES ASSUME NEW m \in Node, NEW x \in Name, child[x] = m, F!Dirty(inode'[m]), ~Adding(m)'
               PROVE  InMap(x, m)'
    BY <1>1 DEF DirtyInMap, F!Dirty
  <2>1. m # n /\ inode'[m] = inode[m]
    BY <1>7
  <2>2. InMap(x, m)
    BY <1>11, <2>1 DEF PathsOK, DirtyInMap
  <2>3. CASE dirtyNodesMap[x] = m
    <3>1. x # p => dirtyNodesMap'[x] = m
      BY <1>13, <2>3
    <3>2. x = p => \E z \in Name : Moving(z, x)
      BY <1>9, <2>1
    <3> QED
      BY <1>8, <3>1, <3>2 DEF InMap
  <2>4. CASE Unlinking(x)
    BY <1>8, <2>4 DEF InMap
  <2>5. ASSUME NEW y \in Name, Moving(y, x) PROVE InMap(x, m)'
    BY <1>8, <2>5 DEF InMap
  <2>6. ASSUME NEW y \in Name, Moving(x, y), dirtyNodesMap[y] = m PROVE InMap(x, m)'
    <3>1. y # p
      BY <1>15, <2>1, <2>6
    <3>2. dirtyNodesMap'[y] = m
      BY <1>13, <2>6, <3>1
    <3> QED
      BY <1>8, <2>6, <3>2 DEF InMap
  <2> QED
    BY <2>2, <2>3, <2>4, <2>5, <2>6 DEF InMap
<1>20. LeavesOK'
  BY <1>1, <1>8, <1>10 DEF PathsOK, LeavesOK
<1>21. MovesOK'
  BY <1>1, <1>8, <1>13 DEF PathsOK, MovesOK
<1>22. UnlinksOK'
  BY <1>1, <1>8 DEF PathsOK, UnlinksOK
<1>23. LookedOK'
  BY <1>12 DEF LookedOK
<1> QED
  BY <1>16, <1>17, <1>18, <1>19, <1>20, <1>21, <1>22, <1>23 DEF PathsOK

(* A lookup that has found a node has it known by its path.                *)
LEMMA LookupDirtyPaths ==
  ASSUME FilesAreNamed, FilesOK, FilesOK', PathsOK, NEW r \in requests, F!LookupDirty(r), ~clobbered'
  PROVE  PathsOK'
<1> DEFINE n == r.node
           x == r.name
<1>1. /\ UNCHANGED <<inode, dirtyNodesMap, displaced>> /\ r.kind = "lookup" /\ F!NodeFree(n)
      /\ child' = [child EXCEPT ![x] = n] /\ requests' = requests \ {r} /\ n \notin displaced
  BY DEF F!LookupDirty, F!Answer
<1>2. r.stage = "node" /\ n \in Node /\ n \in Named /\ x \in Name /\ ~IsDirRequest(r) /\ F!KeepsMap(r)
  BY <1>1 DEF FilesOK, FileTypes, KnownOK, RequestOK, FilesAreNamed, IsDirRequest, F!KeepsMap
<1>3. n \in Own /\ n # NoNode
  BY <1>1, <1>2 DEF Own, FilesAreNamed
<1>4. dirtyNodesMap[x] = n
  BY <1>2 DEF PathsOK, LookedOK, Looked
<1>5. inode[n].path = x
  BY <1>2, <1>3, <1>4 DEF PathsOK, MapAtPath
<1>6. child[x] = n \/ \E z \in Name : Moving(z, x) /\ child[z] = n
  BY <1>2, <1>3, <1>5, KnownAt
<1>7. \A y, z : /\ (Moving(y, z)' <=> Moving(y, z))
               /\ (Unlinking(y)' <=> Unlinking(y))
               /\ (Leaving(y)' <=> Leaving(y))
  <2>1. \A q : IsDirRequest(q) => (q \in requests' <=> q \in requests)
    BY <1>1, <1>2
  <2> QED
    BY <2>1, SameMoves
<1>8. ~Adding(n) /\ ~Changing(n)
  BY <1>1, NodeFreeIs, Keepers
<1>9. \A m : (Changing(m)' => Changing(m)) /\ (Adding(m) => Adding(m)')
  BY <1>1, <1>2 DEF Changing, Adding
<1>10. \A y, m : ~Looked(y, m)'
  <2>1. \A q \in requests' : ~F!KeepsMap(q)
    BY <1>1, <1>2 DEF FilesOK, OneOfMap
  <2> QED
    BY <2>1 DEF Looked, F!KeepsMap
<1>11. child'[x] = n /\ \A y \in Name \ {x} : child'[y] = child[y]
  BY <1>1, <1>2 DEF FilesOK, FileTypes
<1> HIDE DEF n
<1> HIDE DEF x
<1>12. ASSUME NEW y \in Name, Moving(y, x) PROVE child[y] = n
  <2>1. child[x] # n => child[y] = n
    BY <1>6, <1>12, MovesAre
  <2>2. child[x] = n => child[y] = n
    BY <1>2, <1>3, <1>12 DEF PathsOK, MovesOK, Own
  <2> QED
    BY <2>1, <2>2
<1>13. ASSUME NEW y \in Name PROVE ~Moving(x, y)
  BY <1>2, <1>3, <1>4, <1>13 DEF PathsOK, MovesOK
<1>14. KnownAtPath'
  <2> SUFFICES ASSUME NEW m \in Own, NEW p \in Name, inode[m].path = p
               PROVE  child'[p] = m \/ \E y \in Name : Moving(y, p)' /\ child'[y] = m
    BY <1>1 DEF KnownAtPath, Own
  <2>1. CASE child[p] = m
    <3>1. p # x => child'[p] = m
      BY <1>11, <2>1
    <3>2. p = x => m = n
      <4>1. child[x] = n => (p = x => m = n)
        BY <2>1
      <4>2. ASSUME NEW z \in Name, Moving(z, x), child[z] = n, p = x PROVE m = n
        BY <2>1, <4>2 DEF PathsOK, MovesOK, Own, FilesAreNamed
      <4> QED
        BY <1>6, <4>1, <4>2
    <3> QED
      BY <1>11, <3>1, <3>2
  <2>2. ASSUME NEW y \in Name, Moving(y, p), child[y] = m PROVE Moving(y, p)' /\ child'[y] = m
    <3>1. y # x
      BY <1>13, <2>2
    <3> QED
      BY <1>7, <1>11, <2>2, <3>1
  <2> QED
    BY <2>1, <2>2 DEF PathsOK, KnownAtPath
<1>15. ChildrenAtPath'
  BY <1>1, <1>5, <1>7, <1>11 DEF PathsOK, ChildrenAtPath, Own
<1>16. MapAtPath'
  BY <1>1 DEF PathsOK, MapAtPath, Own
<1>17. DirtyInMap'
  <2> SUFFICES ASSUME NEW m \in Node, NEW y \in Name, child'[y] = m, F!Dirty(inode[m]), ~Adding(m)'
               PROVE  InMap(y, m)'
    BY <1>1 DEF DirtyInMap
  <2>1. CASE y = x
    BY <1>1, <1>4, <1>11, <2>1 DEF InMap
  <2>2. CASE y # x
    <3>1. InMap(y, m)
      BY <1>9, <1>11, <2>2 DEF PathsOK, DirtyInMap
    <3> QED
      BY <1>1, <1>7, <3>1 DEF InMap
  <2> QED
    BY <2>1, <2>2
<1>18. LeavesOK'
  BY <1>3, <1>7, <1>8, <1>9, <1>11 DEF PathsOK, LeavesOK
<1>19. MovesOK'
  <2> SUFFICES ASSUME NEW y \in Name, NEW z \in Name, Moving(y, z)
               PROVE  dirtyNodesMap'[y] = NoNode /\ child'[z] \in displaced' \union {NoNode, child'[y]}
    BY <1>7 DEF MovesOK
  <2>1. dirtyNodesMap[y] = NoNode /\ child[z] \in displaced \union {NoNode, child[y]} /\ y # x
    BY <1>13 DEF PathsOK, MovesOK
  <2>2. z = x => child[y] = n
    BY <1>12
  <2> QED
    BY <1>1, <1>11, <2>1, <2>2
<1>20. UnlinksOK'
  <2>1. ~Unlinking(x)
    <3>1. CASE child[x] = n
      BY <1>2, <1>3, <3>1 DEF PathsOK, UnlinksOK, Own, x
    <3>2. ASSUME NEW z \in Name, Moving(z, x) PROVE ~Unlinking(x)
      BY <3>2, MovesAre
    <3> QED
      BY <1>6, <3>1, <3>2
  <2> QED
    BY <1>1, <1>7, <1>11, <2>1 DEF PathsOK, UnlinksOK
<1>21. LookedOK'
  BY <1>10 DEF LookedOK
<1> QED
  BY <1>14, <1>15, <1>16, <1>17, <1>18, <1>19, <1>20, <1>21 DEF PathsOK
-----------------------------------------------------------------------------
(* Steps that give and take nodes.                                         *)
LEMMA LookupPaths ==
  ASSUME FilesAreNamed, FilesOK, FilesOK', PathsOK, NEW x \in Name, F!Lookup(x)
  PROVE  PathsOK'
<1> DEFINE t == [F!Request("lookup", "node") EXCEPT !.name = x, !.node = dirtyNodesMap[x]]
<1>1. /\ UNCHANGED <<dirtyNodesMap, displaced>> /\ F!MapFree
      /\ child[x] = NoNode => F!DirUnchanged
      /\ \/ requests' = requests \union {t} /\ UNCHANGED <<inode, child>>
         \/ /\ child[x] = NoNode /\ F!Nameable(x) /\ requests' = requests
            /\ \E n \in F!Fresh : inode' = [inode EXCEPT ![n].path = x] /\ child' = [child EXCEPT ![x] = n]
  BY DEF F!Lookup, F!history, F!Arrives
<1>2. CASE requests' = requests \union {t} /\ UNCHANGED <<inode, child>>
  <2>1. t = [kind |-> "lookup", stage |-> "node", node |-> dirtyNodesMap[x], name |-> x, to |-> F!NoName, listed |-> {}]
    BY LookupIs, Zenon
  <2> HIDE DEF t
  <2>2. t.kind = "lookup" /\ t.stage = "node" /\ t.node = dirtyNodesMap[x] /\ t.name = x
    BY ONLY <2>1
  <2>3. OffDir({}, {t}) /\ \A q \in {t} : Quietly(q)
    BY <1>2, <2>2 DEF OffDir, Quietly, IsDirRequest
  <2>4. \A r \in {} \intersect requests : r.stage # "add"
    OBVIOUS
  <2> QED
    BY <1>1, <1>2, <2>3, <2>4, NoFileChanges
<1>3. ASSUME NEW n \in F!Fresh, inode' = [inode EXCEPT ![n].path = x], child' = [child EXCEPT ![x] = n],
             child[x] = NoNode, F!Nameable(x), requests' = requests
      PROVE  PathsOK'
  <2>1. /\ n \in Node /\ n \notin Named /\ inode[n].tmpFile = F!NoFile
        /\ \A y \in Name : child[y] # n /\ dirtyNodesMap[y] # n
    BY FreshIs
  <2>2. /\ \A m \in Node : inode'[m].tmpFile = inode[m].tmpFile
        /\ \A m \in Node \ {n} : inode'[m] = inode[m]
        /\ inode'[n].path = x
    BY <1>3, <2>1, PathKeeps
  <2>3. \A y, z : ~Moving(y, z) /\ ~Unlinking(y) /\ ~Leaving(y)
    <3>1. \A r \in requests : ~IsDirRequest(r)
      BY <1>1, <1>3 DEF F!DirUnchanged, F!Doing, IsDirRequest
    <3> QED
      BY <3>1, NoMoves
  <2>4. \A y, z : ~Moving(y, z)' /\ ~Unlinking(y)' /\ ~Leaving(y)'
    BY <1>3, <2>3 DEF Moving, Unlinking, Leaving
  <2>5. \A y, m : ~Looked(y, m)' /\ (Adding(m)' <=> Adding(m))
    BY <1>1, <1>3 DEF Looked, F!MapFree, F!KeepsMap, Adding
  <2>6. child'[x] = n /\ \A y \in Name \ {x} : child'[y] = child[y]
    BY <1>3 DEF FilesOK, FileTypes
  <2>7. KnownAtPath'
    <3> SUFFICES ASSUME NEW m \in Own, NEW p \in Name, inode'[m].path = p PROVE child'[p] = m
      BY <1>1 DEF KnownAtPath, Own
    <3>1. CASE m = n
      BY <2>2, <2>6, <3>1
    <3>2. CASE m # n
      <4>1. inode[m].path = p /\ p # x
        BY <1>3, <2>2, <3>2 DEF F!Nameable, Own
      <4> QED
        BY <2>3, <2>6, <4>1 DEF PathsOK, KnownAtPath
    <3> QED
      BY <3>1, <3>2
  <2>8. ChildrenAtPath'
    BY <1>1, <2>1, <2>2, <2>3, <2>6 DEF PathsOK, ChildrenAtPath, Own
  <2>9. MapAtPath'
    BY <1>1, <2>1, <2>2 DEF PathsOK, MapAtPath, Own
  <2>10. DirtyInMap'
    <3> SUFFICES ASSUME NEW m \in Node, NEW y \in Name, child'[y] = m, F!Dirty(inode'[m]), ~Adding(m)'
                 PROVE  dirtyNodesMap'[y] = m
      BY DEF DirtyInMap, InMap, F!Dirty
    <3>1. m # n /\ F!Dirty(inode[m]) /\ ~Adding(m) /\ y # x
      BY <2>1, <2>2, <2>5, <2>6 DEF F!Dirty
    <3>2. InMap(y, m)
      BY <2>6, <3>1 DEF PathsOK, DirtyInMap
    <3> QED
      BY <1>1, <2>3, <3>2 DEF InMap
  <2>11. LeavesOK' /\ MovesOK' /\ UnlinksOK' /\ LookedOK'
    BY <2>4, <2>5 DEF LeavesOK, MovesOK, UnlinksOK, LookedOK
  <2> QED
    BY <2>7, <2>8, <2>9, <2>10, <2>11 DEF PathsOK
<1> QED
  BY <1>1, <1>2, <1>3

LEMMA CreatePaths ==
  ASSUME FilesAreNamed, FilesOK, FilesOK', PathsOK, NEW x \in Name, F!Create(x)
  PROVE  PathsOK'
<1>1. /\ UNCHANGED <<requests, displaced>> /\ F!MapFree /\ F!DirFree /\ F!Nameable(x) /\ child[x] = NoNode
      /\ \E n \in F!Fresh :
           /\ inode' = [inode EXCEPT ![n] = [F!Editable(F!Unused, TRUE) EXCEPT !.path = x, !.refCount = 1]]
           /\ child' = [child EXCEPT ![x] = n] /\ dirtyNodesMap' = [dirtyNodesMap EXCEPT ![x] = n]
  BY DEF F!Create, F!history
<1> DEFINE g == [F!Editable(F!Unused, TRUE) EXCEPT !.path = x, !.refCount = 1]
<1>2. g.path = x
  <2> DEFINE e == F!Editable(F!Unused, TRUE)
             u == [e EXCEPT !.path = x]
  <2>1. g = [u EXCEPT !.refCount = 1]
    BY Zenon
  <2>2. F!Unused \in Files /\ TRUE \in BOOLEAN
    BY DEF F!Unused, Files, Names, F!NoFile
  <2>3. e \in Files
    BY <2>2, FieldsAre
  <2> HIDE DEF e
  <2>4. u \in Files /\ u.path = x
    BY <2>3, PathIs
  <2> HIDE DEF u
  <2>5. [u EXCEPT !.refCount = 1].path = x
    BY <2>4 DEF Files
  <2> QED
    BY <2>1, <2>5, Zenon
<1> HIDE DEF g
<1>3. PICK n \in F!Fresh : /\ inode' = [inode EXCEPT ![n] = g] /\ child' = [child EXCEPT ![x] = n]
                          /\ dirtyNodesMap' = [dirtyNodesMap EXCEPT ![x] = n]
  BY <1>1 DEF g
<1>4. n \in Node /\ n \notin Named /\ \A y \in Name : child[y] # n /\ dirtyNodesMap[y] # n
  BY FreshIs
<1>5. inode'[n].path = x /\ \A m \in Node \ {n} : inode'[m] = inode[m]
  BY <1>2, <1>3, <1>4 DEF FilesOK, FileTypes
<1>6. \A y, z : ~Moving(y, z) /\ ~Unlinking(y) /\ ~Leaving(y)
  BY <1>1, NoDirRequest, NoMoves
<1>7. \A y, z : ~Moving(y, z)' /\ ~Unlinking(y)' /\ ~Leaving(y)'
  BY <1>1, <1>6 DEF Moving, Unlinking, Leaving
<1>8. \A y, m : ~Looked(y, m)' /\ (Adding(m)' <=> Adding(m))
  BY <1>1 DEF Looked, F!MapFree, F!KeepsMap, Adding
<1>9. /\ child'[x] = n /\ \A y \in Name \ {x} : child'[y] = child[y]
      /\ dirtyNodesMap'[x] = n /\ \A y \in Name \ {x} : dirtyNodesMap'[y] = dirtyNodesMap[y]
  BY <1>3 DEF FilesOK, FileTypes
<1>10. KnownAtPath'
  <2> SUFFICES ASSUME NEW m \in Own, NEW p \in Name, inode'[m].path = p PROVE child'[p] = m
    BY <1>1 DEF KnownAtPath, Own
  <2>1. CASE m = n
    BY <1>5, <1>9, <2>1
  <2>2. CASE m # n
    <3>1. inode[m].path = p /\ p # x
      BY <1>1, <1>5, <2>2 DEF F!Nameable, Own
    <3> QED
      BY <1>6, <1>9, <3>1 DEF PathsOK, KnownAtPath
  <2> QED
    BY <2>1, <2>2
<1>11. ChildrenAtPath'
  BY <1>1, <1>4, <1>5, <1>6, <1>9 DEF PathsOK, ChildrenAtPath, Own
<1>12. MapAtPath'
  BY <1>1, <1>4, <1>5, <1>9 DEF PathsOK, MapAtPath, Own
<1>13. DirtyInMap'
  <2> SUFFICES ASSUME NEW m \in Node, NEW y \in Name, child'[y] = m, F!Dirty(inode'[m]), ~Adding(m)'
               PROVE  dirtyNodesMap'[y] = m
    BY DEF DirtyInMap, InMap, F!Dirty
  <2>1. CASE y = x
    BY <1>9, <2>1
  <2>2. CASE y # x
    <3>1. m # n /\ F!Dirty(inode[m]) /\ ~Adding(m)
      BY <1>4, <1>5, <1>8, <1>9, <2>2
    <3>2. InMap(y, m)
      BY <1>9, <2>2, <3>1 DEF PathsOK, DirtyInMap
    <3> QED
      BY <1>6, <1>9, <2>2, <3>2 DEF InMap
  <2> QED
    BY <2>1, <2>2
<1>14. LeavesOK' /\ MovesOK' /\ UnlinksOK' /\ LookedOK'
  BY <1>7, <1>8 DEF LeavesOK, MovesOK, UnlinksOK, LookedOK
<1> QED
  BY <1>10, <1>11, <1>12, <1>13, <1>14 DEF PathsOK

LEMMA ForgetPaths ==
  ASSUME FilesAreNamed, FilesOK, FilesOK', PathsOK, NEW n \in Node, F!Forget(n)
  PROVE  PathsOK'
<1>1. /\ F!InodeFree(n) /\ \A x \in Name : dirtyNodesMap[x] # n
      /\ inode' = [inode EXCEPT ![n] = F!Unused]
      /\ child' = [x \in Name |-> IF child[x] = n THEN NoNode ELSE child[x]]
      /\ displaced' = displaced \ {n}
      /\ UNCHANGED <<dirtyNodesMap, requests>>
  BY DEF F!Forget
<1>2. F!Unused.path = F!NoName
  BY DEF F!Unused
<1>3. inode'[n].path = F!NoName /\ \A m \in Node \ {n} : inode'[m] = inode[m]
  BY <1>1, <1>2 DEF FilesOK, FileTypes
<1>4. \A x, y : /\ (Moving(x, y)' <=> Moving(x, y))
               /\ (Unlinking(x)' <=> Unlinking(x))
               /\ (Leaving(x)' <=> Leaving(x))
  BY <1>1, SameMoves
<1>5. \A x, m : /\ (Looked(x, m)' <=> Looked(x, m))
               /\ (Adding(m)' <=> Adding(m))
               /\ (Changing(m)' <=> Changing(m))
  BY <1>1 DEF Looked, Adding, Changing, F!KeepsMap
<1>6. \A x \in Name, m \in Node : child'[x] = m => child[x] = m /\ m # n
  BY <1>1 DEF FilesAreNamed
<1>7. \A x \in Name : child[x] # n => child'[x] = child[x]
  BY <1>1
<1>8. \A m \in Own \union {n} : m # n => m \in Own
  OBVIOUS
<1>9. Own' \subseteq Own \union {n}
  BY <1>1 DEF Own
<1>10. ASSUME NEW x \in Name, Leaving(x) PROVE child[x] # n
  <2>1. PICK r \in requests : r.kind = "rename" /\ r.name = x
    BY <1>10 DEF Leaving
  <2>2. x # F!NoName
    BY DEF FilesAreNamed
  <2> QED
    BY <1>1, <2>1, <2>2 DEF F!InodeFree, F!Doing
<1>11. KnownAtPath'
  <2> SUFFICES ASSUME NEW m \in Own, NEW p \in Name, m # n, inode[m].path = p
               PROVE  child'[p] = m \/ \E x \in Name : Moving(x, p) /\ child'[x] = m
    BY <1>3, <1>4, <1>9 DEF KnownAtPath, FilesAreNamed, Own
  <2> QED
    BY <1>7 DEF PathsOK, KnownAtPath
<1>12. ChildrenAtPath'
  <2> SUFFICES ASSUME NEW m \in Own', NEW x \in Name, child'[x] = m
               PROVE  inode'[m].path = x \/ \E y \in Name : Moving(x, y)' /\ inode'[m].path = y
    BY DEF ChildrenAtPath
  <2>1. m \in Own /\ child[x] = m /\ m # n /\ inode'[m] = inode[m]
    BY <1>3, <1>6, <1>9 DEF Own
  <2> QED
    BY <1>4, <2>1 DEF PathsOK, ChildrenAtPath
<1>13. MapAtPath'
  <2> SUFFICES ASSUME NEW m \in Own', NEW x \in Name, dirtyNodesMap[x] = m PROVE inode'[m].path = x
    BY <1>1 DEF MapAtPath
  <2>1. m \in Own /\ m # n /\ inode'[m] = inode[m]
    BY <1>1, <1>3, <1>9 DEF Own
  <2> QED
    BY <2>1 DEF PathsOK, MapAtPath
<1>14. DirtyInMap'
  <2> SUFFICES ASSUME NEW m \in Node, NEW x \in Name, child'[x] = m, F!Dirty(inode'[m]), ~Adding(m)'
               PROVE  InMap(x, m)'
    BY DEF DirtyInMap, F!Dirty
  <2>1. InMap(x, m)
    BY <1>3, <1>5, <1>6 DEF PathsOK, DirtyInMap
  <2> QED
    BY <1>1, <1>4, <2>1 DEF InMap
<1>15. LeavesOK'
  BY <1>4, <1>5, <1>6, <1>7, <1>10 DEF PathsOK, LeavesOK
<1>16. MovesOK'
  <2> SUFFICES ASSUME NEW x \in Name, NEW y \in Name, Moving(x, y)
               PROVE  dirtyNodesMap[x] = NoNode /\ child'[y] \in displaced' \union {NoNode, child'[x]}
    BY <1>1, <1>4 DEF MovesOK
  <2>1. dirtyNodesMap[x] = NoNode /\ child[y] \in displaced \union {NoNode, child[x]} /\ child'[x] = child[x]
    BY <1>7, <1>10, MovesAre DEF PathsOK, MovesOK
  <2>2. child[y] = n => child'[y] = NoNode
    BY <1>1
  <2>3. child[y] # n => child'[y] = child[y]
    BY <1>7
  <2> QED
    BY <1>1, <2>1, <2>2, <2>3
<1>17. UnlinksOK'
  BY <1>1, <1>4 DEF PathsOK, UnlinksOK
<1>18. LookedOK'
  BY <1>1, <1>5 DEF PathsOK, LookedOK
<1> QED
  BY <1>11, <1>12, <1>13, <1>14, <1>15, <1>16, <1>17, <1>18 DEF PathsOK

(* A request on the directory is the only one.                             *)
LEMMA OnlyMove ==
  ASSUME FilesOK', NEW t \in requests', IsDirRequest(t)
  PROVE  /\ \A x, y : Moving(x, y)' => (t.stage = "moved" /\ x = t.name /\ y = t.to)
         /\ \A x : Unlinking(x)' => (t.stage = "unlinked" /\ x = t.name)
         /\ \A x : Leaving(x)' => (t.kind = "rename" /\ x = t.name)
         /\ t.stage = "moved" => Moving(t.name, t.to)'
<1>1. \A r \in requests' : r.stage \in {"moved", "unlinked"} \/ r.kind = "rename" => IsDirRequest(r)
  BY DEF FilesOK, FileTypes, RequestOK, IsDirRequest
<1>2. \A r \in requests' : IsDirRequest(r) => r = t
  BY DEF FilesOK, OneOfDir, IsDirRequest
<1>3. t.stage = "moved" => Moving(t.name, t.to)'
  BY DEF Moving
<1>4. ASSUME NEW x, NEW y, Moving(x, y)' PROVE t.stage = "moved" /\ x = t.name /\ y = t.to
  BY <1>1, <1>2, <1>4 DEF Moving
<1>5. ASSUME NEW x, Unlinking(x)' PROVE t.stage = "unlinked" /\ x = t.name
  BY <1>1, <1>2, <1>5 DEF Unlinking
<1>6. ASSUME NEW x, Leaving(x)' PROVE t.kind = "rename" /\ x = t.name
  BY <1>1, <1>2, <1>6 DEF Leaving
<1> QED
  BY <1>3, <1>4, <1>5, <1>6

(* The only one on the directory is over.                                  *)
LEMMA MoveEnds ==
  ASSUME FilesOK, NEW r \in requests, IsDirRequest(r), requests' = requests \ {r}
  PROVE  \A x, y : ~Moving(x, y)' /\ ~Unlinking(x)' /\ ~Leaving(x)'
<1>1. \A q \in requests : q.stage \in {"moved", "unlinked"} \/ q.kind = "rename" => IsDirRequest(q)
  BY DEF FilesOK, FileTypes, RequestOK, IsDirRequest
<1>2. \A q \in requests' : ~IsDirRequest(q) /\ q \in requests
  BY DEF FilesOK, OneOfDir, IsDirRequest
<1> QED
  BY <1>1, <1>2 DEF Moving, Unlinking, Leaving

LEMMA UnlinkPaths ==
  ASSUME FilesAreNamed, FilesOK, FilesOK', PathsOK, NEW x \in Name, F!Unlink(x)
  PROVE  PathsOK'
<1> DEFINE t == [F!Request("unlink", "unlinked") EXCEPT !.name = x]
<1>1. /\ requests' = requests \union {t} /\ F!DirFree /\ displaced' = displaced \union ({child[x]} \ {NoNode})
      /\ UNCHANGED <<inode, child, dirtyNodesMap>>
  BY DEF F!Unlink, F!Arrives, F!Displaces
<1>2. t.kind = "unlink" /\ t.stage = "unlinked" /\ t.name = x
  BY DEF F!Request
<1> HIDE DEF t
<1>3. \A y, z : ~Moving(y, z) /\ ~Unlinking(y) /\ ~Leaving(y)
  BY <1>1, NoDirRequest, NoMoves
<1>4. \A y, z : ~Moving(y, z)' /\ ~Leaving(y)' /\ (Unlinking(y)' => y = x)
  BY <1>1, <1>2, OnlyMove DEF IsDirRequest
<1>5. \A y, m : /\ (Looked(y, m)' <=> Looked(y, m))
               /\ (Adding(m)' <=> Adding(m))
  BY <1>1, <1>2 DEF Looked, Adding, F!KeepsMap
<1>6. Own' \subseteq Own
  BY <1>1 DEF Own
<1>7. KnownAtPath' /\ ChildrenAtPath' /\ MapAtPath'
  BY <1>1, <1>3, <1>6 DEF PathsOK, KnownAtPath, ChildrenAtPath, MapAtPath
<1>8. DirtyInMap'
  BY <1>1, <1>3, <1>5 DEF PathsOK, DirtyInMap, InMap
<1>9. LeavesOK' /\ MovesOK' /\ UnlinksOK'
  BY <1>1, <1>4 DEF LeavesOK, MovesOK, UnlinksOK
<1>10. LookedOK'
  BY <1>1, <1>5 DEF PathsOK, LookedOK
<1> QED
  BY <1>7, <1>8, <1>9, <1>10 DEF PathsOK

LEMMA UnlinkEndsPaths ==
  ASSUME FilesAreNamed, FilesOK, FilesOK', PathsOK, NEW r \in requests, F!UnlinkEnds(r)
  PROVE  PathsOK'
<1> DEFINE x == r.name
<1>1. /\ r.stage = "unlinked" /\ F!MapFree /\ requests' = requests \ {r}
      /\ dirtyNodesMap' = [dirtyNodesMap EXCEPT ![x] = NoNode] /\ child' = [child EXCEPT ![x] = NoNode]
      /\ UNCHANGED <<inode, displaced>>
  BY DEF F!UnlinkEnds, F!Answer, F!history
<1>2. x \in Name /\ IsDirRequest(r) /\ Unlinking(x)
  BY <1>1 DEF FilesOK, FileTypes, RequestOK, IsDirRequest, Unlinking
<1>3. \A y, z : ~Moving(y, z) /\ (Unlinking(y) => y = x)
  BY <1>2, MovesAre
<1>4. \A y, z : ~Moving(y, z)' /\ ~Unlinking(y)' /\ ~Leaving(y)'
  BY <1>1, <1>2, MoveEnds
<1>5. \A y, m : ~Looked(y, m)' /\ (Adding(m)' <=> Adding(m))
  BY <1>1 DEF Looked, F!MapFree, F!KeepsMap, Adding
<1>6. /\ child'[x] = NoNode /\ \A y \in Name \ {x} : child'[y] = child[y]
      /\ dirtyNodesMap'[x] = NoNode /\ \A y \in Name \ {x} : dirtyNodesMap'[y] = dirtyNodesMap[y]
  BY <1>1, <1>2 DEF FilesOK, FileTypes
<1>7. child[x] \in displaced \union {NoNode}
  BY <1>2 DEF PathsOK, UnlinksOK
<1> HIDE DEF x
<1>8. KnownAtPath'
  BY <1>1, <1>3, <1>6, <1>7 DEF PathsOK, KnownAtPath, Own, FilesAreNamed
<1>9. ChildrenAtPath'
  BY <1>1, <1>3, <1>6 DEF PathsOK, ChildrenAtPath, Own, FilesAreNamed
<1>10. MapAtPath'
  BY <1>1, <1>6 DEF PathsOK, MapAtPath, Own, FilesAreNamed
<1>11. DirtyInMap'
  BY <1>1, <1>3, <1>5, <1>6 DEF PathsOK, DirtyInMap, InMap, FilesAreNamed
<1>12. LeavesOK' /\ MovesOK' /\ UnlinksOK' /\ LookedOK'
  BY <1>4, <1>5 DEF LeavesOK, MovesOK, UnlinksOK, LookedOK
<1> QED
  BY <1>8, <1>9, <1>10, <1>11, <1>12 DEF PathsOK

LEMMA RenamePaths ==
  ASSUME FilesAreNamed, FilesOK, FilesOK', PathsOK, NEW x \in Name, NEW y \in Name, F!Rename(x, y)
  PROVE  PathsOK'
<1> DEFINE t == [F!Request("rename", "node") EXCEPT !.name = x, !.to = y, !.node = dirtyNodesMap[x]]
           u == [F!Request("rename", "moved") EXCEPT !.name = x, !.to = y]
<1>1. /\ F!DirFree /\ F!MapFree /\ x # y /\ child[x] # NoNode /\ F!InodeFree(child[x])
      /\ UNCHANGED <<inode, child, dirtyNodesMap>>
      /\ \/ dirtyNodesMap[x] # NoNode /\ requests' = requests \union {t} /\ displaced' = displaced
         \/ /\ dirtyNodesMap[x] = NoNode /\ requests' = requests \union {u}
            /\ displaced' = displaced \union ({child[y]} \ {NoNode})
  BY DEF F!Rename, F!Arrives, F!Displaces
<1>2. t = [kind |-> "rename", stage |-> "node", node |-> dirtyNodesMap[x], name |-> x, to |-> y, listed |-> {}]
  <2> DEFINE v == [F!Request("rename", "node") EXCEPT !.name = x, !.to = y]
  <2>1. t = [v EXCEPT !.node = dirtyNodesMap[x]]
    OBVIOUS
  <2>2. v = [kind |-> "rename", stage |-> "node", node |-> NoNode, name |-> x, to |-> y, listed |-> {}]
    BY RenameIs, Zenon
  <2> HIDE DEF v
  <2>3. [v EXCEPT !.node = dirtyNodesMap[x]] =
          [kind |-> "rename", stage |-> "node", node |-> dirtyNodesMap[x], name |-> x, to |-> y, listed |-> {}]
    BY <2>2
  <2> QED
    BY <2>1, <2>3, Zenon
<1>3. u = [kind |-> "rename", stage |-> "moved", node |-> NoNode, name |-> x, to |-> y, listed |-> {}]
  BY RenameIs, Zenon
<1> HIDE DEF t
<1> HIDE DEF u
<1>4. t.kind = "rename" /\ t.stage = "node" /\ t.node = dirtyNodesMap[x] /\ t.name = x /\ t.to = y
  BY ONLY <1>2
<1>5. u.kind = "rename" /\ u.stage = "moved" /\ u.node = NoNode /\ u.name = x /\ u.to = y
  BY ONLY <1>3
<1>6. \A a, b : ~Moving(a, b) /\ ~Unlinking(a) /\ ~Leaving(a)
  BY <1>1, NoDirRequest, NoMoves
<1>7. \A a, m : ~Looked(a, m)
  BY <1>1 DEF Looked, F!MapFree, F!KeepsMap
<1>8. \A m : (Adding(m)' <=> Adding(m)) /\ (Changing(m)' <=> Changing(m))
  BY <1>1, <1>4, <1>5 DEF Adding, Changing
<1>9. \A a \in Name : Leaving(a)' => a = x
  BY <1>1, <1>4, <1>5, OnlyMove DEF IsDirRequest
<1>10. LeavesOK'
  <2>1. \A m \in Node : child[x] = m => ~Changing(m)
    BY <1>1 DEF F!InodeFree, F!At, Changing
  <2> QED
    BY <1>1, <1>8, <1>9, <2>1 DEF LeavesOK
<1>11. Own' \subseteq Own /\ displaced \subseteq displaced'
  BY <1>1 DEF Own
<1>12. KnownAtPath' /\ ChildrenAtPath' /\ MapAtPath'
  BY <1>1, <1>6, <1>11 DEF PathsOK, KnownAtPath, ChildrenAtPath, MapAtPath
<1>13. DirtyInMap'
  BY <1>1, <1>6, <1>8 DEF PathsOK, DirtyInMap, InMap
<1>14. MovesOK' /\ UnlinksOK'
  <2>1. CASE requests' = requests \union {t}
    <3>1. \A a, b : ~Moving(a, b)' /\ ~Unlinking(a)'
      BY <1>1, <1>4, <2>1, OnlyMove DEF IsDirRequest
    <3> QED
      BY <3>1 DEF MovesOK, UnlinksOK
  <2>2. CASE /\ dirtyNodesMap[x] = NoNode /\ requests' = requests \union {u}
             /\ displaced' = displaced \union ({child[y]} \ {NoNode})
    <3>1. \A a, b : ~Unlinking(a)' /\ (Moving(a, b)' => a = x /\ b = y)
      BY <1>1, <1>5, <2>2, OnlyMove DEF IsDirRequest
    <3> QED
      BY <1>1, <2>2, <3>1 DEF MovesOK, UnlinksOK
  <2> QED
    BY <1>1, <2>1, <2>2
<1>15. LookedOK'
  <2> SUFFICES ASSUME NEW a \in Name, NEW m \in Node, Looked(a, m)' PROVE dirtyNodesMap[a] = m
    BY <1>1 DEF LookedOK
  <2>1. PICK r \in requests' : F!KeepsMap(r) /\ r.name = a /\ r.node = m
    BY DEF Looked, F!KeepsMap
  <2>2. r \notin requests
    BY <1>1, <2>1 DEF F!MapFree
  <2>3. r = t \/ r = u
    BY <1>1, <2>2
  <2> QED
    BY <1>4, <1>5, <2>1, <2>3 DEF F!KeepsMap
<1> QED
  BY <1>10, <1>12, <1>13, <1>14, <1>15 DEF PathsOK

LEMMA RenameDirtyPaths ==
  ASSUME FilesAreNamed, FilesOK, FilesOK', PathsOK, NEW r \in requests, F!RenameDirty(r)
  PROVE  PathsOK'
<1> DEFINE n == r.node
           x == r.name
           y == r.to
           t == [r EXCEPT !.stage = "moved", !.node = NoNode]
<1>1. /\ r.kind = "rename" /\ r.stage = "node" /\ inode' = [inode EXCEPT ![n].path = y] /\ child' = child
      /\ \/ /\ dirtyNodesMap' = [dirtyNodesMap EXCEPT ![x] = NoNode, ![y] = n]
            /\ displaced' = displaced \union ({child[y]} \ {NoNode}) /\ requests' = (requests \ {r}) \union {t}
         \/ requests' = requests \ {r} /\ displaced' = displaced \union ({n} \ {NoNode}) /\ UNCHANGED dirtyNodesMap
  BY DEF F!RenameDirty, F!GoesOn, F!Answer, F!Displaces
<1>2. /\ RequestOK(r) /\ n \in Node /\ n \in Named /\ x \in Name /\ y \in Name /\ x # y
      /\ IsDirRequest(r) /\ F!KeepsMap(r)
  BY <1>1 DEF FilesOK, FileTypes, KnownOK, RequestOK, FilesAreNamed, IsDirRequest, F!KeepsMap
<1>3. /\ \A m \in Node : inode'[m].tmpFile = inode[m].tmpFile
      /\ \A m \in Node \ {n} : inode'[m] = inode[m]
      /\ inode'[n].path = y
  BY <1>1, <1>2, PathKeeps
<1>4. dirtyNodesMap[x] = n
  BY <1>2 DEF PathsOK, LookedOK, Looked
<1>5. \A a, b : ~Moving(a, b) /\ ~Unlinking(a)
  <2>1. \A q \in requests : q.stage \in {"moved", "unlinked"} => IsDirRequest(q)
    BY DEF FilesOK, FileTypes, RequestOK, IsDirRequest
  <2>2. \A q \in requests : q.stage \in {"moved", "unlinked"} => q = r
    BY <1>2, <2>1 DEF FilesOK, OneOfDir, IsDirRequest
  <2> QED
    BY <1>1, <2>2 DEF Moving, Unlinking
<1>6. Leaving(x)
  BY <1>1 DEF Leaving
<1>7. child[x] # NoNode /\ \A m \in Node : child[x] = m => ~Changing(m)
  BY <1>2, <1>6 DEF PathsOK, LeavesOK
<1>8. \A a \in Name : dirtyNodesMap[a] = n /\ n \in Own => a = x /\ inode[n].path = x
  BY <1>2, <1>4 DEF PathsOK, MapAtPath
<1>9. \A a \in Name, m \in Own : child[a] = m => inode[m].path = a
  BY <1>5 DEF PathsOK, ChildrenAtPath
<1>10. \A m \in Own, a \in Name : inode[m].path = a => child[a] = m
  BY <1>5 DEF PathsOK, KnownAtPath
<1>11. \A m \in Node, a \in Name : child[a] = m /\ F!Dirty(inode[m]) /\ ~Adding(m) => dirtyNodesMap[a] = m
  BY <1>5 DEF PathsOK, DirtyInMap, InMap
<1>12. \A m \in Node : F!Dirty(inode'[m]) <=> F!Dirty(inode[m])
  BY <1>3 DEF F!Dirty
<1>13. \A q \in requests : F!KeepsMap(q) => q = r
  BY <1>2 DEF FilesOK, OneOfMap
<1>14. CASE /\ dirtyNodesMap' = [dirtyNodesMap EXCEPT ![x] = NoNode, ![y] = n]
            /\ displaced' = displaced \union ({child[y]} \ {NoNode}) /\ requests' = (requests \ {r}) \union {t}
  <2>1. t.kind = "rename" /\ t.stage = "moved" /\ t.name = x /\ t.to = y
    <3> DEFINE u == [r EXCEPT !.stage = "moved"]
    <3>1. t = [u EXCEPT !.node = NoNode]
      BY Zenon
    <3>2. u = [kind |-> r.kind, stage |-> "moved", node |-> r.node, name |-> r.name, to |-> r.to, listed |-> r.listed]
      BY <1>2, NextStage
    <3> HIDE DEF u
    <3>3. [u EXCEPT !.node = NoNode] =
            [kind |-> r.kind, stage |-> "moved", node |-> NoNode, name |-> r.name, to |-> r.to, listed |-> r.listed]
      BY <3>2
    <3> HIDE DEF t
    <3>4. t = [kind |-> r.kind, stage |-> "moved", node |-> NoNode, name |-> r.name, to |-> r.to, listed |-> r.listed]
      BY <3>1, <3>3, Zenon
    <3>5. t.kind = r.kind /\ t.stage = "moved" /\ t.name = r.name /\ t.to = r.to
      BY ONLY <3>4
    <3> QED
      BY <1>1, <3>5
  <2> HIDE DEF t
  <2>2. Moving(x, y)'
    BY <1>14, <2>1 DEF Moving
  <2>3. \A a, b : (Moving(a, b)' => a = x /\ b = y) /\ ~Unlinking(a)' /\ (Leaving(a)' => a = x)
    <3>1. t \in requests' /\ IsDirRequest(t)
      BY <1>14, <2>1 DEF IsDirRequest
    <3> QED
      BY <2>1, <3>1, OnlyMove
  <2>4. \A m : (Adding(m) => Adding(m)') /\ (Changing(m)' => Changing(m))
    BY <1>1, <1>14, <2>1 DEF Adding, Changing
  <2>5. /\ dirtyNodesMap'[x] = NoNode /\ dirtyNodesMap'[y] = n
        /\ \A a \in Name \ {x, y} : dirtyNodesMap'[a] = dirtyNodesMap[a]
    BY <1>2, <1>14 DEF FilesOK, FileTypes
  <2>6. Own' \subseteq Own
    BY <1>14 DEF Own
  <2> HIDE DEF n
  <2> HIDE DEF x
  <2> HIDE DEF y
  <2>7. KnownAtPath'
    <3> SUFFICES ASSUME NEW m \in Own, NEW p \in Name, inode'[m].path = p
                 PROVE  child[p] = m \/ (Moving(x, p)' /\ child[x] = m)
      BY <1>1, <1>2, <2>6 DEF KnownAtPath
    <3>1. CASE m = n
      <4>1. p = y /\ inode[n].path = x
        BY <1>2, <1>3, <1>4, <1>8, <3>1
      <4> QED
        BY <1>2, <1>10, <2>2, <3>1, <4>1
    <3>2. CASE m # n
      <4>1. inode[m].path = p
        BY <1>3, <3>2 DEF Own
      <4> QED
        BY <1>10, <4>1
    <3> QED
      BY <3>1, <3>2
  <2>8. ChildrenAtPath'
    <3> SUFFICES ASSUME NEW m \in Own, NEW a \in Name, child[a] = m
                 PROVE  inode'[m].path = a \/ (Moving(a, y)' /\ inode'[m].path = y)
      BY <1>1, <1>2, <2>6 DEF ChildrenAtPath
    <3>1. CASE m = n
      <4>1. a = x
        BY <1>2, <1>4, <1>8, <1>9, <3>1
      <4> QED
        BY <1>3, <2>2, <3>1, <4>1
    <3>2. CASE m # n
      <4>1. inode'[m] = inode[m]
        BY <1>3, <3>2 DEF Own
      <4> QED
        BY <1>9, <4>1
    <3> QED
      BY <3>1, <3>2
  <2>9. MapAtPath'
    <3> SUFFICES ASSUME NEW m \in Own, NEW a \in Name, dirtyNodesMap'[a] = m PROVE inode'[m].path = a
      BY <2>6 DEF MapAtPath
    <3>1. CASE a = y
      BY <1>3, <2>5, <3>1
    <3>2. CASE a # y
      <4>1. a # x /\ dirtyNodesMap[a] = m
        BY <2>5, <3>2 DEF Own, FilesAreNamed
      <4>2. m # n
        BY <1>8, <4>1
      <4> QED
        BY <1>3, <4>1, <4>2 DEF PathsOK, MapAtPath, Own
    <3> QED
      BY <3>1, <3>2
  <2>10. DirtyInMap'
    <3> SUFFICES ASSUME NEW m \in Node, NEW a \in Name, child[a] = m, F!Dirty(inode'[m]), ~Adding(m)'
                 PROVE  InMap(a, m)'
      BY <1>1 DEF DirtyInMap, F!Dirty
    <3>1. dirtyNodesMap[a] = m
      BY <1>11, <1>12, <2>4
    <3>2. CASE a = y
      BY <1>2, <2>2, <3>2 DEF InMap
    <3>3. CASE a = x
      BY <1>2, <1>4, <2>2, <2>5, <3>1, <3>3 DEF InMap
    <3>4. CASE a \notin {x, y}
      BY <2>5, <3>1, <3>4 DEF InMap
    <3> QED
      BY <3>2, <3>3, <3>4
  <2>11. LeavesOK'
    BY <1>1, <1>7, <2>3, <2>4 DEF LeavesOK
  <2>12. MovesOK' /\ UnlinksOK'
    BY <1>1, <1>14, <2>3, <2>5 DEF MovesOK, UnlinksOK
  <2>13. LookedOK'
    <3>1. \A q \in requests' : ~F!KeepsMap(q)
      BY <1>13, <1>14, <2>1 DEF F!KeepsMap
    <3> QED
      BY <3>1 DEF LookedOK, Looked, F!KeepsMap
  <2> QED
    BY <2>7, <2>8, <2>9, <2>10, <2>11, <2>12, <2>13 DEF PathsOK
<1>15. CASE requests' = requests \ {r} /\ displaced' = displaced \union ({n} \ {NoNode}) /\ UNCHANGED dirtyNodesMap
  <2>1. \A a, b : ~Moving(a, b)' /\ ~Unlinking(a)' /\ ~Leaving(a)'
    BY <1>2, <1>15, MoveEnds
  <2>2. \A m : Adding(m) => Adding(m)'
    BY <1>1, <1>15 DEF Adding
  <2>3. Own' \subseteq Own \ {n}
    BY <1>2, <1>15 DEF Own, FilesAreNamed
  <2>4. \A m \in Own' : m \in Own /\ m # n /\ inode'[m] = inode[m]
    BY <1>3, <2>3 DEF Own
  <2> HIDE DEF n
  <2>5. KnownAtPath' /\ ChildrenAtPath'
    BY <1>1, <1>9, <1>10, <2>4 DEF KnownAtPath, ChildrenAtPath
  <2>6. MapAtPath'
    BY <1>15, <2>4 DEF PathsOK, MapAtPath
  <2>7. DirtyInMap'
    BY <1>1, <1>11, <1>12, <1>15, <2>2 DEF DirtyInMap, InMap, F!Dirty
  <2>8. LeavesOK' /\ MovesOK' /\ UnlinksOK'
    BY <2>1 DEF LeavesOK, MovesOK, UnlinksOK
  <2>9. LookedOK'
    <3>1. \A q \in requests' : ~F!KeepsMap(q)
      BY <1>13, <1>15
    <3> QED
      BY <3>1 DEF LookedOK, Looked, F!KeepsMap
  <2> QED
    BY <2>5, <2>6, <2>7, <2>8, <2>9 DEF PathsOK
<1> QED
  BY <1>1, <1>14, <1>15

LEMMA RenameEndsPaths ==
  ASSUME FilesAreNamed, FilesOK, FilesOK', PathsOK, NEW r \in requests, F!RenameEnds(r)
  PROVE  PathsOK'
<1> DEFINE x == r.name
           y == r.to
           n == child[x]
<1>1. /\ r.stage = "moved" /\ inode' = [inode EXCEPT ![n].path = y]
      /\ child' = [child EXCEPT ![x] = NoNode, ![y] = n] /\ requests' = requests \ {r}
      /\ UNCHANGED <<dirtyNodesMap, displaced>>
  BY DEF F!RenameEnds, F!Answer, F!history
<1>2. RequestOK(r) /\ x \in Name /\ y \in Name /\ x # y /\ IsDirRequest(r) /\ Moving(x, y)
  BY <1>1 DEF FilesOK, FileTypes, RequestOK, IsDirRequest, Moving
<1>3. \A a, b : (Moving(a, b) => a = x /\ b = y) /\ ~Unlinking(a)
  BY <1>2, MovesAre
<1>4. \A a, b : ~Moving(a, b)' /\ ~Unlinking(a)' /\ ~Leaving(a)'
  BY <1>1, <1>2, MoveEnds
<1>5. n \in Node
  <2>1. Leaving(x)
    BY <1>2, MovesAre
  <2> QED
    BY <1>2, <2>1 DEF PathsOK, LeavesOK, FilesOK, FileTypes
<1>6. dirtyNodesMap[x] = NoNode /\ child[y] \in displaced \union {NoNode, n}
  BY <1>2 DEF PathsOK, MovesOK
<1>7. /\ \A m \in Node : inode'[m].tmpFile = inode[m].tmpFile
      /\ \A m \in Node \ {n} : inode'[m] = inode[m]
      /\ inode'[n].path = y
  BY <1>1, <1>2, <1>5, PathKeeps
<1>8. child'[x] = NoNode /\ child'[y] = n /\ \A a \in Name \ {x, y} : child'[a] = child[a]
  BY <1>1, <1>2 DEF FilesOK, FileTypes
<1>9. \A m, a : (Adding(m) => Adding(m)') /\ (Looked(a, m)' => Looked(a, m))
  BY <1>1 DEF Adding, Looked, F!KeepsMap
<1>10. child[x] = n
  OBVIOUS
<1> HIDE DEF n
<1> HIDE DEF x
<1> HIDE DEF y
<1>11. ASSUME n \in Own, NEW a \in Name, child[a] = n PROVE a \in {x, y}
  <2>1. inode[n].path = x \/ inode[n].path = y
    BY <1>2, <1>3, <1>10, <1>11 DEF PathsOK, ChildrenAtPath
  <2>2. inode[n].path = a \/ a = x
    BY <1>3, <1>11 DEF PathsOK, ChildrenAtPath
  <2> QED
    BY <2>1, <2>2
<1>12. KnownAtPath'
  <2> SUFFICES ASSUME NEW m \in Own, NEW p \in Name, inode'[m].path = p PROVE child'[p] = m
    BY <1>1 DEF KnownAtPath, Own
  <2>1. CASE m = n
    BY <1>7, <1>8, <2>1
  <2>2. CASE m # n
    <3>1. inode[m].path = p
      BY <1>7, <2>2 DEF Own
    <3>2. child[p] = m
      BY <1>3, <1>10, <2>2, <3>1 DEF PathsOK, KnownAtPath
    <3>3. p # x /\ p # y
      BY <1>6, <1>10, <2>2, <3>2 DEF Own, FilesAreNamed
    <3> QED
      BY <1>8, <3>2, <3>3
  <2> QED
    BY <2>1, <2>2
<1>13. ChildrenAtPath'
  <2> SUFFICES ASSUME NEW m \in Own, NEW a \in Name, child'[a] = m PROVE inode'[m].path = a
    BY <1>1 DEF ChildrenAtPath, Own
  <2>1. CASE a = y
    BY <1>7, <1>8, <2>1
  <2>2. CASE a # y
    <3>1. a # x /\ child[a] = m
      BY <1>8, <2>2 DEF Own, FilesAreNamed
    <3>2. m # n
      BY <1>11, <2>2, <3>1
    <3>3. inode[m].path = a
      BY <1>3, <3>1 DEF PathsOK, ChildrenAtPath
    <3> QED
      BY <1>7, <3>2, <3>3 DEF Own
  <2> QED
    BY <2>1, <2>2
<1>14. MapAtPath'
  <2> SUFFICES ASSUME NEW m \in Own, NEW a \in Name, dirtyNodesMap[a] = m PROVE inode'[m].path = a
    BY <1>1 DEF MapAtPath, Own
  <2>1. inode[m].path = a
    BY DEF PathsOK, MapAtPath
  <2>2. CASE m = n
    <3>1. a = x \/ a = y
      BY <1>2, <1>3, <1>10, <2>1, <2>2 DEF PathsOK, ChildrenAtPath
    <3>2. a # x
      BY <1>6 DEF Own, FilesAreNamed
    <3> QED
      BY <1>7, <2>2, <3>1, <3>2
  <2>3. CASE m # n
    BY <1>7, <2>1, <2>3 DEF Own
  <2> QED
    BY <2>2, <2>3
<1>15. DirtyInMap'
  <2> SUFFICES ASSUME NEW m \in Node, NEW a \in Name, child'[a] = m, F!Dirty(inode'[m]), ~Adding(m)'
               PROVE  dirtyNodesMap[a] = m
    BY <1>1 DEF DirtyInMap, InMap, F!Dirty
  <2>1. F!Dirty(inode[m]) /\ ~Adding(m)
    BY <1>7, <1>9 DEF F!Dirty
  <2>2. CASE a = y
    <3>1. m = n
      BY <1>8, <2>2
    <3>2. InMap(x, n)
      BY <1>2, <1>10, <2>1, <3>1 DEF PathsOK, DirtyInMap
    <3> QED
      BY <1>2, <1>3, <1>5, <1>6, <2>2, <3>1, <3>2 DEF InMap, FilesAreNamed
  <2>3. CASE a # y
    <3>1. a # x /\ child[a] = m
      BY <1>8, <2>3 DEF FilesAreNamed
    <3>2. InMap(a, m)
      BY <2>1, <3>1 DEF PathsOK, DirtyInMap
    <3> QED
      BY <1>3, <2>3, <3>1, <3>2 DEF InMap
  <2> QED
    BY <2>2, <2>3
<1>16. LeavesOK' /\ MovesOK' /\ UnlinksOK'
  BY <1>4 DEF LeavesOK, MovesOK, UnlinksOK
<1>17. LookedOK'
  BY <1>1, <1>9 DEF PathsOK, LookedOK
<1> QED
  BY <1>12, <1>13, <1>14, <1>15, <1>16, <1>17 DEF PathsOK
-----------------------------------------------------------------------------
MountInv == FilesOK /\ (~clobbered => PathsOK)

LEMMA MountInit == FilesAreNamed /\ F!Init => MountInv
<1> SUFFICES ASSUME FilesAreNamed, F!Init PROVE MountInv
  OBVIOUS
<1>1. /\ inode = [n \in Node |-> F!Unused] /\ child = [x \in Name |-> NoNode]
      /\ dirtyNodesMap = [x \in Name |-> NoNode] /\ requests = {}
  BY DEF F!Init
<1>2. \A n \in Node, x \in Name : inode[n].path # x /\ child[x] # n /\ dirtyNodesMap[x] # n
  BY <1>1 DEF F!Unused, FilesAreNamed
<1>3. KnownAtPath /\ ChildrenAtPath /\ MapAtPath /\ DirtyInMap
  BY <1>2 DEF KnownAtPath, ChildrenAtPath, MapAtPath, DirtyInMap, Own
<1>4. LeavesOK /\ MovesOK /\ UnlinksOK /\ LookedOK
  BY <1>1 DEF LeavesOK, MovesOK, UnlinksOK, LookedOK, Leaving, Moving, Unlinking, Looked
<1> QED
  BY <1>3, <1>4, FilesInit DEF MountInv, PathsOK

LEMMA PathsStep ==
  ASSUME FilesAreNamed, FilesOK, FilesOK', PathsOK, F!Next, ~clobbered'
  PROVE  PathsOK'
<1>1. ASSUME NEW n \in Node, F!Open(n) \/ F!Read(n) PROVE PathsOK'
  BY <1>1, OpensQuiet
<1>2. ASSUME NEW n \in Node, F!Write(n) PROVE PathsOK'
  BY <1>2, WriteQuiet
<1>3. ASSUME NEW n \in Node, F!Forget(n) PROVE PathsOK'
  BY <1>3, ForgetPaths
<1>4. ASSUME NEW n \in Node, NEW truncate \in BOOLEAN, F!Setattr(n, truncate) PROVE PathsOK'
  BY <1>4, SetattrQuiet
<1>5. ASSUME NEW n \in Node, NEW kind \in {"flush", "release"}, F!Flush(n, kind) PROVE PathsOK'
  BY <1>5, FlushQuiet
<1>6. ASSUME NEW x \in Name, F!Lookup(x) PROVE PathsOK'
  BY <1>6, LookupPaths
<1>7. ASSUME NEW x \in Name, F!Create(x) PROVE PathsOK'
  BY <1>7, CreatePaths
<1>8. ASSUME NEW x \in Name, F!Unlink(x) PROVE PathsOK'
  BY <1>8, UnlinkPaths
<1>9. ASSUME NEW x \in Name, NEW y \in Name, F!Rename(x, y) PROVE PathsOK'
  BY <1>9, RenamePaths
<1>10. ASSUME F!Readdir PROVE PathsOK'
  BY <1>10, ReaddirQuiet
<1>11. ASSUME NEW r \in requests, F!Proceeds(r) PROVE PathsOK'
  <2>1. CASE F!AddDirtyNode(r)
    BY <2>1, AddDirtyPaths
  <2>2. CASE F!Edit(r)
    BY <2>2, EditQuiet
  <2>3. CASE F!Flushes(r)
    BY <2>3, FlushesQuiet
  <2>4. CASE F!RemoveDirtyNode(r)
    BY <2>4, RemoveDirtyPaths
  <2>5. CASE F!LookupDirty(r)
    BY <2>5, LookupDirtyPaths
  <2>6. CASE F!ReaddirDirty(r)
    BY <2>6, ReaddirDirtyQuiet
  <2>7. CASE F!UnlinkEnds(r)
    BY <2>7, UnlinkEndsPaths
  <2>8. CASE F!RenameDirty(r)
    BY <2>8, RenameDirtyPaths
  <2>9. CASE F!RenameEnds(r)
    BY <2>9, RenameEndsPaths
  <2> QED
    BY <1>11, <2>1, <2>2, <2>3, <2>4, <2>5, <2>6, <2>7, <2>8, <2>9 DEF F!Proceeds
<1>12. ASSUME NEW x, F!OthersLink(x) PROVE PathsOK'
  BY <1>12, OthersLinkQuiet
<1> QED
  BY <1>1, <1>2, <1>3, <1>4, <1>5, <1>6, <1>7, <1>8, <1>9, <1>10, <1>11, <1>12 DEF F!Next

(* A displaced node that was found by its path stays so.                   *)
LEMMA ClobberedStays ==
  ASSUME [F!Next]_(F!mountVars)
  PROVE  clobbered => clobbered'
<1>1. CASE F!Next
  <2>1. ASSUME NEW n \in Node, F!Open(n) \/ F!Read(n) \/ F!Write(n) \/ F!Forget(n) PROVE clobbered' = clobbered
    BY <2>1 DEF F!Open, F!Read, F!Write, F!Begins, F!Forget, F!history
  <2>2. ASSUME NEW n \in Node, NEW truncate \in BOOLEAN, F!Setattr(n, truncate) PROVE clobbered' = clobbered
    BY <2>2 DEF F!Setattr, F!Begins, F!history
  <2>3. ASSUME NEW n \in Node, NEW kind, F!Flush(n, kind) PROVE clobbered' = clobbered
    BY <2>3 DEF F!Flush, F!history
  <2>4. ASSUME NEW x \in Name, F!Lookup(x) \/ F!Create(x) \/ F!Unlink(x) PROVE clobbered' = clobbered
    BY <2>4 DEF F!Lookup, F!Create, F!Unlink, F!history
  <2>5. ASSUME NEW x \in Name, NEW y \in Name, F!Rename(x, y) PROVE clobbered' = clobbered
    BY <2>5 DEF F!Rename
  <2>6. ASSUME F!Readdir PROVE clobbered' = clobbered
    BY <2>6 DEF F!Readdir, F!history
  <2>7. ASSUME NEW r \in requests, F!AddDirtyNode(r) \/ F!RemoveDirtyNode(r) \/ F!LookupDirty(r)
        PROVE  clobbered => clobbered'
    BY <2>7 DEF F!AddDirtyNode, F!RemoveDirtyNode, F!LookupDirty
  <2>8. ASSUME NEW r \in requests, F!Edit(r) \/ F!Flushes(r) \/ F!ReaddirDirty(r) PROVE clobbered' = clobbered
    BY <2>8 DEF F!Edit, F!Flushes, F!ReaddirDirty, F!history
  <2>9. ASSUME NEW r \in requests, F!UnlinkEnds(r) \/ F!RenameDirty(r) \/ F!RenameEnds(r)
        PROVE  clobbered' = clobbered
    BY <2>9 DEF F!UnlinkEnds, F!RenameDirty, F!RenameEnds, F!history
  <2>10. ASSUME NEW x, F!OthersLink(x) PROVE clobbered' = clobbered
    BY <2>10 DEF F!OthersLink, F!history
  <2> QED
    BY <1>1, <2>1, <2>2, <2>3, <2>4, <2>5, <2>6, <2>7, <2>8, <2>9, <2>10 DEF F!Next, F!Proceeds
<1>2. CASE UNCHANGED F!mountVars
  BY <1>2 DEF F!mountVars
<1> QED
  BY <1>1, <1>2

LEMMA MountStep == FilesAreNamed /\ MountInv /\ [F!Next]_(F!mountVars) => MountInv'
<1> SUFFICES ASSUME FilesAreNamed, MountInv, [F!Next]_(F!mountVars) PROVE MountInv'
  OBVIOUS
<1>1. FilesOK /\ FilesOK'
  BY FilesStep DEF MountInv
<1>2. ASSUME ~clobbered' PROVE PathsOK'
  <2>1. PathsOK
    BY <1>2, ClobberedStays DEF MountInv
  <2>2. CASE F!Next
    BY <1>1, <1>2, <2>1, <2>2, PathsStep
  <2>3. CASE UNCHANGED F!mountVars
    <3>1. UNCHANGED <<inode, child, dirtyNodesMap, requests, displaced>>
      BY <2>3 DEF F!mountVars
    <3>2. /\ KnownAtPath' = KnownAtPath /\ ChildrenAtPath' = ChildrenAtPath
          /\ MapAtPath' = MapAtPath /\ DirtyInMap' = DirtyInMap
      BY <3>1 DEF KnownAtPath, ChildrenAtPath, MapAtPath, DirtyInMap, Own, InMap, Moving, Unlinking, Adding, F!Dirty
    <3>3. LeavesOK' = LeavesOK /\ MovesOK' = MovesOK /\ UnlinksOK' = UnlinksOK /\ LookedOK' = LookedOK
      BY <3>1 DEF LeavesOK, MovesOK, UnlinksOK, LookedOK, Leaving, Moving, Unlinking, Changing, Looked, F!KeepsMap
    <3> QED
      BY <2>1, <3>2, <3>3 DEF PathsOK
  <2> QED
    BY <2>2, <2>3
<1> QED
  BY <1>1, <1>2 DEF MountInv

LEMMA MountHolds == FilesAreNamed /\ MountInv => EditsAreKept
<1> SUFFICES ASSUME FilesAreNamed, MountInv PROVE EditsAreKept
  OBVIOUS
<1>1. \A n \in Node : unsaved[n] # {} => inode[n].tmpFile # F!NoFile /\ unsaved[n] \subseteq inode[n].tmpFile
  BY DEF MountInv, FilesOK, SavedOK, SavedAt
<1>2. ASSUME ~clobbered, NEW x \in Name, NEW n, n = child[x], n # NoNode,
             F!Dirty(inode[n]), F!At(n) = {}, F!InodeFree(n)
      PROVE  dirtyNodesMap[x] = n
  <2>1. FilesOK /\ PathsOK /\ n \in Node
    BY <1>2 DEF MountInv, FilesOK, FileTypes
  <2>2. ~Adding(n)
    BY <1>2 DEF Adding, F!At
  <2>3. InMap(x, n)
    BY <1>2, <2>1, <2>2 DEF PathsOK, DirtyInMap
  <2>4. \A r \in requests : r.kind \in {"unlink", "rename"} =>
          /\ r.name \in Name => r.name # x
          /\ r.to \in Name => r.to # x
    BY <1>2 DEF F!InodeFree, F!Doing, FilesAreNamed
  <2>5. \A r \in requests : /\ r.stage = "moved" => r.kind = "rename" /\ r.name \in Name /\ r.to \in Name
                            /\ r.stage = "unlinked" => r.kind = "unlink" /\ r.name \in Name
    BY <2>1 DEF FilesOK, FileTypes, RequestOK
  <2>6. ~Unlinking(x) /\ \A y : ~Moving(y, x) /\ ~Moving(x, y)
    BY <2>4, <2>5 DEF Unlinking, Moving
  <2> QED
    BY <2>3, <2>6 DEF InMap
<1> QED
  BY <1>1, <1>2 DEF EditsAreKept, F!EditsAreKept

(* flush, openTmpFile, Release and Lookup: whoever closes, saves, moves    *)
(* and changes a file in whatever order, an edit of it is in the temporary *)
(* file until it is linked or reported as lost, and the name leads to it   *)
(* until a file that was unlinked or replaced has been saved over it.      *)
THEOREM EditsStayKept == FilesAreNamed => (F!Spec => []EditsAreKept)
<1> SUFFICES ASSUME FilesAreNamed PROVE F!Spec => []EditsAreKept
  OBVIOUS
<1>1. F!Init => MountInv
  BY MountInit
<1>2. MountInv /\ [F!Next]_(F!mountVars) => MountInv'
  BY MountStep
<1>3. MountInv => EditsAreKept
  BY MountHolds
<1> QED
  BY <1>1, <1>2, <1>3, PTL DEF F!Spec
-----------------------------------------------------------------------------
(* The programs of the shell. Their trees are the name store's.            *)
LEMMA SameOperators ==
  /\ Sh!Missing = N!Missing
  /\ \A p, q : (Sh!IsPrefix(p, q) <=> N!IsPrefix(p, q)) /\ Sh!Rest(p, q) = N!Rest(p, q)
  /\ \A t, p : Sh!Inside(t, p) = N!Inside(t, p) /\ Sh!At(t, p) = N!At(t, p)
  /\ \A t, p, v : Sh!Put(t, p, v) = N!Put(t, p, v)
BY DEF Sh!Missing, N!Missing, Sh!IsPrefix, N!IsPrefix, Sh!Rest, N!Rest, Sh!Inside, N!Inside,
       Sh!At, N!At, Sh!Put, N!Put

(* The paths a command may link at.                                        *)
On(c) == {Sh!Parts(c)[k] : k \in 1..Len(Sh!Parts(c))}
Into(c) == {Sh!Candidates(c)[k] : k \in 1..Len(Sh!Candidates(c))}
Writes(c) ==
  CASE c.cmd \in {"rm", "rmdir", "write", "append"} -> {c.src}
    [] c.cmd = "cp" -> Into(c)
    [] c.cmd = "mv" -> {c.src} \union Into(c)
    [] c.cmd = "mkdir" -> {c.src} \union On(c)
    [] c.cmd = "unzip" -> {c.dest} \union On(c)
    [] c.cmd \in {"allow", "deny"} -> {Sh!AclDir(c), Sh!Acl(c)}
    [] c.cmd = "send" -> {Append(c.dest, name) : name \in MailName}

(* What the user asks for: commands there are, with paths; cp and mv have  *)
(* a source that has a name, unzip a file it makes. deny has a user in     *)
(* place of a second path.                                                 *)
CommandIsSound(c) ==
  /\ c.cmd \in {"rm", "rmdir", "write", "append", "cp", "mv", "mkdir", "unzip", "allow", "deny", "send"}
  /\ c.src \in Path
  /\ c.cmd # "deny" => c.dest \in Path
  /\ c.cmd \in {"cp", "mv"} => c.src # <<>>
  /\ c.cmd = "unzip" => c.dest # <<>>

CommandsAreSound ==
  /\ \A t \in Volumes : DOMAIN t \subseteq Path
  /\ \A c \in Command : CommandIsSound(c)
  /\ MailName \subseteq Word

(* Where a command is, and the directory or the destination it is at.      *)
Place(r) ==
  \/ Sh!Over(r)
  \/ r.pc = "lookup" /\ r.c.cmd \in {"cp", "mv", "append", "allow", "deny", "unzip"}
  \/ r.pc \in {"make", "check"} /\ r.c.cmd \in {"mkdir", "unzip"} /\ r.i <= Len(Sh!Parts(r.c))
  \/ r.pc = "over" /\ r.c.cmd \in {"mkdir", "unzip"} /\ r.i <= Len(Sh!Parts(r.c)) /\ "f" \in r.c.opt
  \/ r.pc = "check" /\ r.c.cmd = "cp" /\ r.i <= Len(Sh!Candidates(r.c))
  \/ r.pc \in {"acldir", "makeacl"} /\ r.c.cmd \in {"allow", "deny"}
  \/ r.pc = "remove" /\ r.c.cmd = "mv" /\ Sh!Crosses(r.c)
  \/ r.pc = "link" /\ (r.c.cmd \in {"cp", "mv"} => r.i <= Len(Sh!Candidates(r.c)))

RunOK(r) == r.c \in Command /\ DOMAIN r.saw \subseteq Path /\ r.i \in Nat \ {0} /\ Place(r)

ShellOK ==
  /\ DOMAIN volumes \subseteq Path
  /\ run = [p \in Proc |-> run[p]]
  /\ \A p \in Proc : RunOK(run[p])

LEMMA CandidatesAre ==
  ASSUME NEW c, CommandIsSound(c), c.cmd \in {"cp", "mv"}
  PROVE  /\ Len(Sh!Candidates(c)) \in {1, 2}
         /\ \A k \in 1..Len(Sh!Candidates(c)) :
              Sh!Candidates(c)[k] \in Path /\ Sh!Candidates(c)[k] \in {c.dest, Append(c.dest, Sh!Last(c.src))}
<1>1. Sh!Last(c.src) \in Word /\ c.dest \in Path
  BY DEF CommandIsSound, Sh!Last, Path
<1>2. Append(c.dest, Sh!Last(c.src)) \in Path
  BY <1>1 DEF Path
<1>3. CASE "ff" \in c.opt
  BY <1>1, <1>3 DEF Sh!Candidates
<1>4. CASE "ff" \notin c.opt
  <2> DEFINE own == Append(c.dest, Sh!Last(c.src))
  <2>1. Sh!Candidates(c) = <<own, c.dest>>
    BY <1>4 DEF Sh!Candidates
  <2> HIDE DEF own
  <2>2. Len(Sh!Candidates(c)) = 2 /\ \A k \in 1..2 : Sh!Candidates(c)[k] \in {own, c.dest}
    BY <2>1
  <2> QED
    BY <1>1, <1>2, <2>2 DEF own
<1> QED
  BY <1>3, <1>4

LEMMA PartsAre ==
  ASSUME NEW c, CommandIsSound(c), c.cmd \in {"mkdir", "unzip"}
  PROVE  /\ Len(Sh!Parts(c)) \in Nat /\ \A k \in 1..Len(Sh!Parts(c)) : Sh!Parts(c)[k] \in Path
         /\ Len(Sh!Parts(c)) = 0 => Sh!Parts(c) = <<>>
<1> DEFINE path == IF c.cmd = "unzip" THEN Sh!Front(c.dest) ELSE c.src
<1>1. path \in Path
  <2>1. Sh!Front(c.dest) = N!Front(c.dest)
    BY DEF Sh!Front, N!Front
  <2> QED
    BY <2>1, FrontOf DEF CommandIsSound
<1>2. Sh!Parts(c) = [k \in 1..(Len(path) - 1) |-> SubSeq(path, 1, k + 1)]
  BY DEF Sh!Parts
<1> HIDE DEF path
<1>3. Len(path) \in Nat /\ \A k \in 1..(Len(path) - 1) : SubSeq(path, 1, k + 1) \in Path
  BY <1>1 DEF Path
<1>4. \A n \in Nat : n = 0 \/ n - 1 \in Nat
  OBVIOUS
<1>5. \E n \in Nat : Sh!Parts(c) = [k \in 1..n |-> SubSeq(path, 1, k + 1)] /\ 1..n = 1..(Len(path) - 1)
  <2>1. CASE Len(path) = 0
    <3>1. 1..0 = 1..(Len(path) - 1)
      BY <2>1
    <3> QED
      BY <1>2, <3>1
  <2>2. CASE Len(path) # 0
    BY <1>2, <1>3, <1>4, <2>2
  <2> QED
    BY <2>1, <2>2
<1>6. PICK n \in Nat : Sh!Parts(c) = [k \in 1..n |-> SubSeq(path, 1, k + 1)] /\ 1..n = 1..(Len(path) - 1)
  BY <1>5
<1>7. Len(Sh!Parts(c)) = n /\ \A k \in 1..n : Sh!Parts(c)[k] = SubSeq(path, 1, k + 1)
  BY <1>3, <1>6
<1> QED
  BY <1>3, <1>6, <1>7

LEMMA WritesArePaths ==
  ASSUME CommandsAreSound, NEW c \in Command
  PROVE  Writes(c) \subseteq Path
<1> USE DEF Writes
<1>0. CommandIsSound(c) /\ c.src \in Path /\ (c.cmd # "deny" => c.dest \in Path)
  BY DEF CommandsAreSound, CommandIsSound
<1>1. CASE c.cmd \in {"rm", "rmdir", "write", "append"}
  BY <1>0, <1>1
<1>2. CASE c.cmd \in {"cp", "mv"}
  BY <1>0, <1>2, CandidatesAre DEF Into
<1>3. CASE c.cmd \in {"mkdir", "unzip"}
  BY <1>0, <1>3, PartsAre DEF On
<1>4. CASE c.cmd \in {"allow", "deny"}
  <2>0. ".grits" \in Word /\ "access.json" \in Word
    BY DEF Word
  <2>1. Sh!AclDir(c) \in Path
    BY <1>0, <2>0 DEF Sh!AclDir, Path
  <2>2. Sh!Acl(c) \in Path
    <3>1. Append(Sh!AclDir(c), "access.json") = Sh!Acl(c)
      BY <2>1 DEF Sh!Acl, Path
    <3> QED
      BY <2>0, <2>1, <3>1 DEF Path
  <2> QED
    BY <1>4, <2>1, <2>2
<1>5. CASE c.cmd = "send"
  <2>1. \A name \in MailName : Append(c.dest, name) \in Path
    BY <1>0, <1>5 DEF CommandsAreSound, Path
  <2> QED
    BY <1>5, <2>1
<1> QED
  BY <1>0, <1>1, <1>2, <1>3, <1>4, <1>5 DEF CommandIsSound

(* The next directory, or what comes after the last.                       *)
LEMMA FromPartKeeps ==
  ASSUME NEW r, RunOK(r), NEW k \in Nat \ {0}, r.c.cmd \in {"mkdir", "unzip"}
  PROVE  RunOK(Sh!FromPart(r, k))
<1>1. ASSUME NEW pc, NEW i \in Nat \ {0},
             \/ pc = "make" /\ i <= Len(Sh!Parts(r.c))
             \/ pc = "link"
             \/ pc = "done"
      PROVE  RunOK(Sh!Goes(r, pc, i))
  BY <1>1 DEF RunOK, Place, Sh!Goes, Sh!Over
<1>2. r.i \in Nat \ {0}
  BY DEF RunOK
<1> QED
  BY <1>1, <1>2 DEF Sh!FromPart, Sh!Ends

LEMMA FailsKeepsRun ==
  ASSUME NEW r, RunOK(r)
  PROVE  RunOK(Sh!Fails(r)) /\ RunOK(Sh!Ends(r))
BY DEF RunOK, Place, Sh!Goes, Sh!Over, Sh!Fails, Sh!Ends

LEMMA WhenFoundKeeps ==
  ASSUME CommandsAreSound, NEW r, RunOK(r), Sh!Looks(r), NEW found, DOMAIN found \subseteq Path
  PROVE  RunOK(Sh!WhenFound(r, found))
<1>0. /\ CommandIsSound(r.c) /\ r.c \in Command /\ r.i \in Nat \ {0} /\ DOMAIN r.saw \subseteq Path /\ Place(r)
      /\ RunOK(Sh!Fails(r))
  BY FailsKeepsRun DEF RunOK, CommandsAreSound
<1>1. CASE r.pc = "check" /\ r.c.cmd = "cp"
  <2>1. RunOK(Sh!Goes(r, "link", r.i))
    BY <1>0, <1>1 DEF RunOK, Place, Sh!Goes, Sh!Over
  <2> QED
    BY <1>0, <1>1, <2>1 DEF Sh!WhenFound
<1>2. CASE r.pc = "check" /\ r.c.cmd # "cp"
  <2>1. r.c.cmd \in {"mkdir", "unzip"} /\ r.i + 1 \in Nat \ {0}
    BY <1>0, <1>2 DEF Place, Sh!Over
  <2>2. RunOK(Sh!NextPart(r))
    BY <2>1, FromPartKeeps DEF Sh!NextPart
  <2>3. Sh!WhenFound(r, found) \in {Sh!Fails(r), Sh!NextPart(r)}
    BY <1>2 DEF Sh!WhenFound
  <2> QED
    BY <1>0, <2>2, <2>3
<1>3. CASE r.pc = "acldir"
  <2>1. ASSUME NEW pc \in {"makeacl", "link"} PROVE RunOK(Sh!Goes(r, pc, 1))
    BY <1>0, <1>3 DEF RunOK, Place, Sh!Goes, Sh!Over
  <2> QED
    BY <1>3, <2>1 DEF Sh!WhenFound
<1>4. CASE r.pc = "lookup" /\ r.c.cmd \in {"append", "allow", "deny"}
  <2>1. RunOK(Sh!Saw(r, IF r.c.cmd = "append" THEN "link" ELSE "acldir", found))
    BY <1>0, <1>4 DEF RunOK, Place, Sh!Saw, Sh!Over
  <2>2. Sh!WhenFound(r, found) \in {Sh!Fails(r), Sh!Saw(r, IF r.c.cmd = "append" THEN "link" ELSE "acldir", found)}
    BY <1>4 DEF Sh!WhenFound
  <2> QED
    BY <1>0, <2>1, <2>2
<1>5. CASE r.pc = "lookup" /\ r.c.cmd = "unzip"
  <2>1. Sh!WhenFound(r, found) \in {Sh!Fails(r), Sh!FromPart(r, 1)}
    BY <1>5 DEF Sh!WhenFound
  <2> QED
    BY <1>0, <1>5, <2>1, FromPartKeeps
<1>6. CASE r.pc = "lookup" /\ r.c.cmd \in {"cp", "mv"}
  <2>0. Len(Sh!Candidates(r.c)) \in {1, 2}
    BY <1>0, <1>6, CandidatesAre
  <2>1. 1 <= Len(Sh!Candidates(r.c))
    BY <2>0
  <2>2. ASSUME NEW pc \in {"check", "link"}, pc = "check" => r.c.cmd = "cp" PROVE RunOK(Sh!Saw(r, pc, found))
    BY <1>0, <1>6, <2>1, <2>2 DEF RunOK, Place, Sh!Saw, Sh!Over
  <2> QED
    BY <1>0, <1>6, <2>2 DEF Sh!WhenFound
<1> QED
  BY <1>0, <1>1, <1>2, <1>3, <1>4, <1>5, <1>6 DEF Place, Sh!Looks, Sh!Over

(* A command that is at a link, and what it does after it.                 *)
Links(r) == ~Sh!Looks(r) /\ ~Sh!Over(r)

LEMMA WhenOkKeeps ==
  ASSUME CommandsAreSound, NEW r, RunOK(r), Links(r)
  PROVE  RunOK(Sh!WhenOk(r))
<1>0. /\ r.c \in Command /\ r.i \in Nat \ {0} /\ DOMAIN r.saw \subseteq Path /\ Place(r)
      /\ RunOK(Sh!Fails(r)) /\ RunOK(Sh!Ends(r))
  BY FailsKeepsRun DEF RunOK
<1>1. CASE r.pc \in {"make", "over"}
  <2>1. r.c.cmd \in {"mkdir", "unzip"} /\ r.i + 1 \in Nat \ {0}
    BY <1>0, <1>1 DEF Place, Sh!Over
  <2> QED
    BY <1>1, <2>1, FromPartKeeps DEF Sh!NextPart, Sh!WhenOk
<1>2. CASE r.pc = "makeacl"
  <2>1. RunOK(Sh!Goes(r, "link", 1))
    BY <1>0, <1>2 DEF RunOK, Place, Sh!Goes, Sh!Over
  <2> QED
    BY <1>2, <2>1 DEF Sh!WhenOk
<1>3. CASE r.pc = "link" /\ r.c.cmd = "mv" /\ Sh!Crosses(r.c)
  <2>1. RunOK(Sh!Goes(r, "remove", 1))
    BY <1>0, <1>3 DEF RunOK, Place, Sh!Goes, Sh!Over
  <2> QED
    BY <1>3, <2>1 DEF Sh!WhenOk
<1>4. CASE r.pc \notin {"make", "over", "makeacl"} /\ ~(r.pc = "link" /\ r.c.cmd = "mv" /\ Sh!Crosses(r.c))
  BY <1>0, <1>4 DEF Sh!WhenOk
<1> QED
  BY <1>1, <1>2, <1>3, <1>4

LEMMA WhenRefusedKeeps ==
  ASSUME CommandsAreSound, NEW r, RunOK(r), Links(r)
  PROVE  RunOK(Sh!WhenRefused(r))
<1>0. /\ r.c \in Command /\ r.i \in Nat \ {0} /\ DOMAIN r.saw \subseteq Path /\ Place(r)
      /\ RunOK(Sh!Fails(r))
  BY FailsKeepsRun DEF RunOK
<1>1. CASE r.pc = "make"
  <2>1. ASSUME NEW pc, pc = IF "f" \in r.c.opt THEN "over" ELSE "check" PROVE RunOK(Sh!Goes(r, pc, r.i))
    BY <1>0, <1>1, <2>1 DEF RunOK, Place, Sh!Goes, Sh!Over
  <2> QED
    BY <1>1, <2>1 DEF Sh!WhenRefused
<1>2. CASE r.pc = "over"
  <2>1. RunOK(Sh!Goes(r, "check", r.i))
    BY <1>0, <1>2 DEF RunOK, Place, Sh!Goes, Sh!Over
  <2> QED
    BY <1>2, <2>1 DEF Sh!WhenRefused
<1>3. CASE r.pc \notin {"make", "over"}
  <2>1. ASSUME NEW i \in Nat \ {0}, r.pc = "link", r.c.cmd \notin {"cp", "mv"} PROVE RunOK(Sh!Goes(r, "link", i))
    BY <1>0, <2>1 DEF RunOK, Place, Sh!Goes, Sh!Over
  <2>2. r.i + 1 \in Nat \ {0} /\ 2 \in Nat \ {0}
    BY <1>0
  <2> QED
    BY <1>0, <1>3, <2>1, <2>2 DEF Sh!WhenRefused
<1> QED
  BY <1>1, <1>2, <1>3

LEMMA WhenErrorKeeps ==
  ASSUME CommandsAreSound, NEW r, RunOK(r), Links(r)
  PROVE  RunOK(Sh!WhenError(r))
<1>0. /\ r.c \in Command /\ CommandIsSound(r.c) /\ r.i \in Nat \ {0} /\ DOMAIN r.saw \subseteq Path /\ Place(r)
      /\ RunOK(Sh!Fails(r))
  BY FailsKeepsRun DEF RunOK, CommandsAreSound
<1>1. CASE r.pc = "link" /\ r.c.cmd = "write" /\ r.i = 1
  <2>1. RunOK(Sh!Goes(r, "link", 2))
    BY <1>0, <1>1 DEF RunOK, Place, Sh!Goes, Sh!Over
  <2> QED
    BY <1>1, <2>1 DEF Sh!WhenError
<1>2. CASE r.pc = "link" /\ r.c.cmd \in {"cp", "mv"} /\ r.i < Len(Sh!Candidates(r.c))
  <2>1. r.i + 1 \in Nat \ {0} /\ r.i + 1 <= Len(Sh!Candidates(r.c))
    BY <1>0, <1>2, CandidatesAre
  <2>2. ASSUME NEW pc \in {"check", "link"}, pc = "check" => r.c.cmd = "cp" PROVE RunOK(Sh!Goes(r, pc, r.i + 1))
    BY <1>0, <1>2, <2>1, <2>2 DEF RunOK, Place, Sh!Goes, Sh!Over
  <2> QED
    BY <1>2, <2>2 DEF Sh!WhenError
<1>3. CASE /\ ~(r.pc = "link" /\ r.c.cmd = "write" /\ r.i = 1)
           /\ ~(r.pc = "link" /\ r.c.cmd \in {"cp", "mv"} /\ r.i < Len(Sh!Candidates(r.c)))
  BY <1>0, <1>3 DEF Sh!WhenError
<1> QED
  BY <1>1, <1>2, <1>3

(* The multiLinks of a command: one link of a path it may write, which     *)
(* adds if the command is careful; or the two links of a move.             *)
OneLink(p, r, ops) ==
  /\ ops = <<ops[1]>>
  /\ ops[1].path \in Writes(r.c) /\ DOMAIN ops[1].new \subseteq Path
  /\ Sh!Careful(r.c) => ops[1].needs = "nothing"
  /\ r.c.cmd = "send" => ops[1].new = Sh!TextFile({p})

Moves(r, ops) ==
  /\ r.c.cmd = "mv" /\ ~Sh!Crosses(r.c) /\ r.i \in 1..Len(Sh!Candidates(r.c))
  /\ ops = <<Sh!Op(Sh!Candidates(r.c)[r.i], r.saw, Sh!Fresh(r.c), Sh!Missing),
             Sh!Op(r.c.src, Sh!Missing, "same", r.saw)>>

LEMMA OneLinkIs ==
  ASSUME NEW p, NEW r, NEW path \in Writes(r.c), NEW new, DOMAIN new \subseteq Path, NEW needs,
         Sh!Careful(r.c) => needs = "nothing",
         r.c.cmd = "send" => new = Sh!TextFile({p}),
         NEW ops \in {<<Sh!Op(path, new, needs, Sh!Missing)>>}
  PROVE  OneLink(p, r, ops)
<1>1. ops = <<Sh!Op(path, new, needs, Sh!Missing)>> /\ ops[1] = Sh!Op(path, new, needs, Sh!Missing)
  OBVIOUS
<1>2. ops[1].path = path /\ ops[1].new = new /\ ops[1].needs = needs
  BY <1>1 DEF Sh!Op
<1> QED
  BY <1>1, <1>2 DEF OneLink

LEMMA NodesAre ==
  ASSUME NEW text
  PROVE  /\ DOMAIN Sh!TextFile(text) \subseteq Path /\ DOMAIN Sh!EmptyDir \subseteq Path
         /\ DOMAIN Sh!Missing = {}
<1>1. <<>> \in Path
  BY DEF Path
<1> QED
  BY <1>1 DEF Sh!TextFile, Sh!EmptyDir, Sh!Missing

LEMMA MineIs ==
  ASSUME NEW p, NEW r
  PROVE  DOMAIN Sh!Mine(p, r) \subseteq Path /\ (r.c.cmd = "send" => Sh!Mine(p, r) = Sh!TextFile({p}))
<1>1. \E text : Sh!Mine(p, r) = Sh!TextFile(text)
  BY DEF Sh!Mine
<1> QED
  BY <1>1, NodesAre DEF Sh!Mine

LEMMA RequestsAre ==
  ASSUME CommandsAreSound, NEW p, NEW r, RunOK(r), Links(r), NEW ops \in Sh!Requests(p, r)
  PROVE  OneLink(p, r, ops) \/ Moves(r, ops)
<1> DEFINE one(path, new, needs) == {<<Sh!Op(path, new, needs, Sh!Missing)>>}
<1>0. /\ CommandIsSound(r.c) /\ r.i \in Nat \ {0} /\ DOMAIN r.saw \subseteq Path /\ Place(r)
      /\ DOMAIN Sh!EmptyDir \subseteq Path /\ DOMAIN Sh!Missing \subseteq Path /\ DOMAIN Sh!Mine(p, r) \subseteq Path
  BY NodesAre, MineIs DEF RunOK, CommandsAreSound
<1>1. CASE r.pc \in {"make", "over"}
  <2>1. r.c.cmd \in {"mkdir", "unzip"} /\ r.i \in 1..Len(Sh!Parts(r.c)) /\ (r.pc = "over" => "f" \in r.c.opt)
    BY <1>0, <1>1, PartsAre DEF Place, Sh!Over
  <2>2. Sh!Parts(r.c)[r.i] \in Writes(r.c)
    BY <2>1 DEF Writes, On
  <2>3. ops \in one(Sh!Parts(r.c)[r.i], Sh!EmptyDir, IF r.pc = "make" THEN "nothing" ELSE "blob")
    BY <1>1 DEF Sh!Requests
  <2>4. Sh!Careful(r.c) => r.pc # "over"
    BY <2>1 DEF Sh!Careful, Sh!Forced
  <2>5. PICK needs : needs = IF r.pc = "make" THEN "nothing" ELSE "blob"
    OBVIOUS
  <2>6. (Sh!Careful(r.c) => needs = "nothing") /\ r.c.cmd # "send"
    BY <1>1, <2>1, <2>4, <2>5
  <2>7. ops \in one(Sh!Parts(r.c)[r.i], Sh!EmptyDir, needs)
    BY <2>3, <2>5
  <2> QED
    BY <1>0, <2>2, <2>6, <2>7, OneLinkIs
<1>2. CASE r.pc = "remove"
  <2>1. ops \in one(r.c.src, Sh!Missing, "any")
    BY <1>2 DEF Sh!Requests
  <2>2. r.c.cmd = "mv" /\ Sh!Crosses(r.c) /\ r.c.src \in Writes(r.c)
    BY <1>0, <1>2 DEF Place, Sh!Over, Writes
  <2> QED
    BY <1>0, <2>1, <2>2, OneLinkIs DEF Sh!Careful
<1>3. CASE r.pc = "makeacl"
  <2>1. ops \in one(Sh!AclDir(r.c), Sh!EmptyDir, "any")
    BY <1>3 DEF Sh!Requests
  <2>2. r.c.cmd \in {"allow", "deny"} /\ Sh!AclDir(r.c) \in Writes(r.c)
    BY <1>0, <1>3 DEF Place, Sh!Over, Writes
  <2> QED
    BY <1>0, <2>1, <2>2, OneLinkIs DEF Sh!Careful
<1>4. CASE r.pc = "link"
  <2>1. CASE r.c.cmd \in {"write", "append"}
    <3>1. \E needs : ops \in one(r.c.src, Sh!Mine(p, r), needs)
      BY <1>4, <2>1 DEF Sh!Requests
    <3>2. r.c.src \in Writes(r.c) /\ ~Sh!Careful(r.c)
      BY <2>1 DEF Writes, Sh!Careful
    <3> QED
      BY <1>0, <2>1, <3>1, <3>2, OneLinkIs
  <2>2. CASE r.c.cmd \in {"rm", "rmdir"}
    <3>1. \E needs : ops \in one(r.c.src, Sh!Missing, needs)
      BY <1>4, <2>2 DEF Sh!Requests
    <3>2. r.c.src \in Writes(r.c) /\ ~Sh!Careful(r.c)
      BY <2>2 DEF Writes, Sh!Careful
    <3> QED
      BY <1>0, <2>2, <3>1, <3>2, OneLinkIs
  <2>3. CASE r.c.cmd = "mkdir"
    <3>1. ops \in one(r.c.src, Sh!EmptyDir, Sh!Fresh(r.c))
      BY <1>4, <2>3 DEF Sh!Requests
    <3>2. r.c.src \in Writes(r.c) /\ (Sh!Careful(r.c) => Sh!Fresh(r.c) = "nothing")
      BY <2>3 DEF Writes, Sh!Careful, Sh!Fresh
    <3> QED
      BY <1>0, <2>3, <3>1, <3>2, OneLinkIs
  <2>4. CASE r.c.cmd = "unzip"
    <3>1. ops \in one(r.c.dest, Sh!Mine(p, r), Sh!Fresh(r.c))
      BY <1>4, <2>4 DEF Sh!Requests
    <3>2. r.c.dest \in Writes(r.c) /\ (Sh!Careful(r.c) => Sh!Fresh(r.c) = "nothing")
      BY <2>4 DEF Writes, Sh!Careful, Sh!Fresh
    <3> QED
      BY <1>0, <2>4, <3>1, <3>2, OneLinkIs
  <2>5. CASE r.c.cmd \in {"cp", "mv"}
    <3>1. r.i \in 1..Len(Sh!Candidates(r.c)) /\ Sh!Candidates(r.c)[r.i] \in Writes(r.c)
      <4>1. r.i \in 1..Len(Sh!Candidates(r.c))
        <5>1. Len(Sh!Candidates(r.c)) \in Nat /\ r.i <= Len(Sh!Candidates(r.c))
          BY <1>0, <1>4, <2>5, CandidatesAre DEF Place, Sh!Over
        <5> QED
          BY <1>0, <5>1
      <4> QED
        BY <2>5, <4>1 DEF Writes, Into
    <3>2. CASE r.c.cmd = "cp"
      <4>1. ops \in one(Sh!Candidates(r.c)[r.i], r.saw, "any")
        BY <1>4, <3>2 DEF Sh!Requests
      <4> QED
        BY <1>0, <3>1, <3>2, <4>1, OneLinkIs DEF Sh!Careful
    <3>3. CASE r.c.cmd = "mv" /\ Sh!Crosses(r.c)
      <4>1. \E needs : ops \in one(Sh!Candidates(r.c)[r.i], Sh!TextFile(Sh!Text(r.saw)), needs)
        BY <1>4, <3>3 DEF Sh!Requests
      <4>2. DOMAIN Sh!TextFile(Sh!Text(r.saw)) \subseteq Path /\ ~Sh!Careful(r.c)
        BY <3>3, NodesAre DEF Sh!Careful
      <4> QED
        BY <3>1, <3>3, <4>1, <4>2, OneLinkIs
    <3>4. CASE r.c.cmd = "mv" /\ ~Sh!Crosses(r.c)
      <4>1. ops \in {<<Sh!Op(Sh!Candidates(r.c)[r.i], r.saw, Sh!Fresh(r.c), Sh!Missing),
                       Sh!Op(r.c.src, Sh!Missing, "same", r.saw)>>}
        BY <1>4, <3>4 DEF Sh!Requests, Sh!Source
      <4> QED
        BY <3>1, <3>4, <4>1 DEF Moves
    <3> QED
      BY <2>5, <3>2, <3>3, <3>4
  <2>6. CASE r.c.cmd \in {"allow", "deny"}
    <3>1. ops \in one(Sh!Acl(r.c), Sh!Mine(p, r), "any")
      BY <1>4, <2>6 DEF Sh!Requests
    <3>2. Sh!Acl(r.c) \in Writes(r.c) /\ ~Sh!Careful(r.c)
      BY <2>6 DEF Writes, Sh!Careful
    <3> QED
      BY <1>0, <2>6, <3>1, <3>2, OneLinkIs
  <2>7. CASE r.c.cmd = "send"
    <3>1. PICK name \in MailName : ops \in one(Append(r.c.dest, name), Sh!Mine(p, r), "nothing")
      BY <1>4, <2>7 DEF Sh!Requests, Sh!Sent
    <3>2. Append(r.c.dest, name) \in Writes(r.c)
      BY <2>7 DEF Writes
    <3>3. r.c.cmd = "send" => Sh!Mine(p, r) = Sh!TextFile({p})
      BY MineIs
    <3> QED
      BY <1>0, <3>1, <3>2, <3>3, OneLinkIs
  <2> QED
    BY <1>0, <2>1, <2>2, <2>3, <2>4, <2>5, <2>6, <2>7 DEF CommandIsSound
<1> QED
  BY <1>0, <1>1, <1>2, <1>3, <1>4 DEF Place, Links, Sh!Looks, Sh!Over

(* What a tree has, and what it has at or below a path.                    *)
Has(t, x) == \E q \in DOMAIN t : t[q] # Dir /\ x \in t[q]
HasBelow(t, d, x) == \E q \in DOMAIN t : N!IsPrefix(d, q) /\ t[q] # Dir /\ x \in t[q]

LEMMA TextsAre == ASSUME NEW t, NEW x PROVE x \in Sh!Texts(t) <=> Has(t, x)
BY DEF Sh!Texts, Has

LEMMA TextsBelow ==
  ASSUME NEW t, DOMAIN t \subseteq Path, NEW d \in Path, NEW x
  PROVE  x \in Sh!Texts(Sh!At(t, d)) <=> HasBelow(t, d, x)
<1>1. Sh!At(t, d) = N!At(t, d)
  BY SameOperators
<1>2. ASSUME Has(N!At(t, d), x) PROVE HasBelow(t, d, x)
  <2>1. PICK q \in DOMAIN N!At(t, d) : N!At(t, d)[q] # Dir /\ x \in N!At(t, d)[q]
    BY <1>2 DEF Has
  <2>2. q \in Path /\ d \o q \in DOMAIN t /\ N!At(t, d)[q] = t[d \o q]
    BY <2>1, AtIs
  <2>3. N!IsPrefix(d, d \o q)
    BY <2>2, Concat
  <2> QED
    BY <2>1, <2>2, <2>3 DEF HasBelow
<1>3. ASSUME HasBelow(t, d, x) PROVE Has(N!At(t, d), x)
  <2>1. PICK q \in DOMAIN t : N!IsPrefix(d, q) /\ t[q] # Dir /\ x \in t[q]
    BY <1>3 DEF HasBelow
  <2>2. N!Rest(d, q) \in Path /\ q = d \o N!Rest(d, q)
    BY <2>1, Split
  <2>3. PICK r \in Path : q = d \o r
    BY <2>2
  <2>4. r \in DOMAIN N!At(t, d) /\ N!At(t, d)[r] = t[q]
    BY <2>3, AtIs
  <2> QED
    BY <2>1, <2>4 DEF Has
<1> QED
  BY <1>1, <1>2, <1>3, TextsAre

(* A link where nothing is only adds.                                      *)
Adds(t, new) == \A q \in DOMAIN t : q \in DOMAIN new /\ new[q] = t[q]

LEMMA NothingThere ==
  ASSUME NEW t, DOMAIN t \subseteq Path, NEW p \in Path, Sh!At(t, p) = Sh!Missing
  PROVE  \A q \in DOMAIN t : ~N!IsPrefix(p, q)
<1> SUFFICES ASSUME NEW q \in DOMAIN t, N!IsPrefix(p, q) PROVE FALSE
  OBVIOUS
<1>1. N!Rest(p, q) \in DOMAIN N!At(t, p)
  BY DEF N!At, N!Inside
<1>2. DOMAIN N!At(t, p) = {}
  BY SameOperators, NodesAre
<1> QED
  BY <1>1, <1>2

LEMMA PutAdds ==
  ASSUME NEW t, DOMAIN t \subseteq Path, NEW p \in Path, NEW v, DOMAIN v \subseteq Path,
         Sh!At(t, p) = Sh!Missing
  PROVE  Adds(t, Sh!Put(t, p, v))
<1>1. Sh!Put(t, p, v) = N!Put(t, p, v) /\ \A q \in DOMAIN t : ~N!IsPrefix(p, q)
  BY SameOperators, NothingThere
<1> QED
  BY <1>1, PutIs DEF Adds

LEMMA AddsKeeps ==
  ASSUME NEW t, NEW new, Adds(t, new)
  PROVE  /\ Sh!Texts(t) \subseteq Sh!Texts(new)
         /\ \A d, x : HasBelow(t, d, x) => HasBelow(new, d, x)
<1>1. \A x : Has(t, x) => Has(new, x)
  BY DEF Has, Adds
<1>2. Sh!Texts(t) \subseteq Sh!Texts(new)
  BY <1>1, TextsAre
<1>3. \A d, x : HasBelow(t, d, x) => HasBelow(new, d, x)
  BY DEF HasBelow, Adds
<1> QED
  BY <1>2, <1>3

(* One away from a directory, neither at it nor above nor below.           *)
LEMMA PutApart ==
  ASSUME NEW t, DOMAIN t \subseteq Path, NEW p \in Path, NEW v, DOMAIN v \subseteq Path,
         NEW d \in Path, ~N!IsPrefix(p, d), ~N!IsPrefix(d, p), NEW x, HasBelow(t, d, x)
  PROVE  HasBelow(Sh!Put(t, p, v), d, x)
<1>1. PICK q \in DOMAIN t : N!IsPrefix(d, q) /\ t[q] # Dir /\ x \in t[q]
  BY DEF HasBelow
<1>2. ~N!IsPrefix(p, q)
  BY <1>1, PrefixTransitive
<1>3. q \in DOMAIN N!Put(t, p, v) /\ N!Put(t, p, v)[q] = t[q]
  BY <1>2, PutIs
<1> QED
  BY <1>1, <1>3, SameOperators DEF HasBelow

LEMMA PutPaths ==
  ASSUME NEW t, DOMAIN t \subseteq Path, NEW p \in Path, NEW v, DOMAIN v \subseteq Path
  PROVE  DOMAIN Sh!Put(t, p, v) \subseteq Path
BY PutIs, SameOperators

(* A move to where nothing is, out of the way of the source: what was at   *)
(* the source is at the destination, and the rest is where it was.         *)
LEMMA MoveKeepsTexts ==
  ASSUME NEW t, DOMAIN t \subseteq Path, NEW p \in Path, NEW s \in Path,
         Sh!At(t, p) = Sh!Missing, N!IsPrefix(s, p) => p = s
  PROVE  Sh!Texts(t) \subseteq Sh!Texts(Sh!Put(Sh!Put(t, p, Sh!At(t, s)), s, Sh!Missing))
<1> DEFINE saw == N!At(t, s)
           mid == N!Put(t, p, saw)
           new == N!Put(mid, s, N!Missing)
<1>1. Sh!Put(Sh!Put(t, p, Sh!At(t, s)), s, Sh!Missing) = new
  BY SameOperators
<1>2. DOMAIN saw \subseteq Path
  BY AtIs
<1>3. DOMAIN mid \subseteq Path /\ DOMAIN N!Missing \subseteq Path
  BY <1>2, PutIs, MissingGood DEF Good
<1>4. \A q \in DOMAIN t : ~N!IsPrefix(p, q)
  BY NothingThere
<1>5. \A q \in DOMAIN t : q \in DOMAIN mid /\ mid[q] = t[q]
  BY <1>2, <1>4, PutIs
<1>6. \A q \in DOMAIN mid : ~N!IsPrefix(s, q) => q \in DOMAIN new /\ new[q] = mid[q]
  BY <1>3, PutIs
<1>7. ASSUME NEW x, Has(t, x) PROVE Has(new, x)
  <2>1. PICK q \in DOMAIN t : t[q] # Dir /\ x \in t[q]
    BY <1>7 DEF Has
  <2>2. CASE ~N!IsPrefix(s, q)
    <3>1. q \in DOMAIN new /\ new[q] = t[q]
      BY <1>5, <1>6, <2>2
    <3> HIDE DEF new
    <3> QED
      BY <2>1, <3>1 DEF Has
  <2>3. CASE N!IsPrefix(s, q)
    <3>1. PICK r \in Path : q = s \o r
      BY <2>3, Split
    <3>2. r \in DOMAIN saw /\ saw[r] = t[q]
      BY <3>1, AtIs
    <3>3. p \o r \in DOMAIN mid /\ mid[p \o r] = t[q] /\ p \o r \in Path /\ N!IsPrefix(p, p \o r)
      <4>1. p \o r \in Path /\ N!IsPrefix(p, p \o r)
        BY <3>1, Concat
      <4>2. (p \o r \in DOMAIN mid <=> r \in DOMAIN saw) /\ (r \in DOMAIN saw => mid[p \o r] = saw[r])
        BY <1>2, <3>1, PutIs
      <4> HIDE DEF mid, saw
      <4> QED
        BY <3>2, <4>1, <4>2
    <3>4. ~N!IsPrefix(s, p \o r)
      <4> SUFFICES ASSUME N!IsPrefix(s, p \o r) PROVE FALSE
        OBVIOUS
      <4>1. N!IsPrefix(s, p) \/ N!IsPrefix(p, s)
        BY <3>3, PrefixTransitive
      <4>2. N!IsPrefix(p, s)
        BY <4>1, PrefixReflexive
      <4>3. N!IsPrefix(p, q)
        BY <2>3, <4>2, PrefixTransitive
      <4> QED
        BY <1>4, <4>3
    <3>5. p \o r \in DOMAIN new /\ new[p \o r] = t[q]
      BY <1>6, <3>3, <3>4
    <3> HIDE DEF new
    <3> QED
      BY <2>1, <3>5 DEF Has
  <2> QED
    BY <2>2, <2>3
<1> HIDE DEF new
<1> QED
  BY <1>1, <1>7, TextsAre
-----------------------------------------------------------------------------
(* What a multiLink that is served does.                                   *)
LEMMA OneLinkDoes ==
  ASSUME NEW p, NEW r, NEW ops, OneLink(p, r, ops), Sh!Served(ops) = "ok"
  PROVE  /\ volumes' = Sh!AllLinked(ops) => volumes' = Sh!Put(volumes, ops[1].path, ops[1].new)
         /\ Sh!Careful(r.c) => Sh!At(volumes, ops[1].path) = Sh!Missing
<1>1. PICK only : ops = <<only>> /\ ops[1] = only
  BY DEF OneLink
<1>2. Len(ops) = 1 /\ 1 \in DOMAIN ops
  BY <1>1
<1>3. Sh!InDirectory(volumes, only.path) /\ Sh!Holds(only)
  BY <1>1, <1>2 DEF Sh!Served
<1>4. Sh!AllLinked(ops) = Sh!Put(volumes, only.path, only.new)
  BY <1>1, <1>2, <1>3 DEF Sh!AllLinked, Sh!Linked
<1>5. only.needs = "nothing" => Sh!At(volumes, only.path) = Sh!Missing
  BY <1>3 DEF Sh!Holds
<1> QED
  BY <1>1, <1>4, <1>5 DEF OneLink

LEMMA MovesDoes ==
  ASSUME CommandsAreSound, NEW r, RunOK(r), NEW ops, Moves(r, ops), Sh!Served(ops) = "ok",
         DOMAIN volumes \subseteq Path
  PROVE  \E p \in Into(r.c) :
           /\ Sh!AllLinked(ops) = Sh!Put(Sh!Put(volumes, p, r.saw), r.c.src, Sh!Missing)
           /\ Sh!At(volumes, r.c.src) = r.saw
           /\ Sh!Careful(r.c) => Sh!At(volumes, p) = Sh!Missing
<1> DEFINE p == Sh!Candidates(r.c)[r.i]
           k == Sh!Op(p, r.saw, Sh!Fresh(r.c), Sh!Missing)
           s == Sh!Op(r.c.src, Sh!Missing, "same", r.saw)
<1>1. ops = <<k, s>> /\ p \in Into(r.c) /\ r.c.cmd = "mv" /\ ~Sh!Crosses(r.c)
  BY DEF Moves, Into
<1>2. /\ k.path = p /\ k.new = r.saw /\ k.needs = Sh!Fresh(r.c)
      /\ s.path = r.c.src /\ s.new = Sh!Missing /\ s.needs = "same" /\ s.saw = r.saw
  BY DEF Sh!Op
<1>3. Sh!Careful(r.c) => Sh!Fresh(r.c) = "nothing"
  BY <1>1 DEF Sh!Careful, Sh!Fresh
<1> HIDE DEF k, s, p
<1>4. Len(ops) = 2 /\ DOMAIN ops = 1..2 /\ ops[1] = k /\ ops[2] = s
  BY <1>1
<1>5. Sh!InDirectory(volumes, k.path) /\ Sh!Holds(k) /\ Sh!Holds(s) /\ Sh!AllLinked(ops) # Sh!Missing
  <2>1. 1 \in DOMAIN ops /\ 2 \in DOMAIN ops
    BY <1>4
  <2> QED
    BY <1>4, <2>1 DEF Sh!Served
<1>6. Sh!Linked(volumes, k) = Sh!Put(volumes, p, r.saw)
  BY <1>2, <1>5 DEF Sh!Linked
<1>7. Sh!AllLinked(ops) = Sh!Linked(Sh!Linked(volumes, k), s)
  BY <1>4, <1>5 DEF Sh!AllLinked
<1>8. Sh!AllLinked(ops) = Sh!Put(Sh!Put(volumes, p, r.saw), r.c.src, Sh!Missing)
  BY <1>2, <1>5, <1>6, <1>7 DEF Sh!Linked
<1>9. Sh!At(volumes, r.c.src) = r.saw
  BY <1>2, <1>5 DEF Sh!Holds
<1>10. Sh!Careful(r.c) => Sh!At(volumes, p) = Sh!Missing
  BY <1>2, <1>3, <1>5 DEF Sh!Holds
<1> QED
  BY <1>1, <1>8, <1>9, <1>10

(* p's command has made its links.                                         *)
Did(p) ==
  /\ Links(run[p])
  /\ \E ops \in Sh!Requests(p, run[p]) : Sh!Served(ops) = "ok" /\ volumes' = Sh!AllLinked(ops)

(* A step is one command's: it looks, or links or fails to, and a message  *)
(* is sent when its link is made.                                          *)
Steps(p) ==
  /\ \E r : /\ RunOK(r) /\ r.c = run[p].c /\ run' = [run EXCEPT ![p] = r]
            /\ r.c.cmd = "send" /\ r.pc = "done" => Did(p)
  /\ volumes' = volumes \/ Did(p)

LEMMA SameCommand ==
  ASSUME NEW r, NEW found
  PROVE  /\ Sh!WhenOk(r).c = r.c /\ Sh!WhenRefused(r).c = r.c /\ Sh!WhenError(r).c = r.c
         /\ Sh!Looks(r) /\ Place(r) => Sh!WhenFound(r, found).c = r.c
         /\ Sh!Fails(r).c = r.c /\ Sh!Fails(r).pc = "failed"
<1>1. \A pc, i : Sh!Goes(r, pc, i).c = r.c /\ Sh!Saw(r, pc, found).c = r.c /\ Sh!Goes(r, pc, i).pc = pc
  BY DEF Sh!Goes, Sh!Saw
<1>2. \A k : Sh!FromPart(r, k).c = r.c
  BY <1>1 DEF Sh!FromPart, Sh!Ends
<1>3. Sh!WhenOk(r).c = r.c
  BY <1>1, <1>2 DEF Sh!WhenOk, Sh!NextPart, Sh!Fails, Sh!Ends
<1>4. Sh!WhenRefused(r).c = r.c
  BY <1>1 DEF Sh!WhenRefused, Sh!Fails
<1>5. Sh!WhenError(r).c = r.c
  BY <1>1 DEF Sh!WhenError, Sh!Fails
<1>6. Sh!Looks(r) /\ Place(r) => Sh!WhenFound(r, found).c = r.c
  BY <1>1, <1>2 DEF Sh!WhenFound, Sh!NextPart, Sh!Fails, Sh!Looks, Place, Sh!Over
<1> QED
  BY <1>1, <1>3, <1>4, <1>5, <1>6 DEF Sh!Fails

LEMMA SendStays ==
  ASSUME NEW r, r.c.cmd = "send", Links(r), Place(r)
  PROVE  r.pc = "link" /\ Sh!WhenRefused(r).pc # "done" /\ Sh!WhenError(r).pc # "done"
<1>1. r.pc = "link"
  BY DEF Place, Links, Sh!Looks, Sh!Over
<1>2. \A pc, i : Sh!Goes(r, pc, i).pc = pc
  BY DEF Sh!Goes
<1> QED
  BY <1>1, <1>2 DEF Sh!WhenRefused, Sh!WhenError, Sh!Fails

LEMMA StepIs ==
  ASSUME CommandsAreSound, ShellOK, Sh!Next
  PROVE  \E p \in Proc : Steps(p)
<1>1. PICK p \in Proc : Sh!Lookup(p) \/ Sh!LookupFails(p) \/ Sh!Link(p) \/ Sh!LinkLost(p)
  BY DEF Sh!Next
<1>2. RunOK(run[p]) /\ run[p].c \in Command /\ CommandIsSound(run[p].c) /\ Place(run[p])
  BY DEF ShellOK, RunOK, CommandsAreSound
<1>3. ASSUME NEW found, DOMAIN found \subseteq Path, Sh!Looks(run[p]),
             run' = [run EXCEPT ![p] = Sh!WhenFound(@, found)], volumes' = volumes
      PROVE  Steps(p)
  <2> DEFINE r == Sh!WhenFound(run[p], found)
  <2>1. RunOK(r) /\ r.c = run[p].c
    BY <1>2, <1>3, WhenFoundKeeps, SameCommand
  <2>2. run[p].c.cmd # "send"
    BY <1>2, <1>3 DEF Place, Sh!Looks, Sh!Over
  <2>3. run' = [run EXCEPT ![p] = r]
    BY <1>3
  <2> HIDE DEF r
  <2> QED
    BY <1>3, <2>1, <2>2, <2>3 DEF Steps
<1>4. CASE Sh!Lookup(p)
  <2>1. Sh!LookedUp(run[p]) \in Path
    <3>1. run[p].pc = "check" /\ run[p].c.cmd = "cp" => Sh!Candidates(run[p].c)[run[p].i] \in Path
      <4> SUFFICES ASSUME run[p].pc = "check", run[p].c.cmd = "cp" PROVE Sh!Candidates(run[p].c)[run[p].i] \in Path
        OBVIOUS
      <4>1. run[p].i <= Len(Sh!Candidates(run[p].c)) /\ run[p].i \in Nat \ {0} /\ Len(Sh!Candidates(run[p].c)) \in Nat
        BY <1>2, CandidatesAre DEF Place, Sh!Over, RunOK
      <4>2. run[p].i \in 1..Len(Sh!Candidates(run[p].c))
        BY <4>1
      <4> QED
        BY <1>2, <4>2, CandidatesAre
    <3>2. run[p].pc = "check" /\ run[p].c.cmd # "cp" => Sh!Parts(run[p].c)[run[p].i] \in Path
      <4> SUFFICES ASSUME run[p].pc = "check", run[p].c.cmd # "cp" PROVE Sh!Parts(run[p].c)[run[p].i] \in Path
        OBVIOUS
      <4>1. run[p].c.cmd \in {"mkdir", "unzip"} /\ run[p].i <= Len(Sh!Parts(run[p].c)) /\ run[p].i \in Nat \ {0}
        BY <1>2 DEF Place, Sh!Over, RunOK
      <4>2. run[p].i \in 1..Len(Sh!Parts(run[p].c))
        BY <1>2, <4>1, PartsAre
      <4> QED
        BY <1>2, <4>1, <4>2, PartsAre
    <3>3. run[p].c.cmd \in {"allow", "deny"} => Sh!AclDir(run[p].c) \in Path /\ Sh!Acl(run[p].c) \in Path
      BY <1>2, WritesArePaths DEF Writes
    <3>4. run[p].c.src \in Path /\ (run[p].pc = "acldir" => run[p].c.cmd \in {"allow", "deny"})
      BY <1>2 DEF CommandIsSound, Place, Sh!Over
    <3> QED
      BY <3>1, <3>2, <3>3, <3>4 DEF Sh!LookedUp
  <2>2. DOMAIN Sh!At(volumes, Sh!LookedUp(run[p])) \subseteq Path
    BY <2>1, AtIs, SameOperators DEF ShellOK
  <2> QED
    BY <1>3, <1>4, <2>2 DEF Sh!Lookup
<1>5. CASE Sh!LookupFails(p)
  <2>1. CASE run' = [run EXCEPT ![p] = Sh!WhenFound(@, Sh!Missing)]
    BY <1>3, <1>5, <2>1, NodesAre DEF Sh!LookupFails
  <2>2. CASE run' = [run EXCEPT ![p] = Sh!Fails(@)]
    <3>1. RunOK(Sh!Fails(run[p])) /\ Sh!Fails(run[p]).c = run[p].c /\ Sh!Fails(run[p]).pc = "failed"
      BY <1>2, FailsKeepsRun, SameCommand
    <3> QED
      BY <1>5, <2>2, <3>1 DEF Sh!LookupFails, Steps
  <2> QED
    BY <1>5, <2>1, <2>2 DEF Sh!LookupFails
<1>6. ASSUME Links(run[p])
      PROVE  /\ RunOK(Sh!WhenOk(run[p])) /\ Sh!WhenOk(run[p]).c = run[p].c
             /\ RunOK(Sh!WhenRefused(run[p])) /\ Sh!WhenRefused(run[p]).c = run[p].c
             /\ RunOK(Sh!WhenError(run[p])) /\ Sh!WhenError(run[p]).c = run[p].c
             /\ run[p].c.cmd = "send" => Sh!WhenRefused(run[p]).pc # "done" /\ Sh!WhenError(run[p]).pc # "done"
  BY <1>2, <1>6, WhenOkKeeps, WhenRefusedKeeps, WhenErrorKeeps, SameCommand, SendStays
<1>7. CASE Sh!Link(p)
  <2>1. Links(run[p])
    BY <1>7 DEF Sh!Link, Links
  <2>2. PICK ops \in Sh!Requests(p, run[p]) :
          /\ volumes' = IF Sh!Served(ops) = "ok" THEN Sh!AllLinked(ops) ELSE volumes
          /\ run' = [run EXCEPT ![p] = CASE Sh!Served(ops) = "ok" -> Sh!WhenOk(@)
                                         [] Sh!Served(ops) = "refused" -> Sh!WhenRefused(@)
                                         [] Sh!Served(ops) = "error" -> Sh!WhenError(@)]
    BY <1>7 DEF Sh!Link
  <2>3. Sh!Served(ops) \in {"ok", "refused", "error"}
    BY DEF Sh!Served
  <2>4. CASE Sh!Served(ops) = "ok"
    <3>1. Did(p)
      BY <2>1, <2>2, <2>4 DEF Did
    <3>2. run' = [run EXCEPT ![p] = Sh!WhenOk(run[p])]
      BY <2>2, <2>4
    <3> QED
      BY <1>6, <2>1, <3>1, <3>2 DEF Steps
  <2>5. CASE Sh!Served(ops) = "refused"
    <3>1. run' = [run EXCEPT ![p] = Sh!WhenRefused(run[p])] /\ volumes' = volumes
      BY <2>2, <2>5
    <3> QED
      BY <1>6, <2>1, <3>1 DEF Steps
  <2>6. CASE Sh!Served(ops) = "error"
    <3>1. run' = [run EXCEPT ![p] = Sh!WhenError(run[p])] /\ volumes' = volumes
      BY <2>2, <2>6
    <3> QED
      BY <1>6, <2>1, <3>1 DEF Steps
  <2> QED
    BY <2>3, <2>4, <2>5, <2>6
<1>8. CASE Sh!LinkLost(p)
  <2>1. Links(run[p])
    BY <1>8 DEF Sh!LinkLost, Links
  <2>2. volumes' = volumes \/ Did(p)
    BY <1>8, <2>1 DEF Sh!LinkLost, Did
  <2>3. run' = [run EXCEPT ![p] = Sh!WhenError(run[p])]
    BY <1>8 DEF Sh!LinkLost
  <2> QED
    BY <1>6, <2>1, <2>2, <2>3 DEF Steps
<1> QED
  BY <1>1, <1>4, <1>5, <1>7, <1>8

LEMMA DidTypes ==
  ASSUME CommandsAreSound, ShellOK, NEW p \in Proc, Did(p)
  PROVE  DOMAIN volumes' \subseteq Path
<1> DEFINE c == run[p].c
<1>1. RunOK(run[p]) /\ c \in Command /\ Writes(c) \subseteq Path /\ DOMAIN volumes \subseteq Path
  BY WritesArePaths DEF ShellOK, RunOK
<1>2. PICK ops \in Sh!Requests(p, run[p]) : Sh!Served(ops) = "ok" /\ volumes' = Sh!AllLinked(ops)
  BY DEF Did
<1>3. CASE OneLink(p, run[p], ops)
  <2>1. volumes' = Sh!Put(volumes, ops[1].path, ops[1].new)
    BY <1>2, <1>3, OneLinkDoes
  <2>2. ops[1].path \in Path /\ DOMAIN ops[1].new \subseteq Path
    BY <1>1, <1>3 DEF OneLink
  <2> QED
    BY <1>1, <2>1, <2>2, PutPaths
<1>4. CASE Moves(run[p], ops)
  <2>1. PICK q \in Into(c) : volumes' = Sh!Put(Sh!Put(volumes, q, run[p].saw), c.src, Sh!Missing)
    BY <1>1, <1>2, <1>4, MovesDoes
  <2>2. q \in Path /\ c.src \in Path
    BY <1>1, <1>4 DEF Moves, Writes
  <2>3. DOMAIN Sh!Put(volumes, q, run[p].saw) \subseteq Path /\ DOMAIN Sh!Missing \subseteq Path
    BY <1>1, <2>2, PutPaths, NodesAre DEF RunOK
  <2> QED
    BY <2>1, <2>2, <2>3, PutPaths
<1> QED
  BY <1>1, <1>2, <1>3, <1>4, RequestsAre DEF Did

LEMMA StepTypes ==
  ASSUME CommandsAreSound, ShellOK, NEW p \in Proc, Steps(p)
  PROVE  ShellOK'
<1>1. DOMAIN volumes' \subseteq Path
  BY DidTypes DEF Steps, ShellOK
<1>2. PICK r : RunOK(r) /\ run' = [run EXCEPT ![p] = r]
  BY DEF Steps
<1>3. run' = [q \in Proc |-> run'[q]] /\ \A q \in Proc : run'[q] = IF q = p THEN r ELSE run[q]
  BY <1>2 DEF ShellOK
<1>4. \A q \in Proc : RunOK(run'[q])
  BY <1>2, <1>3 DEF ShellOK
<1>5. (\A q \in Proc : RunOK(run[q]))'
  BY <1>4 DEF RunOK, Place, Sh!Over
<1> QED
  BY <1>1, <1>3, <1>5 DEF ShellOK

LEMMA ShellInit == CommandsAreSound /\ Sh!Init => ShellOK
<1> SUFFICES ASSUME CommandsAreSound, Sh!Init PROVE ShellOK
  OBVIOUS
<1>1. DOMAIN volumes \subseteq Path /\ run = [p \in Proc |-> run[p]]
  BY DEF Sh!Init, CommandsAreSound
<1>2. ASSUME NEW p \in Proc PROVE RunOK(run[p])
  <2>1. PICK c \in Command : run[p] = [c |-> c, pc |-> Sh!Start(c), i |-> 1, saw |-> Sh!Missing]
    BY DEF Sh!Init
  <2>2. CommandIsSound(c) /\ DOMAIN Sh!Missing \subseteq Path
    BY NodesAre DEF CommandsAreSound
  <2>3. ASSUME c.cmd = "mkdir", Sh!Parts(c) # <<>> PROVE 1 <= Len(Sh!Parts(c))
    BY <2>2, <2>3, PartsAre
  <2>4. PICK r : r = run[p]
    OBVIOUS
  <2>5. /\ r.c = c /\ r.pc = Sh!Start(c) /\ r.i = 1 /\ 1 \in Nat \ {0} /\ DOMAIN r.saw \subseteq Path
        /\ r.c \in Command
    BY <2>1, <2>2, <2>4
  <2>6. CASE c.cmd \in {"cp", "mv", "append", "allow", "deny", "unzip"}
    <3>1. r.pc = "lookup"
      BY <2>5, <2>6 DEF Sh!Start
    <3> QED
      BY <2>4, <2>5, <2>6, <3>1 DEF RunOK, Place
  <2>7. CASE c.cmd = "mkdir" /\ "p" \in c.opt
    <3>1. r.pc = "done" \/ (r.pc = "make" /\ Sh!Parts(c) # <<>>)
      BY <2>5, <2>7 DEF Sh!Start
    <3> QED
      BY <2>3, <2>4, <2>5, <2>7, <3>1 DEF RunOK, Place, Sh!Over
  <2>8. CASE c.cmd \notin {"cp", "mv", "append", "allow", "deny", "unzip"} /\ ~(c.cmd = "mkdir" /\ "p" \in c.opt)
    <3>1. r.pc = "link"
      BY <2>5, <2>8 DEF Sh!Start
    <3> QED
      BY <2>4, <2>5, <2>8, <3>1 DEF RunOK, Place
  <2> QED
    BY <2>6, <2>7, <2>8
<1> QED
  BY <1>1, <1>2 DEF ShellOK

LEMMA PrefixOfAppend ==
  ASSUME NEW s \in Path, NEW d \in Path, NEW x \in Word,
         N!IsPrefix(s, Append(d, x)), ~N!IsPrefix(s, d)
  PROVE  Append(d, x) = s
<1>1. /\ Append(d, x) \in Path /\ Len(Append(d, x)) = Len(d) + 1
      /\ \A i \in 1..Len(d) : Append(d, x)[i] = d[i]
  BY DEF Path
<1>2. PICK q \in Path : q = Append(d, x)
  BY <1>1
<1>3. Len(s) <= Len(q) /\ \A i \in 1..Len(s) : s[i] = q[i]
  BY <1>2, PrefixDef
<1>4. Len(s) \in Nat /\ Len(d) \in Nat /\ Len(q) = Len(d) + 1
  BY <1>1, <1>2 DEF Path
<1>5. ~(Len(s) <= Len(d))
  <2> SUFFICES ASSUME Len(s) <= Len(d) PROVE FALSE
    OBVIOUS
  <2>1. \A i \in 1..Len(s) : i \in 1..Len(d)
    BY <1>4
  <2>2. \A i \in 1..Len(s) : s[i] = d[i]
    BY <1>1, <1>2, <1>3, <2>1
  <2> QED
    BY <2>2, PrefixDef
<1>6. Len(s) = Len(q)
  BY <1>3, <1>4, <1>5
<1> QED
  BY <1>2, <1>3, <1>6, SeqEqual DEF Path

(* A careful command's links add, or move what there is.                   *)
LEMMA CarefulKeeps ==
  ASSUME CommandsAreSound, ShellOK, NEW p \in Proc, Did(p), Sh!Careful(run[p].c)
  PROVE  Sh!Texts(volumes) \subseteq Sh!Texts(volumes')
<1> DEFINE c == run[p].c
<1>1. RunOK(run[p]) /\ c \in Command /\ CommandIsSound(c) /\ Writes(c) \subseteq Path /\ DOMAIN volumes \subseteq Path
  BY WritesArePaths DEF ShellOK, RunOK, CommandsAreSound
<1>2. PICK ops \in Sh!Requests(p, run[p]) : Sh!Served(ops) = "ok" /\ volumes' = Sh!AllLinked(ops)
  BY DEF Did
<1>3. CASE OneLink(p, run[p], ops)
  <2>1. volumes' = Sh!Put(volumes, ops[1].path, ops[1].new) /\ Sh!At(volumes, ops[1].path) = Sh!Missing
    BY <1>2, <1>3, OneLinkDoes
  <2>2. ops[1].path \in Path /\ DOMAIN ops[1].new \subseteq Path
    BY <1>1, <1>3 DEF OneLink
  <2> QED
    BY <1>1, <2>1, <2>2, PutAdds, AddsKeeps
<1>4. CASE Moves(run[p], ops)
  <2>1. PICK q \in Into(c) :
          /\ volumes' = Sh!Put(Sh!Put(volumes, q, Sh!At(volumes, c.src)), c.src, Sh!Missing)
          /\ Sh!At(volumes, q) = Sh!Missing
    BY <1>1, <1>2, <1>4, MovesDoes
  <2>2. c.cmd = "mv" /\ q \in Path /\ c.src \in Path /\ c.src # <<>> /\ c.dest \in Path
    BY <1>1, <1>4 DEF Moves, Writes, CommandIsSound
  <2>3. q \in {c.dest, Append(c.dest, Sh!Last(c.src))}
    BY <1>1, <2>2, CandidatesAre DEF Into
  <2>4. ~N!IsPrefix(c.src, c.dest)
    BY <2>2, SameOperators DEF Sh!Careful
  <2>5. ASSUME N!IsPrefix(c.src, q) PROVE q = c.src
    <3>1. q = Append(c.dest, Sh!Last(c.src)) /\ Sh!Last(c.src) \in Word
      BY <2>2, <2>3, <2>4, <2>5 DEF Sh!Last, Path
    <3> QED
      BY <2>2, <2>4, <2>5, <3>1, PrefixOfAppend
  <2> QED
    BY <1>1, <2>1, <2>2, <2>5, MoveKeepsTexts
<1> QED
  BY <1>1, <1>2, <1>3, <1>4, RequestsAre DEF Did

(* NothingVanishes: mv, mkdir and unzip without force, and send, lose      *)
(* nothing, whatever the other pages do between their lookups and links.   *)
THEOREM CarefulCommandsLoseNothing == CommandsAreSound => (Sh!Spec => NothingVanishes)
<1> SUFFICES ASSUME CommandsAreSound PROVE Sh!Spec => NothingVanishes
  OBVIOUS
<1> DEFINE Kept == \A p \in Proc : run'[p] # run[p] /\ Sh!Careful(run[p].c) => Sh!Texts(volumes) \subseteq Sh!Texts(volumes')
<1>1. ShellOK /\ [Sh!Next]_(Sh!shellVars) => ShellOK' /\ [Kept]_(Sh!shellVars)
  <2> SUFFICES ASSUME ShellOK, [Sh!Next]_(Sh!shellVars) PROVE ShellOK' /\ [Kept]_(Sh!shellVars)
    OBVIOUS
  <2>1. CASE UNCHANGED Sh!shellVars
    BY <2>1 DEF Sh!shellVars, ShellOK, RunOK, Place, Sh!Over
  <2>2. CASE Sh!Next
    <3>1. PICK p \in Proc : Steps(p)
      BY <2>2, StepIs
    <3>2. ASSUME NEW q \in Proc, run'[q] # run[q], Sh!Careful(run[q].c)
          PROVE  Sh!Texts(volumes) \subseteq Sh!Texts(volumes')
      <4>1. q = p
        BY <3>1, <3>2 DEF Steps, ShellOK
      <4> QED
        BY <3>1, <3>2, <4>1, CarefulKeeps DEF Steps
    <3> QED
      BY <3>1, <3>2, StepTypes
  <2> QED
    BY <2>1, <2>2
<1>2. Sh!Init => ShellOK
  BY ShellInit
<1> QED
  BY <1>1, <1>2, PTL DEF Sh!Spec, NothingVanishes, Sh!NothingVanishes

(* Whoever does not send writes away from the inboxes: neither at them,    *)
(* nor above nor below.                                                    *)
InboxesApart ==
  \A c, d \in Command : c.cmd = "send" /\ d.cmd # "send" =>
    \A q \in Writes(d) : ~N!IsPrefix(q, c.dest) /\ ~N!IsPrefix(c.dest, q)

(* What a message has in it is not taken for a directory.                  *)
MessagesAreNoDirs == \A p \in Proc : Dir # {p}

MailOK ==
  \A p \in Proc : run[p].c.cmd = "send" /\ run[p].pc = "done" => HasBelow(volumes, run[p].c.dest, p)

(* What is in an inbox stays there, whoever makes a link.                  *)
LEMMA InboxKeeps ==
  ASSUME CommandsAreSound, InboxesApart, ShellOK, NEW p \in Proc, Did(p),
         NEW c \in Command, c.cmd = "send", NEW x, HasBelow(volumes, c.dest, x)
  PROVE  HasBelow(volumes', c.dest, x)
<1> DEFINE d == run[p].c
<1>1. /\ RunOK(run[p]) /\ d \in Command /\ Writes(d) \subseteq Path /\ DOMAIN volumes \subseteq Path
      /\ c.dest \in Path
  BY WritesArePaths DEF ShellOK, RunOK, CommandsAreSound, CommandIsSound
<1>2. PICK ops \in Sh!Requests(p, run[p]) : Sh!Served(ops) = "ok" /\ volumes' = Sh!AllLinked(ops)
  BY DEF Did
<1>3. CASE OneLink(p, run[p], ops)
  <2>1. /\ volumes' = Sh!Put(volumes, ops[1].path, ops[1].new)
        /\ Sh!Careful(d) => Sh!At(volumes, ops[1].path) = Sh!Missing
    BY <1>2, <1>3, OneLinkDoes
  <2>2. ops[1].path \in Path /\ ops[1].path \in Writes(d) /\ DOMAIN ops[1].new \subseteq Path
    BY <1>1, <1>3 DEF OneLink
  <2>3. CASE d.cmd = "send"
    <3>1. Sh!Careful(d)
      BY <2>3 DEF Sh!Careful
    <3> QED
      BY <1>1, <2>1, <2>2, <3>1, PutAdds, AddsKeeps
  <2>4. CASE d.cmd # "send"
    <3>1. ~N!IsPrefix(ops[1].path, c.dest) /\ ~N!IsPrefix(c.dest, ops[1].path)
      BY <1>1, <2>2, <2>4 DEF InboxesApart
    <3> QED
      BY <1>1, <2>1, <2>2, <3>1, PutApart
  <2> QED
    BY <2>3, <2>4
<1>4. CASE Moves(run[p], ops)
  <2>1. PICK q \in Into(d) : volumes' = Sh!Put(Sh!Put(volumes, q, run[p].saw), d.src, Sh!Missing)
    BY <1>1, <1>2, <1>4, MovesDoes
  <2>2. d.cmd = "mv" /\ q \in Writes(d) /\ d.src \in Writes(d) /\ q \in Path /\ d.src \in Path
    BY <1>1, <1>4 DEF Moves, Writes
  <2>3. /\ ~N!IsPrefix(q, c.dest) /\ ~N!IsPrefix(c.dest, q)
        /\ ~N!IsPrefix(d.src, c.dest) /\ ~N!IsPrefix(c.dest, d.src)
    BY <1>1, <2>2 DEF InboxesApart
  <2>4. DOMAIN run[p].saw \subseteq Path /\ DOMAIN Sh!Missing \subseteq Path
    BY <1>1, NodesAre DEF RunOK
  <2>5. /\ DOMAIN Sh!Put(volumes, q, run[p].saw) \subseteq Path
        /\ HasBelow(Sh!Put(volumes, q, run[p].saw), c.dest, x)
    BY <1>1, <2>2, <2>3, <2>4, PutPaths, PutApart
  <2> QED
    BY <1>1, <2>1, <2>2, <2>3, <2>4, <2>5, PutApart
<1> QED
  BY <1>1, <1>2, <1>3, <1>4, RequestsAre DEF Did

LEMMA SendArrives ==
  ASSUME CommandsAreSound, MessagesAreNoDirs, ShellOK, NEW p \in Proc, Did(p), run[p].c.cmd = "send"
  PROVE  HasBelow(volumes', run[p].c.dest, p)
<1> DEFINE c == run[p].c
<1>1. /\ RunOK(run[p]) /\ c \in Command /\ Writes(c) \subseteq Path /\ DOMAIN volumes \subseteq Path
      /\ c.dest \in Path
  BY WritesArePaths DEF ShellOK, RunOK, CommandsAreSound, CommandIsSound
<1>2. PICK ops \in Sh!Requests(p, run[p]) : Sh!Served(ops) = "ok" /\ volumes' = Sh!AllLinked(ops)
  BY DEF Did
<1>3. OneLink(p, run[p], ops)
  BY <1>1, <1>2, RequestsAre DEF Did, Moves
<1>4. PICK name \in MailName : ops[1].path = Append(c.dest, name)
  BY <1>3 DEF OneLink, Writes
<1>5. PICK q : q = ops[1].path
  OBVIOUS
<1>6. q \in Path /\ N!IsPrefix(c.dest, q) /\ q \o <<>> = q /\ <<>> \in Path
  <2>1. name \in Word
    BY DEF CommandsAreSound
  <2>2. q \in Path /\ Len(q) = Len(c.dest) + 1 /\ \A i \in 1..Len(c.dest) : q[i] = c.dest[i]
    BY <1>1, <1>4, <1>5, <2>1 DEF Path
  <2>3. Len(c.dest) \in Nat
    BY <1>1 DEF Path
  <2>4. N!IsPrefix(c.dest, q)
    BY <1>1, <2>2, <2>3, PrefixDef
  <2> QED
    BY <2>2, <2>4, ConcatEmptySeq DEF Path
<1>7. PICK v : v = Sh!TextFile({p})
  OBVIOUS
<1>8. DOMAIN v \subseteq Path /\ <<>> \in DOMAIN v /\ v[<<>>] = {p}
  BY <1>7, NodesAre DEF Sh!TextFile
<1>9. PICK new : new = N!Put(volumes, q, v)
  OBVIOUS
<1>10. \A r \in Path : (q \o r \in DOMAIN new <=> r \in DOMAIN v) /\ (r \in DOMAIN v => new[q \o r] = v[r])
  <2>1. DOMAIN volumes \subseteq Path /\ q \in Path /\ DOMAIN v \subseteq Path
    BY <1>1, <1>6, <1>8
  <2> QED
    BY ONLY <1>9, <2>1, PutIs
<1>11. q \in DOMAIN new /\ new[q] = {p}
  BY ONLY <1>6, <1>8, <1>10
<1>12. volumes' = new
  BY <1>2, <1>3, <1>5, <1>7, <1>9, OneLinkDoes, SameOperators DEF OneLink
<1> QED
  BY <1>6, <1>11, <1>12 DEF HasBelow, MessagesAreNoDirs

LEMMA MailStep ==
  ASSUME CommandsAreSound, InboxesApart, MessagesAreNoDirs, ShellOK, MailOK, NEW p \in Proc, Steps(p)
  PROVE  MailOK'
<1>1. PICK r : /\ r.c = run[p].c /\ run' = [run EXCEPT ![p] = r]
               /\ r.c.cmd = "send" /\ r.pc = "done" => Did(p)
  BY DEF Steps
<1>2. \A q \in Proc : run'[q] = IF q = p THEN r ELSE run[q]
  BY <1>1 DEF ShellOK
<1>3. ASSUME NEW q \in Proc, run'[q].c.cmd = "send", run'[q].pc = "done"
      PROVE  HasBelow(volumes', run'[q].c.dest, q)
  <2>1. CASE q = p
    BY <1>1, <1>2, <1>3, <2>1, SendArrives
  <2>2. CASE q # p
    <3>1. run'[q] = run[q] /\ run[q].c \in Command /\ HasBelow(volumes, run[q].c.dest, q)
      BY <1>2, <1>3, <2>2 DEF MailOK, ShellOK, RunOK
    <3>2. CASE volumes' = volumes
      BY <3>1, <3>2
    <3>3. CASE Did(p)
      BY <1>3, <3>1, <3>3, InboxKeeps
    <3> QED
      BY <3>2, <3>3 DEF Steps
  <2> QED
    BY <2>1, <2>2
<1>4. (\A q \in Proc : run[q].c.cmd = "send" /\ run[q].pc = "done" => HasBelow(volumes, run[q].c.dest, q))'
  BY <1>3 DEF HasBelow
<1> QED
  BY <1>4 DEF MailOK

(* MailKept: what send said it sent is in the inbox.                       *)
THEOREM MailStaysKept ==
  CommandsAreSound /\ InboxesApart /\ MessagesAreNoDirs => (Sh!Spec => []MailKept)
<1> SUFFICES ASSUME CommandsAreSound, InboxesApart, MessagesAreNoDirs PROVE Sh!Spec => []MailKept
  OBVIOUS
<1>1. Sh!Init => ShellOK /\ MailOK
  <2> SUFFICES ASSUME Sh!Init PROVE ShellOK /\ MailOK
    OBVIOUS
  <2>1. ASSUME NEW p \in Proc, run[p].c.cmd = "send" PROVE run[p].pc = "link"
    BY <2>1 DEF Sh!Init, Sh!Start
  <2> QED
    BY <2>1, ShellInit DEF MailOK
<1>2. ShellOK /\ MailOK /\ [Sh!Next]_(Sh!shellVars) => ShellOK' /\ MailOK'
  <2> SUFFICES ASSUME ShellOK, MailOK, [Sh!Next]_(Sh!shellVars) PROVE ShellOK' /\ MailOK'
    OBVIOUS
  <2>1. CASE UNCHANGED Sh!shellVars
    BY <2>1 DEF Sh!shellVars, ShellOK, MailOK, RunOK, Place, Sh!Over, HasBelow
  <2>2. CASE Sh!Next
    BY <2>2, StepIs, StepTypes, MailStep
  <2> QED
    BY <2>1, <2>2
<1>3. ShellOK /\ MailOK => MailKept
  <2> SUFFICES ASSUME ShellOK, MailOK, NEW p \in Proc, run[p].c.cmd = "send", run[p].pc = "done"
               PROVE  p \in Sh!Texts(Sh!At(volumes, run[p].c.dest))
    BY DEF MailKept, Sh!MailKept
  <2>1. DOMAIN volumes \subseteq Path /\ run[p].c.dest \in Path /\ HasBelow(volumes, run[p].c.dest, p)
    BY DEF ShellOK, RunOK, MailOK, CommandsAreSound, CommandIsSound
  <2> QED
    BY <2>1, TextsBelow
<1> QED
  BY <1>1, <1>2, <1>3, PTL DEF Sh!Spec
=============================================================================
