---------------------------- MODULE Client_proofs ----------------------------
(***************************************************************************)
(* Proofs about the programs of the desktop and what they run in, each on  *)
(* its own instance and for all values of its constants.                   *)
(***************************************************************************)
EXTENDS Desktop, SequenceTheorems, FiniteSetTheorems, WellFoundedInduction, TLAPS

-----------------------------------------------------------------------------
LEMMA LeastNumber ==
  ASSUME NEW S, S \subseteq Nat, S # {}
  PROVE  \E m \in S : \A n \in S : m <= n
<1> DEFINE R == OpToRel(<, Nat)
<1>1. IsWellFoundedOn(R, Nat)
  BY NatLessThanWellFounded
<1>2. \A x \in Nat, y \in Nat : <<x, y>> \in R <=> x < y
  BY DEF OpToRel
<1> HIDE DEF R
<1>3. PICK m \in S : \A y \in S : ~ (<<y, m>> \in R)
  BY <1>1, WFMin
<1>4. ASSUME NEW n \in S PROVE m <= n
  <2>1. m \in Nat /\ n \in Nat /\ <<n, m>> \notin R
    BY <1>3
  <2>2. ~(n < m)
    BY <1>2, <2>1
  <2> QED
    BY <2>1, <2>2
<1> QED
  BY <1>4
-----------------------------------------------------------------------------
(* The window manager and its toasts.                                      *)

Live == {instances[i] : i \in 1..Len(instances)}

LEMMA LiveIs == ASSUME instances \in Seq(Widget) PROVE V!ToSet(instances) = Live
BY DEF V!ToSet, Live

LEMMA CurrentIs ==
  ASSUME instances \in Seq(Widget), visible \subseteq Live
  PROVE  IF visible = {} THEN V!Current = NoWidget ELSE V!Current \in visible
<1> DEFINE Where == {i \in 1..Len(instances) : instances[i] \in visible}
<1>1. CASE visible = {}
  BY <1>1 DEF V!Current
<1>2. CASE visible # {}
  <2>1. Where # {} /\ Where \subseteq Nat
    BY <1>2 DEF Live
  <2>2. \E m \in Where : \A n \in Where : m <= n
    BY <2>1, LeastNumber
  <2>3. V!Min(Where) \in Where
    BY <2>2 DEF V!Min
  <2>4. V!Current = instances[V!Min(Where)]
    BY <1>2, <2>1 DEF V!Current, V!SelectInSeq
  <2> QED
    BY <1>2, <2>3, <2>4
<1> QED
  BY <1>1, <1>2

(* _instances without one of its entries: splice at its index.             *)
LEMMA RemovedOne ==
  ASSUME instances \in Seq(Widget), NEW x
  PROVE  LET new == V!RemoveFirst(instances, x) IN
         /\ new \in Seq(Widget)
         /\ {new[i] : i \in 1..Len(new)} \subseteq Live
         /\ Live \ {x} \subseteq {new[i] : i \in 1..Len(new)}
<1> DEFINE s == instances
           n == Len(s)
           Where == {i \in 1..n : s[i] = x}
           k == V!Min(Where)
           before == SubSeq(s, 1, k - 1)
           after == SubSeq(s, k + 1, n)
           new == before \o after
<1>0. n \in Nat
  OBVIOUS
<1>1. CASE Where = {}
  BY <1>1 DEF V!RemoveFirst, Live
<1>2. CASE Where # {}
  <2>1. k \in Where
    <3>1. Where \subseteq Nat
      OBVIOUS
    <3> HIDE DEF Where
    <3>2. \E m \in Where : \A j \in Where : m <= j
      BY <1>2, <3>1, LeastNumber
    <3> QED
      BY <3>2 DEF V!Min
  <2>2. V!RemoveFirst(instances, x) = new
    BY <1>2 DEF V!RemoveFirst, V!RemoveAt, V!SelectInSeq
  <2> HIDE DEF k
  <2>3. k \in Nat /\ 1 <= k /\ k <= n /\ s[k] = x
    BY <2>1
  <2>4. /\ before \in Seq(Widget) /\ Len(before) = k - 1
        /\ \A i \in 1..(k - 1) : before[i] = s[i]
    BY <2>3
  <2>5. /\ after \in Seq(Widget) /\ Len(after) = n - k
        /\ \A i \in 1..(n - k) : after[i] = s[k + i]
    <3>1. \A i \in (k + 1)..n : s[i] \in Widget
      BY <2>3
    <3>2. CASE k + 1 <= n
      BY <1>0, <2>3, <3>1, <3>2
    <3>3. CASE ~(k + 1 <= n)
      BY <1>0, <2>3, <3>1, <3>3
    <3> QED
      BY <3>2, <3>3
  <2> HIDE DEF before, after
  <2>6. /\ new \in Seq(Widget) /\ Len(new) = n - 1
        /\ \A i \in 1..(k - 1) : new[i] = s[i]
        /\ \A i \in k..(n - 1) : new[i] = s[i + 1]
    <3>1. /\ new \in Seq(Widget) /\ Len(new) = Len(before) + Len(after)
          /\ \A i \in 1..(Len(before) + Len(after)) :
               new[i] = IF i <= Len(before) THEN before[i] ELSE after[i - Len(before)]
      BY <2>4, <2>5, ConcatProperties
    <3>2. Len(before) + Len(after) = n - 1
      BY <1>0, <2>3, <2>4, <2>5
    <3>3. ASSUME NEW i \in k..(n - 1) PROVE new[i] = s[i + 1]
      <4>1. i \in 1..(n - 1) /\ ~(i <= k - 1) /\ i - (k - 1) \in 1..(n - k) /\ k + (i - (k - 1)) = i + 1
        BY <1>0, <2>3, <3>3
      <4>2. new[i] = after[i - (k - 1)]
        BY <2>4, <3>1, <3>2, <4>1
      <4> QED
        BY <2>5, <4>1, <4>2
    <3>4. ASSUME NEW i \in 1..(k - 1) PROVE new[i] = s[i]
      BY <1>0, <2>3, <2>4, <3>1, <3>2
    <3> QED
      BY <3>1, <3>2, <3>3, <3>4
  <2> HIDE DEF new
  <2>7. ASSUME NEW i \in 1..(n - 1) PROVE new[i] \in Live
    <3>1. i \in 1..(k - 1) \/ i \in k..(n - 1)
      BY <1>0, <2>3
    <3> QED
      BY <1>0, <2>3, <2>6, <3>1 DEF Live
  <2>8. ASSUME NEW i \in 1..n, s[i] # x PROVE \E j \in 1..(n - 1) : new[j] = s[i]
    <3>1. CASE i < k
      BY <1>0, <2>3, <2>6, <3>1
    <3>2. CASE i > k
      <4>1. i - 1 \in k..(n - 1) /\ i - 1 + 1 = i /\ i - 1 \in 1..(n - 1)
        BY <1>0, <2>3, <3>2
      <4>2. new[i - 1] = s[i - 1 + 1]
        BY <2>6, <4>1
      <4> QED
        BY <4>1, <4>2
    <3> QED
      BY <1>0, <2>3, <2>8, <3>1, <3>2
  <2> HIDE DEF s, n, new
  <2>9. {new[i] : i \in 1..Len(new)} = {new[i] : i \in 1..(n - 1)} /\ Live = {s[i] : i \in 1..n}
    BY <2>6 DEF Live, s, n
  <2>10. {new[i] : i \in 1..(n - 1)} \subseteq Live
    BY <2>7
  <2>11. Live \ {x} \subseteq {new[i] : i \in 1..(n - 1)}
    BY <2>8, <2>9
  <2> QED
    BY <2>2, <2>6, <2>9, <2>10, <2>11
<1> QED
  BY <1>1, <1>2

(* The widgets: those that are visible live, and so does the one in the    *)
(* body; without overlapping calls there is one at most, being made or     *)
(* seen, and the title bar speaks of the one in the body.                  *)
WindowsOK ==
  /\ instances \in Seq(Widget)
  /\ visible \subseteq Live
  /\ mounted => body \in Live
  /\ ~overlapped => /\ \A v, w \in visible : v = w
                    /\ \A v, w \in opening : v = w
                    /\ opening # {} => visible = {}
                    /\ mounted => title = body
                    /\ mounted /\ visible # {} => body \in visible

ToastsOK ==
  /\ shown \subseteq Toast
  /\ \A t \in shown : t \in leaving \/ toastTimer = t
  /\ toastTimer \in {NoToast, toastEl}

(* No widget and no toast are none of them.                                *)
NamesApart == NoWidget \notin Widget /\ NoToast \notin Toast

LEMMA WindowsStep ==
  ASSUME NoWidget \notin Widget, WindowsOK, [V!Next]_(V!overlayVars)
  PROVE  WindowsOK'
<1>0. IF visible = {} THEN V!Current = NoWidget ELSE V!Current \in visible
  BY CurrentIs DEF WindowsOK
<1>1. CASE UNCHANGED V!windows
  BY <1>1 DEF WindowsOK, Live, V!windows
<1>2. ASSUME NEW w \in Widget, V!Open(w) PROVE WindowsOK'
  BY <1>0, <1>2 DEF WindowsOK, Live, V!Open
<1>3. ASSUME NEW w \in Widget, V!Opened(w) PROVE WindowsOK'
  <2>1. /\ w \in opening /\ opening' = opening \ {w} /\ visible' = visible \union {w}
        /\ instances' = Append(instances, w) /\ body' = w /\ title' = w /\ mounted' = TRUE
        /\ overlapped' = overlapped
    BY <1>3 DEF V!Opened, V!Attach
  <2>2. instances' \in Seq(Widget) /\ Live' = Live \union {w}
    <3>1. /\ instances' \in Seq(Widget) /\ Len(instances') = Len(instances) + 1
          /\ \A i \in 1..Len(instances) : instances'[i] = instances[i]
          /\ instances'[Len(instances) + 1] = w
      BY <2>1 DEF WindowsOK
    <3>2. Len(instances) \in Nat
      BY DEF WindowsOK
    <3>3. 1..(Len(instances) + 1) = 1..Len(instances) \union {Len(instances) + 1}
      BY <3>2
    <3> QED
      BY <3>1, <3>2, <3>3 DEF Live
  <2> QED
    BY <2>1, <2>2 DEF WindowsOK
<1>4. ASSUME NEW w \in Widget, V!OpenFails(w) PROVE WindowsOK'
  BY <1>4 DEF WindowsOK, Live, V!OpenFails
<1>5. ASSUME NEW w \in Widget, V!Update(w) PROVE WindowsOK'
  <2>1. w = V!Current /\ title' = w
        /\ UNCHANGED <<instances, visible, opening, mounted, body, overlapped>>
    BY <1>5 DEF V!Update, V!MaySync
  <2>2. w \in visible
    BY <1>0, <2>1
  <2> QED
    BY <2>1, <2>2 DEF WindowsOK, Live
<1>6. CASE V!Close
  <2>1. /\ instances' = V!RemoveFirst(instances, V!Current)
        /\ visible' = visible \ {V!Current} /\ mounted' = FALSE
        /\ UNCHANGED <<opening, overlapped>>
    BY <1>6 DEF V!Close
  <2>2. instances' \in Seq(Widget) /\ Live \ {V!Current} \subseteq Live'
    <3> DEFINE new == V!RemoveFirst(instances, V!Current)
    <3>1. new \in Seq(Widget) /\ Live \ {V!Current} \subseteq {new[i] : i \in 1..Len(new)}
      BY RemovedOne DEF WindowsOK
    <3> HIDE DEF new
    <3>2. Live' = {new[i] : i \in 1..Len(new)}
      BY <2>1 DEF Live, new
    <3> QED
      BY <2>1, <3>1, <3>2 DEF new
  <2>3. visible' \subseteq Live'
    BY <2>1, <2>2 DEF WindowsOK
  <2> QED
    BY <2>1, <2>2, <2>3 DEF WindowsOK
<1>7. CASE V!Hide
  BY <1>7 DEF WindowsOK, Live, V!Hide
<1>8. CASE V!Show
  BY <1>0, <1>8 DEF WindowsOK, Live, V!Show, V!Attach
<1> QED
  BY <1>1, <1>2, <1>3, <1>4, <1>5, <1>6, <1>7, <1>8
     DEF V!Next, V!overlayVars, V!windows, V!ShowToast, V!Click, V!Faded, V!TimerFires

LEMMA ToastsStep ==
  ASSUME NoToast \notin Toast, ToastsOK, [V!Next]_(V!overlayVars)
  PROVE  ToastsOK'
<1>1. CASE UNCHANGED V!toasts
  BY <1>1 DEF ToastsOK, V!toasts
<1>2. ASSUME NEW t \in Toast, V!ShowToast(t) PROVE ToastsOK'
  BY <1>2 DEF ToastsOK, V!ShowToast
<1>3. ASSUME NEW t \in Toast, V!Click(t) PROVE ToastsOK'
  BY <1>3 DEF ToastsOK, V!Click, V!Dismiss
<1>4. ASSUME NEW t \in Toast, V!Faded(t) PROVE ToastsOK'
  BY <1>4 DEF ToastsOK, V!Faded, V!Forgets
<1>5. CASE V!TimerFires
  BY <1>5 DEF ToastsOK, V!TimerFires, V!Dismiss
<1> QED
  BY <1>1, <1>2, <1>3, <1>4, <1>5
     DEF V!Next, V!overlayVars, V!toasts, V!Open, V!Opened, V!OpenFails, V!Update,
         V!Close, V!Hide, V!Show

(* What the page shows is a widget that lives, with its own title as long  *)
(* as no two openWidget overlap, and no toast stays for ever.              *)
THEOREM PageStaysSound == NamesApart => (V!Spec => []PageIsSound)
<1> SUFFICES ASSUME NamesApart PROVE V!Spec => []PageIsSound
  OBVIOUS
<1> DEFINE Inv == WindowsOK /\ ToastsOK
<1>1. V!Init => Inv
  BY DEF V!Init, WindowsOK, ToastsOK, Live
<1>2. Inv /\ [V!Next]_(V!overlayVars) => Inv'
  BY WindowsStep, ToastsStep DEF NamesApart
<1>3. Inv => PageIsSound
  BY LiveIs DEF WindowsOK, ToastsOK, PageIsSound, V!PageIsSound
<1> QED
  BY <1>1, <1>2, <1>3, PTL DEF V!Spec
-----------------------------------------------------------------------------
(* The editor.                                                             *)

Saving(s) == save[s].stage # "idle"

EditorTypes ==
  /\ text \in Int /\ edits \in Nat /\ dirty \in BOOLEAN /\ during \in BOOLEAN
  /\ currentR \in File \union {NoFile}
  /\ loading \subseteq {-2, -3, E!Blank}
  /\ save \in [Saver -> [stage : {"idle", "link", "linked"}, file : File \union {NoFile},
                         text : Int, as : BOOLEAN]]
  /\ onServer \in [File -> Int]

(* Unless calls overlapped or the text changed under one of them, there is *)
(* one call at most; a save is of the text as it is and for its file, and  *)
(* what is loaded is a payload, what the file holds, or blank and of none. *)
CallsOK ==
  /\ \A r, s \in Saver : Saving(r) /\ Saving(s) => r = s
  /\ \A s \in Saver : Saving(s) =>
       /\ loading = {} /\ text # E!NoView /\ save[s].text = text
       /\ save[s].file \in File
       /\ ~save[s].as => save[s].file = currentR
       /\ save[s].stage \in {"link", "linked"}
       /\ save[s].stage = "linked" => onServer[save[s].file] = text
  /\ \/ loading = {}
     \/ text = E!NoView /\ loading = {E!Blank} /\ currentR = NoFile
     \/ text = E!NoView /\ loading = {-3}
     \/ text = E!NoView /\ loading = {-2} /\ currentR \in File /\ onServer[currentR] = -2

EditorOK == EditorTypes /\ (~during => CallsOK) /\ E!CleanIsSaved

LEMMA EditorInitially == NoFile \notin File /\ E!Init => EditorOK
<1> SUFFICES ASSUME NoFile \notin File, E!Init PROVE EditorOK
  OBVIOUS
<1>1. EditorTypes
  <2>1. E!NoSave \in [stage : {"idle", "link", "linked"}, file : File \union {NoFile},
                     text : Int, as : BOOLEAN]
    BY DEF E!NoSave, E!NoView
  <2>2. onServer \in [File -> Int] /\ text \in Int /\ edits \in Nat
    BY DEF E!Init, E!FileText, E!NoView
  <2>3. loading \subseteq {-2, -3, E!Blank}
    BY DEF E!Init, E!Payload
  <2> QED
    BY <2>1, <2>2, <2>3 DEF E!Init, EditorTypes
<1>2. CallsOK
  BY DEF E!Init, E!NoSave, E!FileText, CallsOK, Saving, E!Blank, E!NoView, E!Payload
<1> QED
  BY <1>1, <1>2 DEF EditorOK, E!CleanIsSaved, E!Init

LEMMA EditorStep ==
  ASSUME NoFile \notin File, EditorOK, [E!Next]_(E!editorVars)
  PROVE  EditorOK'
<1> USE DEF E!Blank, E!NoView, E!Payload
<1>0. E!Busy \in BOOLEAN /\ (E!Busy <=> loading # {} \/ \E s \in Saver : Saving(s))
  BY DEF E!Busy, Saving
<1>1. CASE UNCHANGED E!editorVars
  BY <1>1 DEF E!editorVars, EditorOK, EditorTypes, CallsOK, Saving, E!CleanIsSaved
<1>2. CASE E!Mounted
  <2>1. PICK t \in loading : text' = t /\ loading' = loading \ {t}
    BY <1>2 DEF E!Mounted
  <2>2. /\ dirty' = FALSE /\ during' = (during \/ loading' # {})
        /\ UNCHANGED <<edits, currentR, save, onServer>>
    BY <1>2 DEF E!Mounted
  <2>3. EditorTypes'
    <3>1. text' \in Int
      BY <2>1 DEF EditorOK, EditorTypes
    <3>2. loading' \subseteq {-2, -3, E!Blank}
      BY <2>1 DEF EditorOK, EditorTypes
    <3> QED
      BY <2>2, <3>1, <3>2 DEF EditorOK, EditorTypes
  <2>4. ASSUME ~during'
        PROVE  /\ loading' = {} /\ \A s \in Saver : ~Saving(s)'
               /\ \/ text' = E!Payload
                  \/ text' = E!Blank /\ currentR' = NoFile
                  \/ currentR' \in File /\ text' = onServer'[currentR']
    BY <2>1, <2>2, <2>4 DEF EditorOK, CallsOK, Saving
  <2>5. ~during' => CallsOK'
    BY <2>4 DEF CallsOK
  <2> QED
    BY <2>3, <2>4, <2>5 DEF EditorOK, E!CleanIsSaved
<1>3. CASE E!LoadFails
  BY <1>3 DEF E!LoadFails, EditorOK, EditorTypes, CallsOK, Saving, E!CleanIsSaved
<1>4. CASE E!Type
  <2>1. /\ edits' = edits + 1 /\ text' = edits' /\ dirty' = TRUE /\ text # E!NoView
        /\ during' = (during \/ E!Busy)
        /\ UNCHANGED <<currentR, loading, save, onServer>>
    BY <1>4 DEF E!Type
  <2>2. EditorTypes' /\ E!CleanIsSaved'
    BY <2>1 DEF EditorOK, EditorTypes, E!CleanIsSaved
  <2>3. ASSUME ~during' PROVE CallsOK'
    <3>1. loading = {} /\ \A s \in Saver : ~Saving(s)
      BY <1>0, <2>1, <2>3
    <3>2. \A s \in Saver : ~Saving(s)'
      BY <2>1, <3>1 DEF Saving
    <3> QED
      BY <2>1, <3>1, <3>2 DEF CallsOK
  <2> QED
    BY <2>2, <2>3 DEF EditorOK
<1>5. ASSUME NEW s \in Saver, NEW f \in File \union {NoFile}, NEW saveAs \in BOOLEAN,
             ~saveAs => f = currentR, E!BeginSave(s, f, saveAs)
      PROVE  EditorOK'
  <2>1. /\ text # E!NoView /\ f \in File
        /\ save' = [save EXCEPT ![s] = [stage |-> "link", file |-> f, text |-> text, as |-> saveAs]]
        /\ during' = (during \/ E!Busy)
        /\ UNCHANGED <<text, edits, dirty, currentR, loading, onServer>>
    BY <1>5 DEF E!BeginSave
  <2>4. EditorTypes'
    BY <1>0, <2>1 DEF EditorOK, EditorTypes
  <2>2. CASE ~during'
    <3>1. ~during /\ loading = {} /\ \A r \in Saver : ~Saving(r)
      BY <1>0, <2>1, <2>2 DEF EditorOK, EditorTypes
    <3>2. \A r \in Saver : r # s => ~Saving(r)'
      BY <2>1, <3>1 DEF Saving, EditorOK, EditorTypes
    <3>3. save'[s] = [stage |-> "link", file |-> f, text |-> text, as |-> saveAs]
      BY <2>1 DEF EditorOK, EditorTypes
    <3>4. /\ save'[s].text = text' /\ save'[s].file \in File /\ save'[s].stage = "link"
          /\ ~save'[s].as => save'[s].file = currentR'
      <4>1. save'[s].as = saveAs /\ save'[s].file = f /\ currentR' = currentR
        BY <2>1, <3>3
      <4>2. save'[s].text = text' /\ save'[s].stage = "link"
        BY <2>1, <3>3
      <4> QED
        BY <1>5, <2>1, <4>1, <4>2
    <3>5. CallsOK'
      BY <2>1, <3>1, <3>2, <3>4 DEF CallsOK
    <3> QED
      BY <2>1, <2>4, <3>1, <3>5 DEF EditorOK, E!CleanIsSaved
  <2>3. CASE during'
    BY <2>1, <2>3, <2>4 DEF EditorOK, E!CleanIsSaved
  <2> QED
    BY <2>2, <2>3
<1>6. ASSUME NEW s \in Saver, E!Linked(s) PROVE EditorOK'
  <2>1. /\ save[s].stage = "link" /\ save' = [save EXCEPT ![s].stage = "linked"]
        /\ onServer' = [onServer EXCEPT ![save[s].file] = save[s].text]
        /\ UNCHANGED <<text, edits, dirty, currentR, loading, during>>
    BY <1>6 DEF E!Linked
  <2>2. CASE ~during
    <3>1. /\ CallsOK /\ Saving(s) /\ loading = {} /\ save[s].text = text /\ save[s].file \in File
          /\ \A r \in Saver : r # s => ~Saving(r)
      BY <2>1, <2>2 DEF EditorOK, CallsOK, Saving
    <3>2. \A r \in Saver : r # s => ~Saving(r)'
      BY <2>1, <3>1 DEF Saving, EditorOK, EditorTypes
    <3>3. /\ save'[s].stage = "linked" /\ save'[s].file = save[s].file
          /\ save'[s].text = save[s].text /\ save'[s].as = save[s].as
      BY <2>1 DEF EditorOK, EditorTypes
    <3>4. onServer'[save[s].file] = text /\ \A g \in File : onServer'[g] \in {onServer[g], text}
      BY <2>1, <3>1 DEF EditorOK, EditorTypes
    <3>5. CallsOK'
      BY <2>1, <3>1, <3>2, <3>3, <3>4 DEF CallsOK
    <3> QED
      BY <2>1, <2>2, <3>1, <3>4, <3>5 DEF EditorOK, EditorTypes, E!CleanIsSaved
  <2>3. CASE during
    BY <2>1, <2>3 DEF EditorOK, EditorTypes, E!CleanIsSaved
  <2> QED
    BY <2>2, <2>3 DEF EditorOK, EditorTypes
<1>7. ASSUME NEW s \in Saver, E!Saved(s) \/ E!SaveFails(s) PROVE EditorOK'
  <2>1. /\ Saving(s) /\ save' = [save EXCEPT ![s] = E!NoSave]
        /\ UNCHANGED <<text, edits, loading, onServer, during>>
        /\ \/ dirty' = FALSE /\ currentR' = (IF save[s].as THEN save[s].file ELSE currentR)
              /\ save[s].stage = "linked"
           \/ UNCHANGED <<dirty, currentR>>
    BY <1>7 DEF E!Saved, E!SaveFails, E!Failed, Saving
  <2>4. EditorTypes'
    <3>1. E!NoSave \in [stage : {"idle", "link", "linked"}, file : File \union {NoFile},
                       text : Int, as : BOOLEAN]
      BY DEF E!NoSave
    <3>2. dirty' \in BOOLEAN /\ currentR' \in File \union {NoFile}
      BY <2>1 DEF EditorOK, EditorTypes
    <3> QED
      BY <2>1, <3>1, <3>2 DEF EditorOK, EditorTypes
  <2>2. CASE ~during
    <3>1. /\ CallsOK /\ loading = {} /\ save[s].text = text /\ save[s].file \in File
          /\ ~save[s].as => save[s].file = currentR
          /\ save[s].stage = "linked" => onServer[save[s].file] = text
          /\ \A r \in Saver : r # s => ~Saving(r)
      BY <2>1, <2>2 DEF EditorOK, CallsOK
    <3>2. \A r \in Saver : ~Saving(r)'
      BY <2>1, <3>1 DEF Saving, EditorOK, EditorTypes, E!NoSave
    <3>3. CallsOK'
      BY <2>1, <3>1, <3>2 DEF CallsOK
    <3> QED
      BY <2>1, <2>2, <2>4, <3>1, <3>3 DEF EditorOK, E!CleanIsSaved
  <2>3. CASE during
    BY <2>1, <2>3, <2>4 DEF EditorOK, E!CleanIsSaved
  <2> QED
    BY <2>2, <2>3 DEF EditorOK, EditorTypes
<1>8. ASSUME E!Renew, UNCHANGED <<edits, save, onServer>> PROVE EditorOK'
  <2>1. /\ currentR' = NoFile /\ during' = (during \/ E!Busy)
        /\ \/ text # E!NoView /\ text' = E!Blank /\ dirty' = FALSE /\ loading' = loading
           \/ text = E!NoView /\ loading' = loading \union {E!Blank} /\ text' = text /\ dirty' = dirty
    BY <1>8 DEF E!Renew
  <2>4. EditorTypes'
    <3>1. during' \in BOOLEAN
      BY <1>0, <2>1 DEF EditorOK, EditorTypes
    <3>3. text' \in Int /\ currentR' = NoFile
      BY <2>1 DEF EditorOK, EditorTypes
    <3>4. dirty' \in BOOLEAN
      BY <2>1 DEF EditorOK, EditorTypes
    <3>2. loading' \subseteq {-2, -3, E!Blank}
      BY <2>1 DEF EditorOK, EditorTypes
    <3> QED
      BY <1>8, <3>1, <3>2, <3>3, <3>4 DEF EditorOK, EditorTypes
  <2>2. CASE ~during'
    <3>1. ~during /\ loading = {} /\ \A r \in Saver : ~Saving(r) /\ ~Saving(r)'
      BY <1>0, <1>8, <2>1, <2>2 DEF EditorOK, EditorTypes, Saving
    <3>2. CallsOK'
      BY <2>1, <3>1 DEF CallsOK
    <3> QED
      BY <1>8, <2>1, <2>4, <3>1, <3>2 DEF EditorOK, E!CleanIsSaved
  <2>3. CASE during'
    BY <1>8, <2>1, <2>3, <2>4 DEF EditorOK, E!CleanIsSaved
  <2> QED
    BY <2>2, <2>3
<1>9. ASSUME UNCHANGED <<text, edits, dirty, currentR, loading, save, onServer, during>>
      PROVE  EditorOK'
  BY <1>9 DEF EditorOK, EditorTypes, CallsOK, Saving, E!CleanIsSaved
<1>10. CASE E!NewDocument \/ E!CloseRequest \/ E!Cancel \/ E!Discard
  BY <1>8, <1>9, <1>10 DEF E!NewDocument, E!CloseRequest, E!Cancel, E!Discard
<1>11. CASE \E s \in Saver : E!Save(s) \/ E!SaveAs(s)
  <2>1. PICK s \in Saver : E!Save(s) \/ E!SaveAs(s)
    BY <1>11
  <2>2. CASE E!Save(s)
    BY <1>5, <2>2 DEF E!Save, EditorOK, EditorTypes
  <2>3. CASE E!SaveAs(s)
    BY <1>5, <2>3 DEF E!SaveAs
  <2> QED
    BY <2>1, <2>2, <2>3
<1> QED
  BY <1>1, <1>2, <1>3, <1>4, <1>6, <1>7, <1>10, <1>11 DEF E!Next

(* CleanIsSaved: unless the text or the file changed under a call, or it   *)
(* is a payload's as it was given, what is not marked as changed is what   *)
(* the file on the server holds, for any number of calls and of versions   *)
(* of the text.                                                            *)
THEOREM CleanStaysSaved == NoFile \notin File => (E!Spec => []CleanIsSaved)
<1> SUFFICES ASSUME NoFile \notin File PROVE E!Spec => []CleanIsSaved
  OBVIOUS
<1>1. E!Init => EditorOK
  BY EditorInitially
<1>2. EditorOK /\ [E!Next]_(E!editorVars) => EditorOK'
  BY EditorStep
<1>3. EditorOK => CleanIsSaved
  BY DEF EditorOK, CleanIsSaved
<1> QED
  BY <1>1, <1>2, <1>3, PTL DEF E!Spec
-----------------------------------------------------------------------------
(* The results of a line.                                                  *)

Places == {"new", "started", "object", "arguments", "import", "invoked", "value", "error"}
There(S) == \A a \in S : pc[a] = "value"
ObjectOf(r) == {line[r].prev} \ {NoResult}

(* What a result is built from is there from the place on where its        *)
(* executor has awaited it.                                                *)
ResultOK(r) ==
  /\ line[r].args \subseteq P!Result /\ line[r].prev \in P!Result \cup {NoResult}
  /\ line[r].returns \in P!Result \cup {NoResult}
  /\ runs[r] \in {0, 1}
  /\ runs[r] = 1 => pc[r] \in {"invoked", "value", "error"} /\ There(line[r].args)
  /\ pc[r] \in {"arguments", "import"} \/ runs[r] = 1 => There(ObjectOf(r))
  /\ pc[r] = "import" => There(line[r].args)

PipelineOK ==
  /\ pc \in [P!Result -> Places] /\ runs \in [P!Result -> Int]
  /\ \A r \in P!Result : ResultOK(r)

LEMMA PipelineInitially == P!Init => PipelineOK
BY DEF P!Init, P!Lines, PipelineOK, ResultOK, Places

(* A step of one executor: the result goes to its next place, and those it *)
(* awaits are started; what is settled stays so.                           *)
LEMMA ExecutorMoves ==
  ASSUME PipelineOK, NEW r \in P!Result, NEW place \in Places \ {"new"}, NEW S,
         P!At(r, place, S)
  PROVE  /\ pc' \in [P!Result -> Places]
         /\ pc'[r] = place
         /\ \A q \in P!Result : q # r => \/ pc'[q] = pc[q]
                                         \/ pc[q] = "new" /\ pc'[q] = "started"
<1> DEFINE at == [pc EXCEPT ![r] = place]
<1>1. at \in [P!Result -> Places] /\ at[r] = place /\ \A q \in P!Result : q # r => at[q] = pc[q]
  BY DEF PipelineOK
<1>2. pc' = [q \in P!Result |-> IF q \in S /\ at[q] = "new" THEN "started" ELSE at[q]]
  BY DEF P!At, P!Resolved
<1> HIDE DEF at
<1> QED
  BY <1>1, <1>2 DEF Places

(* What is there stays there, and so does all that relies on it.           *)
LEMMA WhatIsThereStays ==
  ASSUME PipelineOK, line' = line, NEW q \in P!Result,
         \A p \in P!Result : pc[p] = "value" => pc'[p] = "value"
  PROVE  /\ There(line[q].args) => There(line[q].args)'
         /\ There(ObjectOf(q)) => There(ObjectOf(q))'
BY DEF PipelineOK, ResultOK, There, ObjectOf

LEMMA ExecutorKeeps ==
  ASSUME PipelineOK, NEW r \in P!Result, NEW place \in Places \ {"new"}, NEW S,
         P!At(r, place, S), pc[r] # "value", line' = line,
         runs' \in [P!Result -> Int], runs'[r] \in {0, 1},
         \A q \in P!Result : q # r => runs'[q] = runs[q],
         runs'[r] = 1 => place \in {"invoked", "value", "error"} /\ There(line[r].args),
         place \in {"arguments", "import"} \/ runs'[r] = 1 => There(ObjectOf(r)),
         place = "import" => There(line[r].args)
  PROVE  PipelineOK'
<1>1. /\ pc' \in [P!Result -> Places] /\ pc'[r] = place
      /\ \A q \in P!Result : q # r => \/ pc'[q] = pc[q]
                                      \/ pc[q] = "new" /\ pc'[q] = "started"
  BY ExecutorMoves
<1>2. \A p \in P!Result : pc[p] = "value" => pc'[p] = "value"
  BY <1>1
<1>3. ResultOK(r)'
  BY <1>1, <1>2, WhatIsThereStays DEF PipelineOK, ResultOK
<1>4. ASSUME NEW q \in P!Result, q # r PROVE ResultOK(q)'
  <2>1. ResultOK(q) /\ runs'[q] = runs[q]
    BY <1>4 DEF PipelineOK
  <2>2. \/ pc'[q] = pc[q]
        \/ pc[q] = "new" /\ pc'[q] = "started"
    BY <1>1, <1>4
  <2> QED
    BY <1>2, <2>1, <2>2, WhatIsThereStays DEF ResultOK
<1> QED
  BY <1>1, <1>3, <1>4 DEF PipelineOK

LEMMA AwaitKeeps ==
  ASSUME PipelineOK, NEW r \in P!Result, P!Await(r)
  PROVE  PipelineOK'
<1>1. pc' = [q \in P!Result |-> IF q \in {r} /\ pc[q] = "new" THEN "started" ELSE pc[q]]
  BY DEF P!Await, P!Resolved
<1>2. \A q \in P!Result : \/ pc'[q] = pc[q]
                          \/ pc[q] = "new" /\ pc'[q] = "started"
  BY <1>1
<1>3. pc' \in [P!Result -> Places] /\ UNCHANGED <<line, runs>>
  BY <1>1 DEF P!Await, PipelineOK, Places
<1>4. ASSUME NEW q \in P!Result PROVE ResultOK(q)'
  BY <1>2, <1>3, WhatIsThereStays DEF PipelineOK, ResultOK
<1> QED
  BY <1>3, <1>4 DEF PipelineOK

LEMMA PipelineStep == PipelineOK /\ [P!Next]_(P!pipelineVars) => PipelineOK'
<1> SUFFICES ASSUME PipelineOK, [P!Next]_(P!pipelineVars) PROVE PipelineOK'
  OBVIOUS
<1>1. CASE UNCHANGED P!pipelineVars
  BY <1>1 DEF P!pipelineVars, PipelineOK, ResultOK, There, ObjectOf
<1>2. CASE P!Next
  <2>1. PICK r \in P!Result :
          \/ P!Await(r) \/ P!Begin(r) \/ P!ObjectThere(r) \/ P!ArgumentsThere(r)
          \/ P!Import(r) \/ P!CommandNotFound(r) \/ P!Returned(r) \/ P!Rejected(r)
    BY <1>2 DEF P!Next
  <2>2. ResultOK(r) /\ pc[r] \in Places /\ runs \in [P!Result -> Int]
    BY DEF PipelineOK
  <2>3. CASE P!Begin(r)
    BY <2>2, <2>3, ExecutorKeeps DEF P!Begin, ResultOK, Places
  <2>4. CASE P!ObjectThere(r)
    <3>1. There(ObjectOf(r)) /\ pc[r] = "object" /\ UNCHANGED <<line, runs>> /\ runs[r] = 0
      BY <2>2, <2>4 DEF P!ObjectThere, There, ObjectOf, ResultOK
    <3>2. PICK place \in {"value", "error", "arguments"} : \E S : P!At(r, place, S)
      BY <2>4 DEF P!ObjectThere
    <3> QED
      BY <2>2, <3>1, <3>2, ExecutorKeeps DEF Places
  <2>5. CASE P!ArgumentsThere(r)
    BY <2>2, <2>5, ExecutorKeeps DEF P!ArgumentsThere, There, ResultOK, Places
  <2>6. CASE P!Import(r)
    <3>1. /\ runs' \in [P!Result -> Int] /\ runs'[r] = 1
          /\ \A q \in P!Result : q # r => runs'[q] = runs[q]
      BY <2>2, <2>6 DEF P!Import, ResultOK
    <3>2. pc[r] = "import" /\ line' = line /\ \E S : P!At(r, "invoked", S)
      BY <2>6 DEF P!Import
    <3> QED
      BY <2>2, <3>1, <3>2, ExecutorKeeps DEF ResultOK, Places
  <2>7. CASE P!CommandNotFound(r)
    BY <2>2, <2>7, ExecutorKeeps DEF P!CommandNotFound, ResultOK, Places
  <2>8. CASE P!Returned(r)
    <3>1. pc[r] = "invoked" /\ UNCHANGED <<line, runs>>
      BY <2>8 DEF P!Returned
    <3>2. PICK place \in {"value", "error"} : \E S : P!At(r, place, S)
      BY <2>8 DEF P!Returned, P!Settled
    <3> QED
      BY <2>2, <3>1, <3>2, ExecutorKeeps DEF ResultOK, Places
  <2>9. CASE P!Rejected(r)
    <3>1. pc[r] \in {"object", "arguments"}
      BY <2>9 DEF P!Rejected, P!Awaited
    <3> QED
      BY <2>2, <2>9, <3>1, ExecutorKeeps DEF P!Rejected, ResultOK, Places
  <2> QED
    BY <2>1, <2>3, <2>4, <2>5, <2>6, <2>7, <2>8, <2>9, AwaitKeeps
<1> QED
  BY <1>1, <1>2

(* InvokedOnce: a program runs once at most, and on what is there and      *)
(* stays, for lines of any size built in any way.                          *)
THEOREM ProgramsRunOnce == P!Spec => []InvokedOnce
<1>1. PipelineOK => InvokedOnce
  BY DEF PipelineOK, ResultOK, There, ObjectOf, InvokedOnce, P!InvokedOnce
<1> QED
  BY <1>1, PipelineInitially, PipelineStep, PTL DEF P!Spec
-----------------------------------------------------------------------------
(* The project tracker.                                                    *)

Opens(o) == opens[o].stage # "idle"
Writes(w) == writes[w].stage # "idle"

OpenCalls == [stage : {"idle", "lookup", "text", "ensureDir", "save"},
              path : Path \union {NoPath}, found : Int]
WriteCalls == [stage : {"idle", "put", "link"}, data : Int, by : Path \union {NoPath}]

TrackerTypes ==
  /\ path \in Path \union {NoPath} /\ project \in Int /\ version \in Nat
  /\ timer \in BOOLEAN /\ failed \in BOOLEAN
  /\ opens \in [Opener -> OpenCalls] /\ writes \in [Writer -> WriteCalls]
  /\ file \in [Path -> Int] /\ dirs \subseteq Path
  /\ \A o \in Opener : Opens(o) => opens[o].path \in Path

(* A call of openProject works on the path of the widget, and what it has  *)
(* found is what the file holds; one that creates the project has found    *)
(* nothing, and makes its directory before it saves.                       *)
OpenOK(o) ==
  /\ path \in Path /\ opens[o].path = path /\ ~timer
  /\ opens[o].stage = "text" => opens[o].found = file[path] /\ file[path] # K!None
  /\ opens[o].stage \in {"ensureDir", "save"} => project = K!Empty
  /\ opens[o].stage = "save" => path \in dirs

(* A call of save writes the project as it is, to the widget's path.       *)
WriteOK(w) ==
  /\ path \in dirs /\ ~timer /\ project # K!None
  /\ writes[w].data = project
  /\ writes[w].stage = "link" => writes[w].by = path

NothingOpens == \A o \in Opener : ~Opens(o)
NothingWrites == \A w \in Writer : ~Writes(w)

TrackerCalls ==
  /\ \A p \in Path : file[p] # K!None => p \in dirs
  /\ \A o, q \in Opener : Opens(o) /\ Opens(q) => o = q
  /\ \A v, w \in Writer : Writes(v) /\ Writes(w) => v = w
  /\ NothingOpens \/ NothingWrites
  /\ \A o \in Opener : Opens(o) => OpenOK(o)
  /\ \A w \in Writer : Writes(w) => WriteOK(w)
  /\ timer => project # K!None
  /\ NothingOpens /\ project # K!None => path \in dirs
  /\ NothingOpens /\ NothingWrites /\ ~timer /\ project # K!None => file[path] = project

TrackerOK == TrackerTypes /\ (~failed => TrackerCalls)

LEMMA BusyMeans == /\ K!Busy \in BOOLEAN
                   /\ K!Busy <=> ~(NothingOpens /\ NothingWrites)
BY DEF K!Busy, K!Idle, NothingOpens, NothingWrites, Opens, Writes

LEMMA TrackerInitially == K!Init => TrackerOK
<1> SUFFICES ASSUME K!Init PROVE TrackerOK
  OBVIOUS
<1>1. K!NoOpen \in OpenCalls /\ K!NoWrite \in WriteCalls
  BY DEF K!NoOpen, K!NoWrite, OpenCalls, WriteCalls, K!None
<1>3. NothingOpens /\ NothingWrites
  BY DEF K!Init, NothingOpens, NothingWrites, Opens, Writes, K!NoOpen, K!NoWrite
<1>2. TrackerTypes
  <2>1. file \in [Path -> Int] /\ dirs \subseteq Path /\ project \in Int /\ version \in Nat
    BY DEF K!Init, K!None, K!Foreign, K!Empty
  <2>2. opens \in [Opener -> OpenCalls] /\ writes \in [Writer -> WriteCalls]
    BY <1>1 DEF K!Init
  <2> QED
    BY <2>1, <2>2, <1>3 DEF K!Init, TrackerTypes, NothingOpens
<1> QED
  BY <1>2, <1>3 DEF K!Init, TrackerOK, TrackerCalls, NothingOpens, NothingWrites

LEMMA OpensTo ==
  ASSUME TrackerTypes, NEW o \in Opener, NEW c \in OpenCalls, opens' = [opens EXCEPT ![o] = c]
  PROVE  /\ opens' \in [Opener -> OpenCalls] /\ opens'[o] = c
         /\ \A q \in Opener : q # o => opens'[q] = opens[q]
BY DEF TrackerTypes

LEMMA WritesTo ==
  ASSUME TrackerTypes, NEW w \in Writer, NEW c \in WriteCalls, writes' = [writes EXCEPT ![w] = c]
  PROVE  /\ writes' \in [Writer -> WriteCalls] /\ writes'[w] = c
         /\ \A v \in Writer : v # w => writes'[v] = writes[v]
BY DEF TrackerTypes

LEMMA OpenTypes ==
  ASSUME TrackerTypes, NEW o \in Opener, NEW c \in OpenCalls, opens' = [opens EXCEPT ![o] = c],
         c.stage # "idle" => c.path \in Path,
         path' \in Path \union {NoPath}, project' \in Int, version' \in Nat,
         timer' \in BOOLEAN, failed' \in BOOLEAN,
         writes' \in [Writer -> WriteCalls], file' \in [Path -> Int], dirs' \subseteq Path
  PROVE  TrackerTypes'
<1>1. \A q \in Opener : Opens(q)' => opens'[q].path \in Path
  BY OpensTo DEF Opens, TrackerTypes
<1> QED
  BY <1>1, OpensTo DEF TrackerTypes

LEMMA NoCalls == /\ K!NoOpen \in OpenCalls /\ K!NoOpen.stage = "idle"
                 /\ K!NoWrite \in WriteCalls /\ K!NoWrite.stage = "idle"
BY DEF K!NoOpen, K!NoWrite, OpenCalls, WriteCalls, K!None

(* Before a call that one makes while nothing is under way.                *)
LEMMA OpenProjectKeeps ==
  ASSUME TrackerOK, NEW o \in Opener, NEW p \in Path, K!OpenProject(o, p)
  PROVE  TrackerOK'
<1> DEFINE c == [K!NoOpen EXCEPT !.stage = "lookup", !.path = p]
<1>1. c \in OpenCalls /\ c.stage = "lookup" /\ c.path = p
  BY NoCalls DEF OpenCalls
<1>2. /\ opens' = [opens EXCEPT ![o] = c] /\ path' = p
      /\ failed' = (failed \/ K!Busy \/ timer)
      /\ UNCHANGED <<project, version, timer, writes, file, dirs>>
  BY DEF K!OpenProject
<1> HIDE DEF c
<1>3. opens' \in [Opener -> OpenCalls] /\ opens'[o] = c /\ \A q \in Opener : q # o => opens'[q] = opens[q]
  BY <1>1, <1>2, OpensTo DEF TrackerOK
<1>4. failed' \in BOOLEAN
  BY <1>2, BusyMeans DEF TrackerOK, TrackerTypes
<1>5. TrackerTypes'
  BY <1>1, <1>2, <1>4, OpenTypes DEF TrackerOK, TrackerTypes
<1>6. ASSUME ~failed' PROVE TrackerCalls'
  <2>1. ~timer /\ TrackerCalls /\ NothingOpens /\ NothingWrites
    BY <1>2, <1>6, BusyMeans DEF TrackerOK
  <2>2. NothingWrites' /\ \A q \in Opener : Opens(q)' => q = o
    BY <1>2, <1>3, <2>1 DEF NothingWrites, NothingOpens, Writes, Opens
  <2>3. OpenOK(o)' /\ ~NothingOpens'
    BY <1>1, <1>2, <1>3, <2>1 DEF OpenOK, NothingOpens, Opens
  <2> QED
    BY <1>2, <2>1, <2>2, <2>3 DEF TrackerCalls, NothingWrites
<1> QED
  BY <1>5, <1>6 DEF TrackerOK

(* The steps of a call of openProject that is under way: nothing else is.  *)
LEMMA OnlyOpens ==
  ASSUME TrackerOK, ~failed, NEW o \in Opener, Opens(o)
  PROVE  /\ TrackerCalls /\ NothingWrites /\ OpenOK(o)
         /\ \A q \in Opener : q # o => ~Opens(q)
BY DEF TrackerOK, TrackerCalls, NothingOpens

LEMMA OpenGoesOn ==
  ASSUME TrackerOK, ~failed, NEW o \in Opener, Opens(o),
         NEW c \in OpenCalls, opens' = [opens EXCEPT ![o] = c],
         c.path = opens[o].path, c.stage \in {"text", "ensureDir", "save"},
         c.stage = "text" => c.found = file[path] /\ file[path] # K!None,
         c.stage # "text" => project' = K!Empty,
         c.stage = "save" => path \in dirs',
         dirs \subseteq dirs', dirs' \subseteq Path,
         UNCHANGED <<path, timer, writes, file>>
  PROVE  TrackerCalls'
<1>1. /\ opens' \in [Opener -> OpenCalls] /\ opens'[o] = c
      /\ \A q \in Opener : q # o => opens'[q] = opens[q]
  BY OpensTo DEF TrackerOK
<1>2. /\ TrackerCalls /\ NothingWrites /\ OpenOK(o)
      /\ \A q \in Opener : q # o => ~Opens(q)
  BY OnlyOpens
<1>3. NothingWrites' /\ \A q \in Opener : q # o => ~Opens(q)'
  BY <1>1, <1>2 DEF NothingWrites, Writes, Opens
<1>4. Opens(o)' /\ OpenOK(o)'
  BY <1>1, <1>2 DEF OpenOK, Opens
<1>5. \A p \in Path : file'[p] # K!None => p \in dirs'
  BY <1>2 DEF TrackerCalls
<1>6. ~timer'
  BY <1>2 DEF OpenOK
<1> QED
  BY <1>3, <1>4, <1>5, <1>6 DEF TrackerCalls, NothingWrites, NothingOpens

LEMMA FoundKeeps ==
  ASSUME TrackerOK, NEW o \in Opener, K!Found(o)
  PROVE  TrackerOK'
<1> DEFINE c == [opens[o] EXCEPT !.stage = "text", !.found = file[opens[o].path]]
<1>1. /\ opens[o].stage = "lookup" /\ opens' = [opens EXCEPT ![o] = c]
      /\ file[opens[o].path] # K!None
      /\ UNCHANGED <<path, project, version, timer, writes, file, dirs, failed>>
  BY DEF K!Found
<1>2. /\ c.stage = "text" /\ c.path = opens[o].path /\ c.found = file[opens[o].path]
  BY DEF TrackerOK, TrackerTypes, OpenCalls
<1>3. c \in OpenCalls
  BY <1>1 DEF TrackerOK, TrackerTypes, OpenCalls, Opens
<1> HIDE DEF c
<1>4. Opens(o)
  BY <1>1 DEF Opens
<1>5. TrackerTypes'
  BY <1>1, <1>2, <1>3, <1>4, OpenTypes DEF TrackerOK, TrackerTypes
<1>6. ~failed => TrackerCalls'
  <2> SUFFICES ASSUME ~failed PROVE TrackerCalls'
    OBVIOUS
  <2>1. Opens(o) /\ opens[o].path = path
    BY <1>4, OnlyOpens DEF OpenOK
  <2> QED
    BY <1>1, <1>2, <1>3, <2>1, OpenGoesOn DEF TrackerOK, TrackerTypes
<1> QED
  BY <1>1, <1>5, <1>6 DEF TrackerOK

LEMMA NotLoadedKeeps ==
  ASSUME TrackerOK, NEW o \in Opener, K!NotLoaded(o)
  PROVE  TrackerOK'
<1> DEFINE c == [opens[o] EXCEPT !.stage = "ensureDir"]
<1>1. /\ opens[o].stage \in {"lookup", "text"} /\ opens' = [opens EXCEPT ![o] = c]
      /\ project' = K!Empty /\ failed' = (failed \/ file[opens[o].path] # K!None)
      /\ UNCHANGED <<path, version, timer, writes, file, dirs>>
  BY DEF K!NotLoaded
<1>2. c.stage = "ensureDir" /\ c.path = opens[o].path /\ c \in OpenCalls /\ Opens(o)
  BY <1>1 DEF TrackerOK, TrackerTypes, OpenCalls, Opens
<1> HIDE DEF c
<1>3. project' \in Int /\ failed' \in BOOLEAN
  BY <1>1 DEF K!Empty, TrackerOK, TrackerTypes
<1>4. TrackerTypes'
  BY <1>1, <1>2, <1>3, OpenTypes DEF TrackerOK, TrackerTypes
<1>5. ~failed' => TrackerCalls'
  BY <1>1, <1>2, OpenGoesOn DEF TrackerOK, TrackerTypes
<1> QED
  BY <1>4, <1>5 DEF TrackerOK

LEMMA EnsureDirKeeps ==
  ASSUME TrackerOK, NEW o \in Opener, K!EnsureDir(o)
  PROVE  TrackerOK'
<1> DEFINE c == [opens[o] EXCEPT !.stage = "save"]
<1>1. /\ opens[o].stage = "ensureDir" /\ opens' = [opens EXCEPT ![o] = c]
      /\ dirs' = dirs \union {opens[o].path}
      /\ UNCHANGED <<path, project, version, timer, writes, file, failed>>
  BY DEF K!EnsureDir
<1>2. c.stage = "save" /\ c.path = opens[o].path /\ c \in OpenCalls /\ Opens(o)
  BY <1>1 DEF TrackerOK, TrackerTypes, OpenCalls, Opens
<1> HIDE DEF c
<1>3. opens[o].path \in Path /\ dirs' \subseteq Path
  BY <1>1, <1>2 DEF TrackerOK, TrackerTypes
<1>4. TrackerTypes'
  BY <1>1, <1>2, <1>3, OpenTypes DEF TrackerOK, TrackerTypes
<1>5. ~failed => TrackerCalls'
  <2> SUFFICES ASSUME ~failed PROVE TrackerCalls'
    OBVIOUS
  <2>1. OpenOK(o)
    BY <1>2, OnlyOpens
  <2> QED
    BY <1>1, <1>2, <1>3, <2>1, OpenGoesOn DEF OpenOK
<1> QED
  BY <1>1, <1>4, <1>5 DEF TrackerOK

(* A call of openProject that is over, and leaves the project as it is on  *)
(* the server, or fails.                                                   *)
LEMMA OpenEnds ==
  ASSUME TrackerOK, NEW o \in Opener, Opens(o), opens' = [opens EXCEPT ![o] = K!NoOpen],
         project' \in Int, failed' \in BOOLEAN, failed => failed',
         UNCHANGED <<path, version, timer, writes, file, dirs>>,
         ~failed' => /\ project' = file[path] /\ path \in dirs
  PROVE  TrackerOK'
<1>1. /\ opens' \in [Opener -> OpenCalls] /\ opens'[o] = K!NoOpen
      /\ \A q \in Opener : q # o => opens'[q] = opens[q]
  BY NoCalls, OpensTo DEF TrackerOK
<1>2. TrackerTypes'
  BY NoCalls, OpenTypes DEF TrackerOK, TrackerTypes
<1>3. ASSUME ~failed' PROVE TrackerCalls'
  <2>1. TrackerCalls /\ NothingWrites /\ OpenOK(o) /\ \A q \in Opener : q # o => ~Opens(q)
    BY <1>3, OnlyOpens
  <2>2. NothingWrites' /\ NothingOpens'
    BY <1>1, <2>1, NoCalls DEF NothingWrites, NothingOpens, Writes, Opens
  <2>3. ~timer'
    BY <2>1 DEF OpenOK
  <2> QED
    BY <1>3, <2>1, <2>2, <2>3 DEF TrackerCalls, NothingWrites, NothingOpens
<1> QED
  BY <1>2, <1>3 DEF TrackerOK

LEMMA LoadedKeeps ==
  ASSUME TrackerOK, NEW o \in Opener, K!Loaded(o) \/ K!EnsureDirFails(o)
  PROVE  TrackerOK'
<1>1. Opens(o)
  BY DEF K!Loaded, K!EnsureDirFails, Opens
<1>2. CASE K!Loaded(o)
  <2>1. opens[o].stage = "text" /\ project' = opens[o].found /\ project' \in Int
    BY <1>2 DEF K!Loaded, TrackerOK, TrackerTypes, OpenCalls
  <2>2. ~failed => project' = file[path] /\ path \in dirs
    BY <1>1, <2>1, OnlyOpens DEF OpenOK, TrackerCalls
  <2> QED
    BY <1>1, <1>2, <2>1, <2>2, OpenEnds DEF K!Loaded, TrackerOK, TrackerTypes
<1>3. CASE K!EnsureDirFails(o)
  BY <1>1, <1>3, OpenEnds DEF K!EnsureDirFails, TrackerOK, TrackerTypes
<1> QED
  BY <1>2, <1>3

(* The calls of save.                                                      *)
LEMMA SaveBegins ==
  ASSUME TrackerOK, NEW w \in Writer, K!BeginSave(w, path)
  PROVE  /\ writes' \in [Writer -> WriteCalls]
         /\ writes'[w] = [stage |-> "put", data |-> project, by |-> path]
         /\ \A v \in Writer : v # w => writes'[v] = writes[v]
<1> DEFINE c == [stage |-> "put", data |-> project, by |-> path]
<1>1. c \in WriteCalls
  BY DEF WriteCalls, TrackerOK, TrackerTypes
<1>2. writes' = [writes EXCEPT ![w] = c]
  BY DEF K!BeginSave
<1> HIDE DEF c
<1>3. /\ writes' \in [Writer -> WriteCalls] /\ writes'[w] = c
      /\ \A v \in Writer : v # w => writes'[v] = writes[v]
  BY <1>1, <1>2, WritesTo DEF TrackerOK
<1> QED
  BY <1>3 DEF c

LEMMA SavingSaves ==
  ASSUME TrackerOK, NEW w \in Writer, K!BeginSave(w, path),
         TrackerCalls, NothingWrites, NothingOpens', ~timer',
         project # K!None, path \in dirs,
         UNCHANGED <<path, project, file, dirs>>
  PROVE  TrackerCalls'
<1>1. /\ writes'[w] = [stage |-> "put", data |-> project, by |-> path]
      /\ \A v \in Writer : v # w => writes'[v] = writes[v]
  BY SaveBegins
<1>2. \A v \in Writer : v # w => ~Writes(v)'
  BY <1>1 DEF NothingWrites, Writes
<1>3. Writes(w)' /\ WriteOK(w)'
  BY <1>1 DEF Writes, WriteOK
<1> QED
  BY <1>2, <1>3 DEF TrackerCalls, NothingOpens, NothingWrites

LEMMA SaveNewKeeps ==
  ASSUME TrackerOK, NEW o \in Opener, NEW w \in Writer, K!SaveNew(o, w)
  PROVE  TrackerOK'
<1>1. /\ opens[o].stage = "save" /\ Opens(o) /\ K!BeginSave(w, path)
      /\ opens' = [opens EXCEPT ![o] = K!NoOpen]
      /\ failed' = (failed \/ ~NothingWrites)
      /\ UNCHANGED <<path, project, version, timer, file, dirs>>
  BY DEF K!SaveNew, Opens, NothingWrites, Writes, K!Idle
<1>2. failed' \in BOOLEAN /\ (~failed' => ~failed /\ NothingWrites)
  BY <1>1 DEF TrackerOK, TrackerTypes, NothingWrites
<1>3. TrackerTypes'
  BY <1>1, <1>2, SaveBegins, NoCalls, OpenTypes DEF TrackerOK, TrackerTypes
<1>4. ASSUME ~failed' PROVE TrackerCalls'
  <2>1. TrackerCalls /\ OpenOK(o) /\ \A q \in Opener : q # o => ~Opens(q)
    BY <1>1, <1>2, <1>4, OnlyOpens
  <2>2. NothingOpens'
    BY <1>1, <2>1, NoCalls, OpensTo DEF NothingOpens, Opens, TrackerOK
  <2>3. ~timer' /\ project # K!None /\ path \in dirs
    BY <1>1, <2>1 DEF OpenOK, K!Empty, K!None
  <2> QED
    BY <1>1, <1>2, <1>4, <2>1, <2>2, <2>3, SavingSaves
<1> QED
  BY <1>3, <1>4 DEF TrackerOK

LEMMA ChangeKeeps ==
  ASSUME TrackerOK, K!Change
  PROVE  TrackerOK'
<1>1. /\ project # K!None /\ version' = version + 1 /\ project' = version' /\ timer' = TRUE
      /\ failed' = (failed \/ K!Busy)
      /\ UNCHANGED <<path, opens, writes, file, dirs>>
  BY DEF K!Change
<1>2. failed' \in BOOLEAN /\ (~failed' => ~failed /\ NothingOpens /\ NothingWrites)
  BY <1>1, BusyMeans DEF TrackerOK, TrackerTypes
<1>3. version' \in Nat /\ project' \in Int
  BY <1>1 DEF TrackerOK, TrackerTypes
<1>4. TrackerTypes'
  BY <1>1, <1>2, <1>3 DEF TrackerOK, TrackerTypes, Opens
<1>5. ~failed' => TrackerCalls'
  BY <1>1, <1>2 DEF TrackerOK, TrackerTypes, TrackerCalls, NothingOpens, NothingWrites, Opens, Writes, K!None
<1> QED
  BY <1>4, <1>5 DEF TrackerOK

(* The timer fires, or destroy flushes what it would have saved.           *)
LEMMA TimerSaves ==
  ASSUME TrackerOK, NEW w \in Writer, timer, timer' = FALSE, K!BeginSave(w, path),
         failed' = (failed \/ K!Busy),
         UNCHANGED <<path, project, version, opens, file, dirs>>
  PROVE  TrackerOK'
<1>1. failed' \in BOOLEAN /\ (~failed' => ~failed /\ NothingOpens /\ NothingWrites)
  BY BusyMeans DEF TrackerOK, TrackerTypes
<1>2. TrackerTypes'
  BY <1>1, SaveBegins DEF TrackerOK, TrackerTypes, Opens
<1>3. ASSUME ~failed' PROVE TrackerCalls'
  <2>1. TrackerCalls /\ NothingOpens /\ NothingOpens' /\ NothingWrites
    BY <1>1, <1>3 DEF TrackerOK, NothingOpens, Opens
  <2>2. project # K!None /\ path \in dirs
    BY <2>1 DEF TrackerCalls
  <2> QED
    BY <2>1, <2>2, SavingSaves
<1> QED
  BY <1>2, <1>3 DEF TrackerOK

LEMMA DestroyKeeps ==
  ASSUME TrackerOK, NEW w \in Writer, K!Destroy(w)
  PROVE  TrackerOK'
<1>1. /\ timer' = FALSE /\ failed' = (failed \/ K!Busy) /\ K!Flushed(w)
      /\ UNCHANGED <<path, project, version, opens, file, dirs>>
  BY DEF K!Destroy
<1>2. CASE timer
  BY <1>1, <1>2, TimerSaves DEF K!Flushed
<1>3. CASE ~timer
  <2>1. UNCHANGED writes /\ UNCHANGED timer
    BY <1>1, <1>3 DEF K!Flushed, TrackerOK, TrackerTypes
  <2>2. failed' \in BOOLEAN /\ (failed => failed')
    BY <1>1, BusyMeans DEF TrackerOK, TrackerTypes
  <2>3. TrackerTypes'
    BY <1>1, <2>1, <2>2 DEF TrackerOK, TrackerTypes, Opens
  <2>4. TrackerCalls => TrackerCalls'
    BY <1>1, <2>1 DEF TrackerCalls, NothingOpens, NothingWrites, Opens, Writes, OpenOK, WriteOK
  <2> QED
    BY <2>2, <2>3, <2>4 DEF TrackerOK
<1> QED
  BY <1>2, <1>3

LEMMA OnlyWrites ==
  ASSUME TrackerOK, ~failed, NEW w \in Writer, Writes(w)
  PROVE  /\ TrackerCalls /\ NothingOpens /\ WriteOK(w)
         /\ \A v \in Writer : v # w => ~Writes(v)
BY DEF TrackerOK, TrackerCalls, NothingWrites

LEMMA PutKeeps ==
  ASSUME TrackerOK, NEW w \in Writer, K!Put(w)
  PROVE  TrackerOK'
<1> DEFINE c == [writes[w] EXCEPT !.stage = "link", !.by = path]
<1>1. /\ Writes(w) /\ writes' = [writes EXCEPT ![w] = c]
      /\ UNCHANGED <<path, project, version, timer, opens, file, dirs, failed>>
  BY DEF K!Put, Writes
<1>2. c.stage = "link" /\ c.by = path /\ c.data = writes[w].data /\ c \in WriteCalls
  BY DEF TrackerOK, TrackerTypes, WriteCalls
<1> HIDE DEF c
<1>3. /\ writes' \in [Writer -> WriteCalls] /\ writes'[w] = c
      /\ \A v \in Writer : v # w => writes'[v] = writes[v]
  BY <1>1, <1>2, WritesTo DEF TrackerOK
<1>4. TrackerTypes'
  BY <1>1, <1>3 DEF TrackerOK, TrackerTypes, Opens
<1>5. ASSUME ~failed PROVE TrackerCalls'
  <2>1. TrackerCalls /\ NothingOpens /\ WriteOK(w) /\ \A v \in Writer : v # w => ~Writes(v)
    BY <1>1, <1>5, OnlyWrites
  <2>2. NothingOpens' /\ \A v \in Writer : v # w => ~Writes(v)'
    BY <1>1, <1>3, <2>1 DEF NothingOpens, Opens, Writes
  <2>3. Writes(w)' /\ WriteOK(w)'
    BY <1>1, <1>2, <1>3, <2>1 DEF Writes, WriteOK
  <2> QED
    BY <1>1, <2>1, <2>2, <2>3 DEF TrackerCalls, NothingOpens, NothingWrites
<1> QED
  BY <1>1, <1>4, <1>5 DEF TrackerOK

LEMMA LinkKeeps ==
  ASSUME TrackerOK, NEW w \in Writer, K!Link(w) \/ K!SaveFails(w)
  PROVE  TrackerOK'
<1>1. /\ Writes(w) /\ writes' = [writes EXCEPT ![w] = K!NoWrite]
      /\ UNCHANGED <<path, project, version, timer, opens, dirs>>
  BY DEF K!Link, K!SaveFails, Writes
<1>2. /\ writes' \in [Writer -> WriteCalls] /\ writes'[w] = K!NoWrite
      /\ \A v \in Writer : v # w => writes'[v] = writes[v]
  BY <1>1, NoCalls, WritesTo DEF TrackerOK
<1>3. file' \in [Path -> Int] /\ failed' \in BOOLEAN
  <2>1. CASE K!Link(w)
    BY <2>1 DEF K!Link, TrackerOK, TrackerTypes, WriteCalls
  <2>2. CASE K!SaveFails(w)
    BY <2>2 DEF K!SaveFails, TrackerOK, TrackerTypes
  <2> QED
    BY <2>1, <2>2
<1>4. TrackerTypes'
  BY <1>1, <1>2, <1>3 DEF TrackerOK, TrackerTypes, Opens
<1>5. ASSUME ~failed' PROVE TrackerCalls'
  <2>1. ~failed /\ writes[w].stage = "link" /\ writes[w].by \in dirs
        /\ file' = [file EXCEPT ![writes[w].by] = writes[w].data]
    BY <1>5 DEF K!Link, K!SaveFails
  <2>2. TrackerCalls /\ NothingOpens /\ WriteOK(w) /\ \A v \in Writer : v # w => ~Writes(v)
    BY <1>1, <2>1, OnlyWrites
  <2>3. NothingOpens' /\ NothingWrites'
    BY <1>1, <1>2, <2>2, NoCalls DEF NothingOpens, NothingWrites, Opens, Writes
  <2>4. path \in dirs /\ file'[path] = project /\ \A p \in Path : p # path => file'[p] = file[p]
    BY <2>1, <2>2 DEF WriteOK, TrackerOK, TrackerTypes
  <2> QED
    BY <1>1, <2>2, <2>3, <2>4 DEF TrackerCalls, NothingOpens, NothingWrites
<1> QED
  BY <1>4, <1>5 DEF TrackerOK

LEMMA TrackerStep == TrackerOK /\ [K!Next]_(K!trackerVars) => TrackerOK'
<1> SUFFICES ASSUME TrackerOK, [K!Next]_(K!trackerVars) PROVE TrackerOK'
  OBVIOUS
<1>1. CASE UNCHANGED K!trackerVars
  BY <1>1 DEF K!trackerVars, TrackerOK, TrackerTypes, TrackerCalls, NothingOpens, NothingWrites,
              Opens, Writes, OpenOK, WriteOK
<1>2. ASSUME NEW o \in Opener,
             \/ \E p \in Path : K!OpenProject(o, p)
             \/ K!Found(o) \/ K!Loaded(o) \/ K!NotLoaded(o) \/ K!EnsureDir(o) \/ K!EnsureDirFails(o)
             \/ \E w \in Writer : K!SaveNew(o, w)
      PROVE  TrackerOK'
  BY <1>2, OpenProjectKeeps, FoundKeeps, LoadedKeeps, NotLoadedKeeps, EnsureDirKeeps, SaveNewKeeps
<1>3. ASSUME NEW w \in Writer,
             K!TimerFires(w) \/ K!Put(w) \/ K!Link(w) \/ K!SaveFails(w) \/ K!Destroy(w)
      PROVE  TrackerOK'
  <2>1. CASE K!TimerFires(w)
    BY <2>1, TimerSaves DEF K!TimerFires
  <2> QED
    BY <1>3, <2>1, PutKeeps, LinkKeeps, DestroyKeeps
<1> QED
  BY <1>1, <1>2, <1>3, ChangeKeeps DEF K!Next

(* AutoSaved: when nothing is under way any more, project.json is the      *)
(* project one sees, unless a request failed or the user was faster.       *)
THEOREM ChangesAreSaved == K!Spec => []AutoSaved
<1>1. TrackerOK => AutoSaved
  BY BusyMeans DEF TrackerOK, TrackerCalls, AutoSaved, K!AutoSaved
<1> QED
  BY <1>1, TrackerInitially, TrackerStep, PTL DEF K!Spec
-----------------------------------------------------------------------------
(* The terminal.                                                           *)

Texts == Line \union {T!Nothing}
Values == Int \X T!Outcome
Records == [src : Texts, status : {"queued", "running", "done", "error"},
            value : Values, refIndex : Int]

RunningIn(h) == {i \in DOMAIN h : h[i].status = "running"}
QueuedIn(h) == {i \in DOMAIN h : h[i].status = "queued"}

(* One line runs, or none; only then may none be waiting.                  *)
OneRuns(h, busy) ==
  /\ busy \in BOOLEAN
  /\ busy => \E i \in DOMAIN h : RunningIn(h) = {i}
  /\ ~busy => RunningIn(h) = {}

(* What a record refers to is its value.                                   *)
RefsOK(h, results) ==
  \A i \in DOMAIN h :
    h[i].refIndex # T!NoRef => /\ h[i].refIndex \in 0..(Len(results) - 1)
                               /\ results[h[i].refIndex + 1] = h[i].value

(* The walk through the history stays within its copy.                     *)
WalkOK ==
  /\ textarea \in Texts
  /\ historyClone \in Seq(Texts)
  /\ historyIdx \in Int /\ -1 <= historyIdx /\ historyIdx < Len(historyClone)

TerminalOK ==
  /\ history \in Seq(Records) /\ refResults \in Seq(Values)
  /\ RefsOK(history, refResults)
  /\ OneRuns(history, running)
  /\ QueuedIn(history) # {} => running
  /\ \A i \in streaming : i \in DOMAIN history /\ history[i].status \in {"done", "error"}
  /\ WalkOK

LEMMA TerminalInitially == T!Init => TerminalOK
<1> SUFFICES ASSUME T!Init PROVE TerminalOK
  OBVIOUS
<1>1. /\ history = <<>> /\ refResults = <<>> /\ historyClone = <<>> /\ DOMAIN history = {}
  BY DEF T!Init
<1>2. RunningIn(history) = {} /\ QueuedIn(history) = {} /\ RefsOK(history, refResults)
  BY <1>1 DEF RunningIn, QueuedIn, RefsOK
<1>3. WalkOK
  BY <1>1 DEF T!Init, WalkOK, Texts
<1>4. OneRuns(history, running)
  BY <1>2 DEF T!Init, OneRuns
<1>5. history \in Seq(Records) /\ refResults \in Seq(Values) /\ streaming = {}
  BY <1>1 DEF T!Init
<1> QED
  BY <1>2, <1>3, <1>4, <1>5 DEF TerminalOK

(* runNext takes the first line that waits, when none runs.                *)
LEMMA RunNextTakes ==
  ASSUME NEW h \in Seq(Records), NEW busy, OneRuns(h, busy), T!RunNext(h, busy)
  PROVE  /\ history' \in Seq(Records) /\ DOMAIN history' = DOMAIN h
         /\ \A i \in DOMAIN h : /\ history'[i].value = h[i].value
                                /\ history'[i].refIndex = h[i].refIndex
                                /\ h[i].status # "queued" => history'[i] = h[i]
         /\ OneRuns(history', running')
         /\ QueuedIn(history') # {} => running'
<1> DEFINE queued == {i \in DOMAIN h : h[i].status = "queued"}
<1>1. CASE busy \/ queued = {}
  BY <1>1 DEF T!RunNext, OneRuns, QueuedIn
<1>2. CASE ~busy /\ queued # {}
  <2> DEFINE j == T!Picked(queued)
  <2>1. /\ history' = [h EXCEPT ![j].status = "running"] /\ running' = TRUE
    BY <1>2 DEF T!RunNext
  <2>2. j \in queued
    <3>1. queued \subseteq Nat
      OBVIOUS
    <3>2. \E m \in queued : \A n \in queued : m <= n
      BY <1>2, <3>1, LeastNumber
    <3> QED
      BY <3>2 DEF T!Picked
  <2> HIDE DEF j
  <2> DEFINE rec == [h[j] EXCEPT !.status = "running"]
  <2>3. /\ rec \in Records /\ rec.status = "running"
        /\ rec.value = h[j].value /\ rec.refIndex = h[j].refIndex
    <3>1. h[j] \in Records
      BY <2>2
    <3> QED
      BY <3>1 DEF Records
  <2>4. history' = [h EXCEPT ![j] = rec]
    BY <2>1
  <2> HIDE DEF rec
  <2>5. /\ history' \in Seq(Records) /\ DOMAIN history' = DOMAIN h
        /\ history'[j] = rec /\ \A i \in DOMAIN h : i # j => history'[i] = h[i]
    BY <2>2, <2>3, <2>4, ExceptSeq
  <2>6. RunningIn(history') = {j}
    BY <1>2, <2>2, <2>3, <2>5 DEF RunningIn, OneRuns
  <2> QED
    BY <2>1, <2>2, <2>3, <2>5, <2>6 DEF OneRuns
<1> QED
  BY <1>1, <1>2 DEF OneRuns

LEMMA RecordReplaced ==
  ASSUME NEW h \in Seq(Records), NEW i \in DOMAIN h, NEW rec \in Records
  PROVE  /\ [h EXCEPT ![i] = rec] \in Seq(Records)
         /\ DOMAIN [h EXCEPT ![i] = rec] = DOMAIN h
         /\ [h EXCEPT ![i] = rec][i] = rec
         /\ \A j \in DOMAIN h : j # i => [h EXCEPT ![i] = rec][j] = h[j]
BY ExceptSeq

LEMMA EnterKeeps ==
  ASSUME TerminalOK, T!Enter
  PROVE  TerminalOK'
<1> DEFINE new == T!Record(textarea)
           h == Append(history, new)
<1>1. T!RunNext(h, running) /\ UNCHANGED <<refResults, streaming>>
  BY DEF T!Enter
<1>2. /\ new \in Records /\ new.status = "queued" /\ new.refIndex = T!NoRef
  <2>1. T!NoValue \in Values /\ T!NoRef \in Int
    BY DEF T!NoValue, T!NoRef, Values, T!Outcome
  <2>2. textarea \in Texts
    BY DEF TerminalOK, WalkOK
  <2> QED
    BY <2>1, <2>2 DEF T!Record, Records
<1>3. WalkOK'
  <2>1. textarea' = T!Nothing /\ historyIdx' = -1 /\ historyClone' = <<>>
    BY DEF T!Enter
  <2> QED
    BY <2>1 DEF WalkOK, Texts
<1> HIDE DEF new
<1>4. /\ h \in Seq(Records) /\ DOMAIN h = DOMAIN history \union {Len(history) + 1}
      /\ Len(history) + 1 \notin DOMAIN history
      /\ h[Len(history) + 1] = new /\ \A i \in DOMAIN history : h[i] = history[i]
  BY <1>2 DEF TerminalOK
<1> HIDE DEF h
<1>5. RunningIn(h) = RunningIn(history)
  BY <1>2, <1>4 DEF RunningIn
<1>6. OneRuns(h, running)
  BY <1>4, <1>5 DEF OneRuns, TerminalOK
<1>7. /\ history' \in Seq(Records) /\ DOMAIN history' = DOMAIN h
      /\ \A i \in DOMAIN h : /\ history'[i].value = h[i].value
                             /\ history'[i].refIndex = h[i].refIndex
                             /\ h[i].status # "queued" => history'[i] = h[i]
      /\ OneRuns(history', running')
      /\ QueuedIn(history') # {} => running'
  BY <1>1, <1>4, <1>6, RunNextTakes
<1>8. RefsOK(history', refResults')
  <2>1. RefsOK(h, refResults)
    <3> SUFFICES ASSUME NEW i \in DOMAIN h, h[i].refIndex # T!NoRef
                 PROVE  /\ h[i].refIndex \in 0..(Len(refResults) - 1)
                        /\ refResults[h[i].refIndex + 1] = h[i].value
      BY DEF RefsOK
    <3>1. i \in DOMAIN history /\ h[i] = history[i]
      BY <1>2, <1>4
    <3> QED
      BY <3>1 DEF RefsOK, TerminalOK
  <2> QED
    BY <1>1, <1>7, <2>1 DEF RefsOK
<1>9. \A i \in streaming' : i \in DOMAIN history' /\ history'[i].status \in {"done", "error"}
  BY <1>1, <1>4, <1>7 DEF TerminalOK
<1> QED
  BY <1>1, <1>3, <1>7, <1>8, <1>9 DEF TerminalOK

(* The run of line i ends: its record is done or failed, and runNext goes  *)
(* on with the next one.                                                   *)
LEMMA RunEnds ==
  ASSUME TerminalOK, NEW i \in T!NowRunning, NEW rec \in Records,
         rec.status \in {"done", "error"},
         T!RunNext([history EXCEPT ![i] = rec], FALSE),
         refResults' \in Seq(Values), RefsOK([history EXCEPT ![i] = rec], refResults'),
         streaming \subseteq streaming', streaming' \subseteq streaming \union {i},
         UNCHANGED <<textarea, historyIdx, historyClone>>
  PROVE  TerminalOK'
<1> DEFINE h == [history EXCEPT ![i] = rec]
<1>1. i \in DOMAIN history /\ RunningIn(history) = {i}
  BY DEF TerminalOK, OneRuns, RunningIn, T!NowRunning
<1>2. /\ h \in Seq(Records) /\ DOMAIN h = DOMAIN history /\ h[i] = rec
      /\ \A j \in DOMAIN history : j # i => h[j] = history[j]
  BY <1>1, RecordReplaced DEF TerminalOK
<1>3. T!RunNext(h, FALSE) /\ RefsOK(h, refResults')
  OBVIOUS
<1> HIDE DEF h
<1>4. OneRuns(h, FALSE)
  BY <1>1, <1>2 DEF OneRuns, RunningIn
<1>5. /\ history' \in Seq(Records) /\ DOMAIN history' = DOMAIN h
      /\ \A j \in DOMAIN h : /\ history'[j].value = h[j].value
                             /\ history'[j].refIndex = h[j].refIndex
                             /\ h[j].status # "queued" => history'[j] = h[j]
      /\ OneRuns(history', running')
      /\ QueuedIn(history') # {} => running'
  BY <1>2, <1>3, <1>4, RunNextTakes
<1>6. RefsOK(history', refResults')
  BY <1>3, <1>5 DEF RefsOK
<1>7. ASSUME NEW j \in streaming'
      PROVE  j \in DOMAIN history' /\ history'[j].status \in {"done", "error"}
  <2>1. j \in DOMAIN h /\ h[j].status \in {"done", "error"}
    BY <1>1, <1>2 DEF TerminalOK
  <2> QED
    BY <1>5, <2>1
<1>8. WalkOK'
  BY DEF TerminalOK, WalkOK
<1> QED
  BY <1>5, <1>6, <1>7, <1>8 DEF TerminalOK

LEMMA FailsKeeps ==
  ASSUME TerminalOK, NEW i \in DOMAIN history, T!Fails(i)
  PROVE  TerminalOK'
<1> DEFINE rec == [history[i] EXCEPT !.status = "error"]
<1>1. /\ i \in T!NowRunning /\ T!RunNext([history EXCEPT ![i] = rec], FALSE)
      /\ UNCHANGED <<refResults, streaming, textarea, historyIdx, historyClone>>
  BY DEF T!Fails, T!StillRunning
<1>2. history[i] \in Records
  BY DEF TerminalOK
<1>3. /\ rec \in Records /\ rec.status = "error" /\ rec.value = history[i].value
      /\ rec.refIndex = history[i].refIndex
  BY <1>2 DEF Records
<1> HIDE DEF rec
<1>4. RefsOK([history EXCEPT ![i] = rec], refResults)
  BY <1>3, RecordReplaced DEF RefsOK, TerminalOK
<1> QED
  BY <1>1, <1>3, <1>4, RunEnds DEF TerminalOK

LEMMA EvaluatedKeeps ==
  ASSUME TerminalOK, NEW i \in DOMAIN history, NEW outcome \in T!Outcome, T!Evaluated(i, outcome)
  PROVE  TerminalOK'
<1> DEFINE value == IF outcome = "nothing" THEN T!NoValue ELSE <<i, outcome>>
           results == Append(refResults, value)
           displayed == outcome \in {"value", "response"}
           rec == [history[i] EXCEPT
                     !.status = IF outcome = "undisplayable" THEN "error" ELSE "done",
                     !.value = value,
                     !.refIndex = IF displayed THEN T!RefIndexOf(results) ELSE T!NoRef]
           h == [history EXCEPT ![i] = rec]
<1>1. /\ i \in T!NowRunning /\ refResults' = results
      /\ streaming' = (IF outcome = "response" THEN streaming \union {i} ELSE streaming)
      /\ T!RunNext(h, FALSE)
      /\ UNCHANGED <<textarea, historyIdx, historyClone>>
  BY DEF T!Evaluated, T!StillRunning
<1>2. value \in Values
  <2>1. i \in Int
    BY DEF TerminalOK
  <2> QED
    BY <2>1 DEF Values, T!NoValue, T!Outcome
<1> HIDE DEF value
<1>3. /\ refResults \in Seq(Values) /\ results \in Seq(Values) /\ Len(results) = Len(refResults) + 1
      /\ results[Len(refResults) + 1] = value
      /\ \A k \in 1..Len(refResults) : results[k] = refResults[k]
  BY <1>2 DEF TerminalOK
<1> HIDE DEF results
<1>4. history[i] \in Records
  BY DEF TerminalOK
<1>5. (IF displayed THEN T!RefIndexOf(results) ELSE T!NoRef) \in {Len(refResults), T!NoRef}
  BY <1>3 DEF T!RefIndexOf
<1>6. /\ rec \in Records /\ rec.status \in {"done", "error"} /\ rec.value = value
      /\ rec.refIndex \in {Len(refResults), T!NoRef}
  <2>1. Len(refResults) \in Int /\ T!NoRef \in Int
    BY <1>3 DEF T!NoRef
  <2> QED
    BY <1>2, <1>4, <1>5, <2>1 DEF Records
<1> HIDE DEF rec
<1>7. /\ DOMAIN h = DOMAIN history /\ h[i] = rec
      /\ \A j \in DOMAIN history : j # i => h[j] = history[j]
  BY <1>6, RecordReplaced DEF TerminalOK
<1> HIDE DEF h
<1>8. RefsOK(h, results)
  <2> SUFFICES ASSUME NEW j \in DOMAIN h, h[j].refIndex # T!NoRef
               PROVE  /\ h[j].refIndex \in 0..(Len(results) - 1)
                      /\ results[h[j].refIndex + 1] = h[j].value
    BY DEF RefsOK
  <2>1. CASE j = i
    BY <1>3, <1>6, <1>7, <2>1
  <2>2. CASE j # i
    <3>1. h[j] = history[j] /\ h[j].refIndex \in 0..(Len(refResults) - 1)
          /\ refResults[h[j].refIndex + 1] = h[j].value
      BY <1>7, <2>2 DEF RefsOK, TerminalOK
    <3>2. Len(refResults) \in Nat
      BY <1>3
    <3>3. h[j].refIndex + 1 \in 1..Len(refResults) /\ h[j].refIndex \in 0..(Len(results) - 1)
      BY <1>3, <3>1, <3>2
    <3> QED
      BY <1>3, <3>1, <3>3
  <2> QED
    BY <2>1, <2>2
<1>9. /\ refResults' \in Seq(Values) /\ RefsOK(h, refResults')
      /\ streaming \subseteq streaming' /\ streaming' \subseteq streaming \union {i}
  BY <1>1, <1>3, <1>8
<1> QED
  BY <1>1, <1>6, <1>9, RunEnds DEF h

LEMMA StreamEndsKeeps ==
  ASSUME TerminalOK, NEW i \in DOMAIN history, T!StreamEnds(i)
  PROVE  TerminalOK'
<1> DEFINE rec == [history[i] EXCEPT !.status = "error"]
<1>1. /\ i \in streaming /\ streaming' = streaming \ {i}
      /\ history' = history \/ history' = [history EXCEPT ![i] = rec]
      /\ UNCHANGED <<refResults, running, textarea, historyIdx, historyClone>>
  BY DEF T!StreamEnds
<1>2. history[i] \in Records /\ history[i].status \in {"done", "error"}
  BY <1>1 DEF TerminalOK
<1>3. /\ rec \in Records /\ rec.status = "error" /\ rec.value = history[i].value
      /\ rec.refIndex = history[i].refIndex
  BY <1>2 DEF Records
<1> HIDE DEF rec
<1>4. /\ history' \in Seq(Records) /\ DOMAIN history' = DOMAIN history
      /\ \A j \in DOMAIN history :
           \/ history'[j] = history[j]
           \/ j = i /\ history'[j] = rec
  BY <1>1, <1>3, RecordReplaced DEF TerminalOK
<1>5. RunningIn(history') = RunningIn(history) /\ QueuedIn(history') = QueuedIn(history)
  BY <1>2, <1>3, <1>4 DEF RunningIn, QueuedIn
<1>6. OneRuns(history', running') /\ (QueuedIn(history') # {} => running')
  BY <1>1, <1>4, <1>5 DEF OneRuns, TerminalOK
<1>7. RefsOK(history', refResults')
  BY <1>1, <1>3, <1>4 DEF RefsOK, TerminalOK
<1>8. \A j \in streaming' : j \in DOMAIN history' /\ history'[j].status \in {"done", "error"}
  BY <1>1, <1>3, <1>4 DEF TerminalOK
<1>9. WalkOK'
  BY <1>1 DEF TerminalOK, WalkOK
<1> QED
  BY <1>1, <1>4, <1>6, <1>7, <1>8, <1>9 DEF TerminalOK

(* The arrow keys: the copy of the history is one longer than the history. *)
LEMMA CopyIs ==
  ASSUME TerminalOK
  PROVE  T!Copy \in Seq(Texts) /\ Len(T!Copy) = Len(history) + 1
<1> DEFINE lines == [i \in DOMAIN history |-> history[i].src]
<1>1. history \in Seq(Records) /\ DOMAIN history = 1..Len(history) /\ Len(history) \in Nat
  BY DEF TerminalOK
<1>2. \A i \in 1..Len(history) : history[i].src \in Texts
  <2>1. \A i \in 1..Len(history) : history[i] \in Records
    BY <1>1
  <2> QED
    BY <2>1 DEF Records
<1>3. lines \in [1..Len(history) -> Texts]
  BY <1>1, <1>2
<1>4. lines \in Seq(Texts) /\ Len(lines) = Len(history)
  BY <1>1, <1>3
<1> HIDE DEF lines
<1>5. textarea \in Texts
  BY DEF TerminalOK, WalkOK
<1>6. T!Copy = Append(lines, textarea)
  BY DEF T!Copy, lines
<1> QED
  BY <1>1, <1>4, <1>5, <1>6

LEMMA EditedCopy ==
  ASSUME TerminalOK, historyIdx # -1
  PROVE  /\ [historyClone EXCEPT ![T!Here(historyIdx, historyClone)] = textarea] \in Seq(Texts)
         /\ Len([historyClone EXCEPT ![T!Here(historyIdx, historyClone)] = textarea]) = Len(historyClone)
<1>1. historyClone \in Seq(Texts) /\ textarea \in Texts
  BY DEF TerminalOK, WalkOK
<1>2. T!Here(historyIdx, historyClone) \in 1..Len(historyClone)
  BY <1>1 DEF T!Here, TerminalOK, WalkOK
<1> QED
  BY <1>1, <1>2, ExceptSeq

LEMMA WalksTo ==
  ASSUME NEW clone \in Seq(Texts), NEW idx \in 0..(Len(clone) - 1),
         historyClone' = clone, historyIdx' = idx, textarea' = clone[T!Here(idx, clone)]
  PROVE  WalkOK'
<1>1. Len(clone) \in Nat
  OBVIOUS
<1>2. T!Here(idx, clone) \in 1..Len(clone)
  BY <1>1 DEF T!Here
<1>3. clone[T!Here(idx, clone)] \in Texts
  BY <1>2, ElementOfSeq
<1> QED
  BY <1>1, <1>3 DEF WalkOK

LEMMA ArrowUpWalks ==
  ASSUME TerminalOK, T!ArrowUp
  PROVE  WalkOK'
<1> DEFINE clone == IF historyIdx = -1 THEN T!Copy
                    ELSE [historyClone EXCEPT ![T!Here(historyIdx, historyClone)] = textarea]
           idx == IF historyIdx = -1 THEN 1
                  ELSE IF historyIdx + 1 < Len(clone) THEN historyIdx + 1 ELSE Len(clone) - 1
<1>1. /\ history # <<>> /\ historyClone' = clone /\ historyIdx' = idx
      /\ textarea' = clone[T!Here(idx, clone)]
  BY DEF T!ArrowUp
<1>2. /\ history \in Seq(Records) /\ historyClone \in Seq(Texts)
      /\ historyIdx \in Int /\ -1 <= historyIdx /\ historyIdx < Len(historyClone)
  BY DEF TerminalOK, WalkOK
<1>3. Len(history) \in Nat \ {0}
  BY <1>1, <1>2, EmptySeq
<1>4. CASE historyIdx = -1
  <2>1. clone \in Seq(Texts) /\ Len(clone) = Len(history) + 1
    BY <1>4, CopyIs
  <2> HIDE DEF clone
  <2>2. idx \in 0..(Len(clone) - 1)
    BY <1>3, <1>4, <2>1
  <2> QED
    BY <1>1, <2>1, <2>2, WalksTo
<1>5. CASE historyIdx # -1
  <2>1. clone \in Seq(Texts) /\ Len(clone) = Len(historyClone)
    BY <1>5, EditedCopy
  <2> HIDE DEF clone
  <2>2. idx \in 0..(Len(clone) - 1)
    BY <1>2, <1>5, <2>1
  <2> QED
    BY <1>1, <2>1, <2>2, WalksTo
<1> QED
  BY <1>4, <1>5

LEMMA ArrowDownWalks ==
  ASSUME TerminalOK, T!ArrowDown
  PROVE  WalkOK'
<1>1. /\ history \in Seq(Records) /\ historyClone \in Seq(Texts) /\ textarea \in Texts
      /\ historyIdx \in Int /\ -1 <= historyIdx /\ historyIdx < Len(historyClone)
  BY DEF TerminalOK, WalkOK
<1>2. CASE historyIdx = -1
  <2>1. historyClone' = T!Copy /\ UNCHANGED <<historyIdx, textarea>>
    BY <1>2 DEF T!ArrowDown
  <2>2. Len(history) \in Nat
    BY <1>1
  <2> QED
    BY <1>1, <1>2, <2>1, <2>2, CopyIs DEF WalkOK
<1>3. CASE historyIdx # -1
  <2> DEFINE clone == [historyClone EXCEPT ![T!Here(historyIdx, historyClone)] = textarea]
             idx == IF historyIdx = 0 THEN 0 ELSE historyIdx - 1
  <2>1. historyClone' = clone /\ historyIdx' = idx /\ textarea' = clone[T!Here(idx, clone)]
    BY <1>3 DEF T!ArrowDown
  <2>2. clone \in Seq(Texts) /\ Len(clone) = Len(historyClone)
    BY <1>3, EditedCopy
  <2> HIDE DEF clone
  <2>3. idx \in 0..(Len(clone) - 1)
    BY <1>1, <1>3, <2>2
  <2> QED
    BY <2>1, <2>2, <2>3, WalksTo
<1> QED
  BY <1>2, <1>3

LEMMA TerminalStep == TerminalOK /\ [T!Next]_(T!terminalVars) => TerminalOK'
<1> SUFFICES ASSUME TerminalOK, [T!Next]_(T!terminalVars) PROVE TerminalOK'
  OBVIOUS
<1>1. ASSUME UNCHANGED <<history, refResults, running, streaming>>, WalkOK' PROVE TerminalOK'
  BY <1>1 DEF TerminalOK, RefsOK, OneRuns, RunningIn, QueuedIn
<1>2. CASE UNCHANGED T!terminalVars
  BY <1>1, <1>2 DEF T!terminalVars, TerminalOK, WalkOK
<1>3. ASSUME NEW src \in Line, T!Type(src) PROVE TerminalOK'
  BY <1>1, <1>3 DEF T!Type, TerminalOK, WalkOK, Texts
<1>4. CASE T!ArrowUp
  BY <1>1, <1>4, ArrowUpWalks DEF T!ArrowUp
<1>5. CASE T!ArrowDown
  BY <1>1, <1>5, ArrowDownWalks DEF T!ArrowDown
<1> QED
  BY <1>2, <1>3, <1>4, <1>5, EnterKeeps, EvaluatedKeeps, FailsKeeps, StreamEndsKeeps DEF T!Next

(* TerminalIsSound: the letter beside a result is bound to that result, as *)
(* long as there are letters, and lines run one at a time with none left   *)
(* waiting, for any number of lines and of letters.                        *)
THEOREM TerminalStaysSound == Letters \in Nat => (T!Spec => []TerminalIsSound)
<1> SUFFICES ASSUME Letters \in Nat PROVE T!Spec => []TerminalIsSound
  OBVIOUS
<1>1. ASSUME TerminalOK PROVE TerminalIsSound
  <2>1. ASSUME NEW i \in DOMAIN history, history[i].refIndex \in 0..(Letters - 1)
        PROVE  /\ T!Letter(history[i].refIndex) \in DOMAIN T!ExtraVars
               /\ T!ExtraVars[T!Letter(history[i].refIndex)] = history[i].value
    <3> DEFINE n == history[i].refIndex
    <3>1. T!Letter(n) = n
      BY <2>1 DEF T!Letter
    <3>2. /\ n \in 0..(Len(refResults) - 1) /\ refResults[n + 1] = history[i].value
          /\ Len(refResults) \in Nat
      BY <1>1, <2>1 DEF TerminalOK, RefsOK, T!NoRef
    <3>3. n \in {k \in 0..(Letters - 1) : k < Len(refResults)}
      BY <2>1, <3>2
    <3> QED
      BY <3>1, <3>2, <3>3 DEF T!ExtraVars
  <2>2. T!NowRunning = RunningIn(history)
    BY DEF T!NowRunning, RunningIn
  <2>3. Cardinality(T!NowRunning) = IF running THEN 1 ELSE 0
    BY <1>1, <2>2, FS_Singleton, FS_EmptySet DEF TerminalOK, OneRuns
  <2>4. (\E i \in DOMAIN history : history[i].status = "queued") => running
    BY <1>1 DEF TerminalOK, QueuedIn
  <2>5. T!Cardinality(T!NowRunning) = Cardinality(T!NowRunning)
    BY DEF Cardinality, T!Cardinality
  <2> QED
    BY <2>1, <2>3, <2>4, <2>5 DEF TerminalIsSound, T!TerminalIsSound
<1>2. T!Init => TerminalOK
  BY TerminalInitially
<1>3. TerminalOK /\ [T!Next]_(T!terminalVars) => TerminalOK'
  BY TerminalStep
<1> QED
  BY <1>1, <1>2, <1>3, PTL DEF T!Spec
=============================================================================
