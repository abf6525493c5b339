----------------------------- MODULE MCPrograms -----------------------------
(* The desktop, with what its programs compute: the tree of items of the   *)
(* project tracker and the rendering of a document. part says which of its *)
(* parts a behaviour is about; the others rest. The directory list, the    *)
(* editor and the tracker are followed until what their property excuses   *)
(* has happened.                                                           *)
EXTENDS Desktop

CONSTANTS
  Project, NoProject, Files, MaxId,
  Word, Span, Block, MaxPieces

VARIABLES
  part,
  stored, opened, items, nextId, collapsed, selId, detailId,
  doc, rendered

O == INSTANCE Outline
M == INSTANCE MarkdownView

outline == <<stored, opened, items, nextId, collapsed, selId, detailId>>
markdown == <<doc, rendered>>
widgets == <<overlay, files, inbox, terminal>>
programs == <<editor, tracker, outline, pipeline, markdown>>
allVars == <<part, widgets, programs>>

Parts == {"overlay", "files", "inbox", "terminal",
          "editor", "tracker", "outline", "pipeline", "markdown"}

(* A part that rests begins in one state, which nothing is said of.        *)
Init ==
  /\ part \in Parts
  /\ V!Init /\ F!Init /\ I!Init /\ T!Init
  /\ E!Init /\ (part = "editor" \/ loading = {E!Blank})
  /\ K!Init /\ (part = "tracker" \/ dirs = {})
  /\ IF part = "outline" THEN O!Init
     ELSE /\ stored = <<>> /\ opened = NoProject /\ items = <<>> /\ nextId = 1
          /\ collapsed = {} /\ selId = 0 /\ detailId = 0
  /\ IF part = "pipeline" THEN P!Init
     ELSE line = <<>> /\ pc = <<>> /\ importCache = {} /\ runs = [r \in P!Result |-> 0]
  /\ IF part = "markdown" THEN M!Init ELSE doc = <<>> /\ rendered = M!NotYet

Next ==
  \/ part = "overlay" /\ V!Next
       /\ UNCHANGED <<part, files, inbox, terminal, programs>>
  \/ part = "files" /\ ~excused /\ F!Next
       /\ UNCHANGED <<part, overlay, inbox, terminal, programs>>
  \/ part = "inbox" /\ I!Next
       /\ UNCHANGED <<part, overlay, files, terminal, programs>>
  \/ part = "terminal" /\ T!Next
       /\ UNCHANGED <<part, overlay, files, inbox, programs>>
  \/ part = "editor" /\ ~during /\ E!Next
       /\ UNCHANGED <<part, tracker, outline, pipeline, markdown, widgets>>
  \/ part = "tracker" /\ ~failed /\ K!Next
       /\ UNCHANGED <<part, editor, outline, pipeline, markdown, widgets>>
  \/ part = "outline" /\ O!Next
       /\ UNCHANGED <<part, editor, tracker, pipeline, markdown, widgets>>
  \/ part = "pipeline" /\ P!Next
       /\ UNCHANGED <<part, editor, tracker, outline, markdown, widgets>>
  \/ part = "markdown" /\ M!Next
       /\ UNCHANGED <<part, editor, tracker, outline, pipeline, widgets>>

(* Nothing that is fair to one of them is enabled in those that rest.      *)
Spec == Init /\ [][Next]_allVars /\ F!Fairness /\ I!Fairness
-----------------------------------------------------------------------------
(* A directory's name goes, and another one comes.                         *)
TheNames == [v \in 0..1 |-> IF v = 0 THEN {"a"} ELSE {"b"}]

(* Two projects' files: with ids in an order of their own, and without.    *)
Row(id, state, used, children) == [id |-> id, state |-> state, used |-> used, children |-> children]
TheFiles == {<<Row(0, "ready", 1, <<Row(0, "ready", 2, <<>>)>>)>>,
             <<Row(2, "ready", 0, <<Row(1, "in-progress", 1, <<>>)>>)>>}
-----------------------------------------------------------------------------
(* The other properties of the widgets and the programs.                   *)
FilesCatchUp == part = "files" => F!FilesCatchUp
InboxCatchesUp == part = "inbox" => I!InboxCatchesUp
OutlineIsSound == part = "outline" => O!OutlineIsSound
TextShownOnce == part = "markdown" => M!TextShownOnce
=============================================================================
