------------------------------- MODULE Editor -------------------------------
(***************************************************************************)
(* client/lib/codemirror/gwm-widget.js, with the dialogs it asks with: the *)
(* text of an editor, the mark that it has unsaved changes, and the calls  *)
(* that load it and save it, each of which awaits the server.              *)
(***************************************************************************)
EXTENDS Integers

CONSTANTS
  File,          \* paths
  NoFile,
  Saver,         \* calls of save and saveAs
  MaxEdits       \* the bound on the versions of the text

VARIABLES
  text,          \* the document: its version, Blank or Payload; NoView without a view
  edits,         \* versions so far
  dirty,
  currentR,      \* the file it belongs to
  loading,       \* calls of load, and of mountCM: the text they will mount
  save,          \* the calls of save and saveAs
  dialog,        \* the confirmDialog that is open: for what
  onServer,      \* what each file holds
  closed,
  during         \* history: the text changed, or its file, while a call of save,
                 \* saveAs or load was at work, or two of them overlapped

Blank == 0
NoView == -1
FileText(f) == -2    \* what a file holds that no editor wrote
Payload == -3        \* the text of the Response that the launching command gave

NoSave == [stage |-> "idle", file |-> NoFile, text |-> NoView, as |-> FALSE]
editorVars == <<text, edits, dirty, currentR, loading, save, dialog, onServer, closed, during>>

Busy == loading # {} \/ \E s \in Saver : save[s].stage # "idle"
Open == ~closed /\ dialog = "none"

(* A widget with a path, or one without; a payload is loaded in place of   *)
(* the file, and of nothing.                                               *)
Init ==
  /\ currentR \in File \union {NoFile}
  /\ loading \in {{Payload}, {IF currentR = NoFile THEN Blank ELSE -2}}
  /\ text = NoView /\ edits = 0 /\ dirty = FALSE
  /\ save = [s \in Saver |-> NoSave]
  /\ dialog = "none"
  /\ onServer = [f \in File |-> FileText(f)]
  /\ closed = FALSE /\ during = FALSE
-----------------------------------------------------------------------------
(* load, mountCM: the view comes after the text and the language pack, and *)
(* is not marked; a file or a payload that cannot be read leaves no view.  *)
Mounted ==
  /\ \E t \in loading : text' = t /\ loading' = loading \ {t}
  /\ dirty' = FALSE
  /\ during' = (during \/ loading' # {})
  /\ UNCHANGED <<edits, currentR, save, dialog, onServer, closed>>

LoadFails ==
  /\ \E t \in loading \ {Blank} : loading' = loading \ {t}
  /\ UNCHANGED <<text, edits, dirty, currentR, save, dialog, onServer, closed, during>>

(* The user types; docChanged marks the document as changed.               *)
Type ==
  /\ Open /\ text # NoView /\ edits < MaxEdits
  /\ edits' = edits + 1
  /\ text' = edits'
  /\ dirty' = TRUE
  /\ during' = (during \/ Busy)
  /\ UNCHANGED <<currentR, loading, save, dialog, onServer, closed>>
-----------------------------------------------------------------------------
(* save; saveAs once the prompt is answered. Both take the text first and  *)
(* await put, mkfile and link with it.                                     *)
BeginSave(s, f, as) ==
  /\ Open /\ text # NoView
  /\ save[s].stage = "idle" /\ f # NoFile
  /\ save' = [save EXCEPT ![s] = [stage |-> "link", file |-> f, text |-> text, as |-> as]]
  /\ during' = (during \/ Busy)
  /\ UNCHANGED <<text, edits, dirty, currentR, loading, dialog, onServer, closed>>

Save(s) == BeginSave(s, currentR, FALSE)
SaveAs(s) == \E f \in File : BeginSave(s, f, TRUE)

Linked(s) ==
  /\ save[s].stage = "link"
  /\ onServer' = [onServer EXCEPT ![save[s].file] = save[s].text]
  /\ save' = [save EXCEPT ![s].stage = "linked"]
  /\ UNCHANGED <<text, edits, dirty, currentR, loading, dialog, closed, during>>

(* The answer: saveAs makes the new path the current one.                  *)
Saved(s) ==
  /\ save[s].stage = "linked"
  /\ save' = [save EXCEPT ![s] = NoSave]
  /\ dirty' = FALSE
  /\ currentR' = IF save[s].as THEN save[s].file ELSE currentR
  /\ UNCHANGED <<text, edits, loading, dialog, onServer, closed, during>>

(* put, mkfile or link fails, with or without effect; a toast says so and  *)
(* the document stays marked.                                              *)
ClearsMark == dirty' = FALSE
Failed == UNCHANGED dirty
SaveFails(s) ==
  /\ save[s].stage \in {"link", "linked"}
  /\ save' = [save EXCEPT ![s] = NoSave]
  /\ Failed
  /\ UNCHANGED <<text, edits, currentR, loading, dialog, onServer, closed, during>>
-----------------------------------------------------------------------------
(* newDocument, at once or when the dialog is answered. Emptying the       *)
(* document is a change like any other, and the mark is cleared after it.  *)
Renew ==
  /\ currentR' = NoFile
  /\ IF text # NoView THEN text' = Blank /\ dirty' = FALSE /\ UNCHANGED loading
     ELSE loading' = loading \union {Blank} /\ UNCHANGED <<text, dirty>>
  /\ during' = (during \/ Busy)

NewDocument ==
  /\ Open
  /\ IF dirty THEN dialog' = "new" /\ UNCHANGED <<text, dirty, currentR, loading, during>>
     ELSE Renew /\ UNCHANGED dialog
  /\ UNCHANGED <<edits, save, onServer, closed>>

(* onCloseRequest                                                          *)
CloseRequest ==
  /\ Open
  /\ IF dirty THEN dialog' = "close" /\ UNCHANGED closed
     ELSE closed' = TRUE /\ UNCHANGED dialog
  /\ UNCHANGED <<text, edits, dirty, currentR, loading, save, onServer, during>>

(* confirmDialog: cancel, or discard.                                      *)
Cancel ==
  /\ dialog # "none"
  /\ dialog' = "none"
  /\ UNCHANGED <<text, edits, dirty, currentR, loading, save, onServer, closed, during>>

Discard ==
  /\ dialog # "none"
  /\ dialog' = "none"
  /\ IF dialog = "new" THEN Renew /\ UNCHANGED closed
     ELSE closed' = TRUE /\ UNCHANGED <<text, dirty, currentR, loading, during>>
  /\ UNCHANGED <<edits, save, onServer>>

Next ==
  \/ Mounted \/ LoadFails \/ Type
  \/ \E s \in Saver : Save(s) \/ SaveAs(s) \/ Linked(s) \/ Saved(s) \/ SaveFails(s)
  \/ NewDocument \/ CloseRequest \/ Cancel \/ Discard

Spec == Init /\ [][Next]_editorVars
-----------------------------------------------------------------------------
(* A document that is not marked is what its file holds, or blank and of   *)
(* no file: the mark that decides whether closing asks (onCloseRequest)    *)
(* can be trusted, whatever fails and whatever is answered. It says        *)
(* nothing of a payload's text nobody has changed, which is never marked,  *)
(* whether a file holds it or not; nor of a document that was changed      *)
(* while a call was at work, whose answer takes the mark away.             *)
CleanIsSaved ==
  ~dirty /\ ~during /\ text \notin {NoView, Payload} =>
    \/ currentR = NoFile /\ text = Blank
    \/ currentR # NoFile /\ text = onServer[currentR]
=============================================================================
