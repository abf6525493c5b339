---------------------------- MODULE InboxWidget ----------------------------
(***************************************************************************)
(* client/lib/inbox/gwm-widget.js: the list of one's messages, that asks   *)
(* for the folder every two seconds, the pane that shows one of them, and  *)
(* the button that trashes one. A name stands for one message: send links  *)
(* a name once. An entry is its row: a message and the number of the copy. *)
(***************************************************************************)
EXTENDS Integers

CONSTANTS
  Msg, NoMsg,
  Copies,        \* rows a message can have at one time
  InboxTick      \* calls of refreshTick, which setInterval lets overlap

VARIABLES
  folder,        \* the messages in the folder on the server
  arrived,       \* the messages that were ever sent
  messages,      \* messages: the copy of the row each message has, or NoRow
  page,          \* the rows of the list
  selected,      \* selectedKey
  pane,          \* the message the detail pane shows
  loading,       \* load: where it is, and the listing it has
  inboxTick,     \* each tick: where it is, and the listing it has
  trashing,      \* the call of trash: the row, and whether the server made it
  named,         \* username and inboxDir are known
  timer,         \* refreshTimer
  open,          \* the widget is not destroyed
  haunted        \* history: the answer to a trash took the Map entry of another
                 \* row than its own, which stays on the page

inboxVars == <<folder, arrived, messages, page, selected, pane, loading,
               inboxTick, trashing, named, timer, open, haunted>>
Call(s, names) == [stage |-> s, names |-> names]

NoRow == 0
Keys == {m \in Msg : messages[m] # NoRow}
RowsOf(M) == {<<m, messages[m]>> : m \in M}

Init ==
  /\ folder = {} /\ arrived = {}
  /\ messages = [m \in Msg |-> NoRow] /\ page = {}
  /\ selected = NoMsg /\ pane = NoMsg
  /\ loading = Call("whoami", {})
  /\ inboxTick = [t \in InboxTick |-> Call("idle", {})]
  /\ trashing = {} /\ named = FALSE /\ timer = FALSE /\ open = TRUE /\ haunted = FALSE

(* selectedKey = null and hideDetail(), when the message selected is gone.  *)
Deselect(gone) ==
  IF selected \in gone THEN selected' = NoMsg /\ pane' = NoMsg
                       ELSE UNCHANGED <<selected, pane>>
-----------------------------------------------------------------------------
(* load: who one is, the folder, its children, a row for each. Whatever    *)
(* went wrong after the first answer is shown, and the timer starts; an    *)
(* exception of whoami is not caught, and the timer never starts.          *)
Who ==
  /\ loading.stage = "whoami"
  /\ \/ loading' = Call("lookup", {}) /\ named' = TRUE /\ UNCHANGED timer
     \/ loading' = Call("over", {}) /\ timer' \in BOOLEAN /\ UNCHANGED named
  /\ UNCHANGED <<folder, arrived, messages, page, selected, pane, inboxTick, trashing,
                 open, haunted>>

LoadLookup ==
  /\ loading.stage = "lookup"
  /\ loading' = Call("children", folder)
  /\ UNCHANGED <<folder, arrived, messages, page, selected, pane, inboxTick, trashing,
                 named, timer, open, haunted>>

(* A row for each of these, that no row there is and no trash has.         *)
Copy(m) == CHOOSE k \in Copies :
  <<m, k>> \notin page \union RowsOf({m}) \union {c.row : c \in trashing}
NewRows(M) == {<<m, Copy(m)>> : m \in M}

LoadChildren ==
  /\ loading.stage = "children"
  /\ messages' = [m \in Msg |-> IF m \in loading.names THEN Copy(m) ELSE NoRow]
  /\ page' = NewRows(loading.names)
  /\ Deselect({selected} \ loading.names)
  /\ loading' = Call("over", {}) /\ timer' = TRUE
  /\ UNCHANGED <<folder, arrived, inboxTick, trashing, named, open, haunted>>

LoadFails ==
  /\ loading.stage \in {"lookup", "children"}
  /\ loading' = Call("over", {}) /\ timer' = TRUE
  /\ UNCHANGED <<folder, arrived, messages, page, selected, pane, inboxTick, trashing,
                 named, open, haunted>>

(* selectEntry, showDetail: while loadMessagePreview has not brought the   *)
(* row its content, the pane stays as it is.                               *)
Select(r) ==
  /\ open /\ r \in page
  /\ selected' = r[1]
  /\ pane' \in {r[1], pane}
  /\ UNCHANGED <<folder, arrived, messages, page, loading, inboxTick, trashing, named,
                 timer, open, haunted>>
-----------------------------------------------------------------------------
(* trash: the link of nothing to the name, which asserts a blob is there,  *)
(* and then the row and the Map's entry. The answer may be late, lost, or  *)
(* that it was not there. Bound: one trash is under way at a time.         *)
Asked(r) == [row |-> r, done |-> FALSE]
Done(r) == [row |-> r, done |-> TRUE]

Trash(r) ==
  /\ open /\ r \in page
  /\ trashing = {}
  /\ trashing' = trashing \union {Asked(r)}
  /\ UNCHANGED <<folder, arrived, messages, page, selected, pane, loading, inboxTick,
                 named, timer, open, haunted>>

ServerTrashes(r) ==
  /\ Asked(r) \in trashing /\ r[1] \in folder
  /\ folder' = folder \ {r[1]}
  /\ trashing' = (trashing \ {Asked(r)}) \union {Done(r)}
  /\ UNCHANGED <<arrived, messages, page, selected, pane, loading, inboxTick,
                 named, timer, open, haunted>>

(* The row is the one of the button; the Map's entry is found by its name, *)
(* and by now may be that of a row a tick has added since.                 *)
Trashed(r) ==
  /\ Done(r) \in trashing
  /\ trashing' = trashing \ {Done(r)}
  /\ page' = page \ {r}
  /\ messages' = [messages EXCEPT ![r[1]] = NoRow]
  /\ haunted' = (haunted \/ messages[r[1]] \notin {NoRow, r[2]})
  /\ Deselect({r[1]})
  /\ UNCHANGED <<folder, arrived, loading, inboxTick, named, timer, open>>

TrashFails(r) ==
  /\ \E c \in trashing : c.row = r /\ trashing' = trashing \ {c}
  /\ UNCHANGED <<folder, arrived, messages, page, selected, pane, loading, inboxTick,
                 named, timer, open, haunted>>
-----------------------------------------------------------------------------
(* refreshTick: the folder, its children, and then, at once, the rows that *)
(* are missing and the rows that are too many. Another tick, a trash or a  *)
(* click may come before the answer; a failure is left to the next tick.   *)
InboxTickStarts(t) ==
  /\ timer /\ named /\ inboxTick[t].stage = "idle"
  /\ inboxTick' = [inboxTick EXCEPT ![t] = Call("children", folder)]
  /\ UNCHANGED <<folder, arrived, messages, page, selected, pane, loading, trashing,
                 named, timer, open, haunted>>

(* The loop over currentNames: the entries that have no message any more.  *)
RemovedNone(names) == {}
Removed(names) == Keys \ names

InboxApplies(t) ==
  LET names == inboxTick[t].names
      gone == Removed(names)
      new == names \ Keys
  IN  /\ inboxTick[t].stage = "children"
      /\ inboxTick' = [inboxTick EXCEPT ![t] = Call("idle", {})]
      /\ messages' = [m \in Msg |-> IF m \in new THEN Copy(m)
                                     ELSE IF m \in gone THEN NoRow ELSE messages[m]]
      /\ page' = (page \union NewRows(new)) \ RowsOf(gone)
      /\ Deselect(gone)
      /\ UNCHANGED <<folder, arrived, loading, trashing, named, timer, open, haunted>>

InboxTickFails(t) ==
  /\ inboxTick[t].stage # "idle"
  /\ inboxTick' = [inboxTick EXCEPT ![t] = Call("idle", {})]
  /\ UNCHANGED <<folder, arrived, messages, page, selected, pane, loading, trashing,
                 named, timer, open, haunted>>
-----------------------------------------------------------------------------
Arrives(m) ==
  /\ m \notin arrived
  /\ arrived' = arrived \cup {m} /\ folder' = folder \cup {m}
  /\ UNCHANGED <<messages, page, selected, pane, loading, inboxTick, trashing, named,
                 timer, open, haunted>>

(* destroy: no timer from now on; a load under way still starts one.       *)
CloseInbox ==
  /\ open /\ open' = FALSE
  /\ timer' = FALSE
  /\ UNCHANGED <<folder, arrived, messages, page, selected, pane, loading, inboxTick,
                 trashing, named, haunted>>

Next ==
  \/ Who \/ LoadLookup \/ LoadChildren \/ LoadFails \/ CloseInbox
  \/ \E m \in Msg : Arrives(m)
  \/ \E r \in Msg \X Copies : \/ Select(r) \/ Trash(r) \/ ServerTrashes(r) \/ Trashed(r) \/ TrashFails(r)
  \/ \E t \in InboxTick : InboxTickStarts(t) \/ InboxApplies(t) \/ InboxTickFails(t)

(* The timer ticks, and of the requests of its ticks some are answered in   *)
(* the end. An answer to a trash may never come.                           *)
Fairness ==
  /\ WF_inboxVars(LoadLookup \/ LoadChildren)
  /\ WF_inboxVars(\E t \in InboxTick : InboxTickStarts(t))
  /\ SF_inboxVars(\E t \in InboxTick : InboxApplies(t))
-----------------------------------------------------------------------------
(* In the end the list is the folder, whatever overtook what: a tick that  *)
(* was under way when a message was trashed brings it back, not for long   *)
(* ("silently retry next tick"). Every message there is has its row; and,  *)
(* unless the answer to a trash came so late that it took the Map's entry  *)
(* of a row brought back, there is no other row, and what is selected is   *)
(* there. Without a selection there is no pane. (With one, the pane may    *)
(* show another message, which need not be there any more.)                *)
ListIsFolder == Keys = folder /\ RowsOf(folder) \subseteq page
NothingElse == page \subseteq RowsOf(Keys) /\ selected \in folder \union {NoMsg}
PaneHasSelection == selected = NoMsg => pane = NoMsg

InboxCatchesUp ==
  <>[](open /\ named => ListIsFolder /\ (NothingElse \/ haunted) /\ PaneHasSelection)
=============================================================================
