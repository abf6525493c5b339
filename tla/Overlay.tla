------------------------------ MODULE Overlay ------------------------------
(***************************************************************************)
(* client/lib/gimbal/overlay.js, the window manager with one window, and   *)
(* the toasts of client/lib/gimbal/dialog.js.                              *)
(***************************************************************************)
EXTENDS Integers, Sequences, SequencesExt

CONSTANTS
  Widget,
  NoWidget,
  Toast,         \* elements toast() makes
  NoToast

VARIABLES
  instances,     \* _instances: the widgets, oldest first
  visible,       \* those whose entry says visible
  opening,       \* calls of openWidget whose widget is being made
  mounted,       \* the overlay is in the page
  body,          \* the widget whose element the body holds
  title,         \* the widget the title bar speaks of
  overlapped,    \* history: one openWidget began while another was at work
  shown,         \* toasts in the page
  leaving,       \* toasts that fade: their 200 ms are running
  toastEl,       \* _toastEl
  toastTimer     \* the toast _toastTimer will dismiss

windows == <<instances, visible, opening, mounted, body, title, overlapped>>
toasts == <<shown, leaving, toastEl, toastTimer>>
overlayVars == <<windows, toasts>>

Init ==
  /\ instances = <<>> /\ visible = {} /\ opening = {}
  /\ mounted = FALSE /\ body = NoWidget /\ title = NoWidget /\ overlapped = FALSE
  /\ shown = {} /\ leaving = {} /\ toastEl = NoToast /\ toastTimer = NoToast
-----------------------------------------------------------------------------
(* _currentVisible: the first one.                                         *)
Current ==
  IF visible = {} THEN NoWidget
  ELSE instances[SelectInSeq(instances, LAMBDA w : w \in visible)]

(* _attachToBody                                                           *)
Attach(w) == body' = w /\ title' = w

(* openWidget hides what is visible before it awaits createWidget; a       *)
(* widget whose making fails leaves nothing visible.                       *)
Open(w) ==
  /\ w \notin ToSet(instances) \union opening
  /\ visible' = visible \ {Current}
  /\ opening' = opening \union {w}
  /\ overlapped' = (overlapped \/ opening # {})
  /\ UNCHANGED <<instances, mounted, body, title, toasts>>

Opened(w) ==
  /\ w \in opening
  /\ opening' = opening \ {w}
  /\ instances' = Append(instances, w)
  /\ visible' = visible \union {w}
  /\ Attach(w)
  /\ mounted' = TRUE
  /\ UNCHANGED <<overlapped, toasts>>

OpenFails(w) ==
  /\ w \in opening
  /\ opening' = opening \ {w}
  /\ UNCHANGED <<instances, visible, mounted, body, title, overlapped, toasts>>

(* The close button: _destroyCurrent, which asks no onCloseRequest.        *)
Close ==
  /\ mounted
  /\ instances' = RemoveFirst(instances, Current)
  /\ visible' = visible \ {Current}
  /\ body' = NoWidget /\ mounted' = FALSE
  /\ UNCHANGED <<opening, title, overlapped, toasts>>

Hide ==
  /\ mounted
  /\ mounted' = FALSE
  /\ UNCHANGED <<instances, visible, opening, body, title, overlapped, toasts>>

(* show, also by toggle                                                    *)
Show ==
  /\ Current # NoWidget
  /\ Attach(Current)
  /\ mounted' = TRUE
  /\ UNCHANGED <<instances, visible, opening, overlapped, toasts>>

(* controls.update, setTitle, setDirty of a widget, at any time            *)
AlwaysSyncs(w) == TRUE
MaySync(w) == w = Current
Update(w) ==
  /\ w \in ToSet(instances)
  /\ MaySync(w)
  /\ title' = w
  /\ UNCHANGED <<instances, visible, opening, mounted, body, overlapped, toasts>>
-----------------------------------------------------------------------------
(* toast(): the one that is there goes at once, and its timer; the timeout *)
(* of one that fades already goes on.                                      *)
ShowToast(t) ==
  /\ t \notin shown \union leaving
  /\ shown' = (shown \ {toastEl}) \union {t}
  /\ toastEl' = t
  /\ toastTimer' = t
  /\ UNCHANGED <<leaving, windows>>

(* dismissToast, by a click or by the timer                                *)
Dismiss(t) == IF t \in shown THEN leaving' = leaving \union {t} ELSE UNCHANGED leaving
Click(t) ==
  /\ t \in shown
  /\ Dismiss(t)
  /\ UNCHANGED <<shown, toastEl, toastTimer, windows>>

TimerFires ==
  /\ toastTimer # NoToast
  /\ Dismiss(toastTimer)
  /\ toastTimer' = NoToast
  /\ UNCHANGED <<shown, toastEl, windows>>

(* Its 200 ms are over: what is current by then may be another toast.      *)
Forgets(t) ==
  IF toastEl = t THEN toastEl' = NoToast /\ toastTimer' = NoToast
  ELSE UNCHANGED <<toastEl, toastTimer>>
Faded(t) ==
  /\ t \in leaving
  /\ leaving' = leaving \ {t}
  /\ shown' = shown \ {t}
  /\ Forgets(t)
  /\ UNCHANGED windows

Next ==
  \/ \E w \in Widget : Open(w) \/ Opened(w) \/ OpenFails(w) \/ Update(w)
  \/ Close \/ Hide \/ Show
  \/ \E t \in Toast : ShowToast(t) \/ Click(t) \/ Faded(t)
  \/ TimerFires

Spec == Init /\ [][Next]_overlayVars
-----------------------------------------------------------------------------
(* What the page shows is a widget that lives; and as long as no two       *)
(* openWidget overlap at most one entry is visible (overlay.js:323) and    *)
(* the title bar, with the mark for unsaved changes, is that of the widget *)
(* one sees, although minimized widgets go on updating theirs. A toast on  *)
(* the page has a timer that will take it away, or fades already, also     *)
(* when the next one comes while it does.                                  *)
PageIsSound ==
  /\ mounted => body \in ToSet(instances)
  /\ ~overlapped => /\ \A v, w \in visible : v = w
                    /\ mounted => title = body
  /\ \A t \in shown : t \in leaving \/ toastTimer = t
=============================================================================
