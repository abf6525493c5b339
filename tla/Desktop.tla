------------------------------ MODULE Desktop ------------------------------
(* What runs in the desktop, each on its own instance. Widgets that watch  *)
(* something or make one wait: the window manager with its toasts, the     *)
(* directory list, the inbox and the terminal. Programs that write what    *)
(* the user made, and what runs them: the editor, how the project tracker  *)
(* saves, and the results that commands are chained by.                    *)
EXTENDS Integers, Sequences

CONSTANTS
  Widget, NoWidget, Toast, NoToast,
  Depth, Names, RowId, Load, Tick,
  Msg, NoMsg, Copies, InboxTick,
  Line, MaxHistory, Letters,
  File, NoFile, Saver, MaxEdits,
  Path, NoPath, Opener, Writer, MaxVersion,
  Size, NoResult, Tool

VARIABLES
  instances, visible, opening, mounted, body, title, overlapped,
  shown, leaving, toastEl, toastTimer,
  listed, basePath, rootNode, childRows, page, load, tick, toggling, refreshing, life, excused,
  folder, arrived, messages, list, selected, pane, inboxLoading, inboxTick, trashing,
  named, inboxTimer, open, haunted,
  history, refResults, running, streaming, textarea, historyIdx, historyClone,
  text, edits, dirty, currentR, loading, save, dialog, onServer, closed, during,
  path, project, version, timer, opens, writes, file, dirs, alive, failed,
  line, pc, importCache, runs

V == INSTANCE Overlay
F == INSTANCE FilesWidget WITH version <- listed, children <- childRows
I == INSTANCE InboxWidget WITH loading <- inboxLoading, timer <- inboxTimer, page <- list
T == INSTANCE Terminal
E == INSTANCE Editor
K == INSTANCE Tracker
P == INSTANCE Pipeline

overlay == <<instances, visible, opening, mounted, body, title, overlapped,
             shown, leaving, toastEl, toastTimer>>
files == <<listed, basePath, rootNode, childRows, page, load, tick, toggling, refreshing, life, excused>>
inbox == <<folder, arrived, messages, list, selected, pane, inboxLoading, inboxTick, trashing,
           named, inboxTimer, open, haunted>>
terminal == <<history, refResults, running, streaming, textarea, historyIdx, historyClone>>
editor == <<text, edits, dirty, currentR, loading, save, dialog, onServer, closed, during>>
tracker == <<path, project, version, timer, opens, writes, file, dirs, alive, failed>>
pipeline == <<line, pc, importCache, runs>>
-----------------------------------------------------------------------------
(* The properties of the widgets and the programs, stated in their modules. *)
PageIsSound == V!PageIsSound
TerminalIsSound == T!TerminalIsSound
CleanIsSaved == E!CleanIsSaved
AutoSaved == K!AutoSaved
InvokedOnce == P!InvokedOnce
=============================================================================
