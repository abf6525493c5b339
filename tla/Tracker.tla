------------------------------ MODULE Tracker ------------------------------
(***************************************************************************)
(* client/lib/project/gwm-widget.js, the project tracker: how a project is *)
(* opened or created, and how each change of it is saved by a timer. What  *)
(* a project holds is a version; Outline has the tree.                     *)
(***************************************************************************)
EXTENDS Integers

CONSTANTS
  Path,
  NoPath,
  Opener,        \* calls of openProject
  Writer,        \* calls of save
  MaxVersion     \* the bound on the versions

VARIABLES
  path,          \* projectPath
  project,       \* the project's version; None before the first is opened
  version,       \* versions so far
  timer,         \* saveTimer runs
  opens,         \* the calls of openProject
  writes,        \* the calls of save
  file,          \* project.json of each path on the server: a version, None without one
  dirs,          \* the directories there are
  alive,         \* the widget has not been destroyed
  failed         \* history: a request failed, or the widget was used again before
                 \* the calls of openProject and save it had begun were over

None == -1
Empty == 0
Foreign == -2    \* what a file holds that this widget did not write

trackerVars == <<path, project, version, timer, opens, writes, file, dirs, alive, failed>>

NoOpen == [stage |-> "idle", path |-> NoPath, found |-> None]
NoWrite == [stage |-> "idle", data |-> None, by |-> NoPath]

Init ==
  /\ path = NoPath /\ project = None /\ version = Empty /\ timer = FALSE
  /\ opens = [o \in Opener |-> NoOpen]
  /\ writes = [w \in Writer |-> NoWrite]
  /\ file \in [Path -> {None, Foreign}]
  /\ dirs = {p \in Path : file[p] # None}
  /\ alive = TRUE /\ failed = FALSE

Idle(w) == writes[w].stage = "idle"
Busy == (\E o \in Opener : opens[o].stage # "idle") \/ \E w \in Writer : ~Idle(w)
-----------------------------------------------------------------------------
(* save takes the JSON at once; the path only when put and mkfile are done.*)
BeginSave(w, by) ==
  /\ Idle(w)
  /\ writes' = [writes EXCEPT ![w] = [stage |-> "put", data |-> project, by |-> by]]

(* openProject sets the path before it awaits the file.                    *)
OpenProject(o, p) ==
  /\ alive /\ opens[o].stage = "idle"
  /\ path' = p
  /\ opens' = [opens EXCEPT ![o] = [NoOpen EXCEPT !.stage = "lookup", !.path = p]]
  /\ failed' = (failed \/ Busy \/ timer)
  /\ UNCHANGED <<project, version, timer, writes, file, dirs, alive>>

Found(o) ==
  /\ opens[o].stage = "lookup"
  /\ file[opens[o].path] # None
  /\ opens' = [opens EXCEPT ![o].stage = "text", ![o].found = file[opens[o].path]]
  /\ UNCHANGED <<path, project, version, timer, writes, file, dirs, alive, failed>>

Loaded(o) ==
  /\ opens[o].stage = "text"
  /\ project' = opens[o].found
  /\ opens' = [opens EXCEPT ![o] = NoOpen]
  /\ UNCHANGED <<path, version, timer, writes, file, dirs, alive, failed>>

(* Whatever goes wrong with the file counts as "doesn't exist".            *)
NotLoaded(o) ==
  /\ opens[o].stage \in {"lookup", "text"}
  /\ project' = Empty
  /\ opens' = [opens EXCEPT ![o].stage = "ensureDir"]
  /\ failed' = (failed \/ file[opens[o].path] # None)
  /\ UNCHANGED <<path, version, timer, writes, file, dirs, alive>>

(* ensureDir: mkdir with the assertion that there is nothing. An assertion *)
(* that fails is fine; another failure ends openProject with no save.      *)
EnsureDir(o) ==
  /\ opens[o].stage = "ensureDir"
  /\ dirs' = dirs \union {opens[o].path}
  /\ opens' = [opens EXCEPT ![o].stage = "save"]
  /\ UNCHANGED <<path, project, version, timer, writes, file, alive, failed>>

EnsureDirFails(o) ==
  /\ opens[o].stage = "ensureDir"
  /\ opens' = [opens EXCEPT ![o] = NoOpen]
  /\ failed' = TRUE
  /\ UNCHANGED <<path, project, version, timer, writes, file, dirs, alive>>

SaveNew(o, w) ==
  /\ opens[o].stage = "save"
  /\ BeginSave(w, path)
  /\ opens' = [opens EXCEPT ![o] = NoOpen]
  /\ failed' = (failed \/ \E v \in Writer : ~Idle(v))
  /\ UNCHANGED <<path, project, version, timer, file, dirs, alive>>
-----------------------------------------------------------------------------
(* Each of the tracker's changes, by a button, an edited name or a field   *)
(* of the detail panel, ends in scheduleSave: 400 ms after the last one.   *)
Change ==
  /\ alive /\ project # None /\ version < MaxVersion
  /\ version' = version + 1
  /\ project' = version'
  /\ timer' = TRUE
  /\ failed' = (failed \/ Busy)
  /\ UNCHANGED <<path, opens, writes, file, dirs, alive>>

TimerFires(w) ==
  /\ timer
  /\ timer' = FALSE
  /\ BeginSave(w, path)
  /\ failed' = (failed \/ Busy)
  /\ UNCHANGED <<path, project, version, opens, file, dirs, alive>>

(* put and mkfile are done: the path is computed now.                      *)
Put(w) ==
  /\ writes[w].stage = "put"
  /\ writes' = [writes EXCEPT ![w].stage = "link", ![w].by = path]
  /\ UNCHANGED <<path, project, version, timer, opens, file, dirs, alive, failed>>

Link(w) ==
  /\ writes[w].stage = "link"
  /\ file' = IF writes[w].by \in dirs THEN [file EXCEPT ![writes[w].by] = writes[w].data] ELSE file
  /\ writes' = [writes EXCEPT ![w] = NoWrite]
  /\ failed' = (failed \/ writes[w].by \notin dirs)
  /\ UNCHANGED <<path, project, version, timer, opens, dirs, alive>>

(* The status bar says so; nothing tries again.                            *)
SaveFails(w) ==
  /\ writes[w].stage \in {"put", "link"}
  /\ writes' = [writes EXCEPT ![w] = NoWrite]
  /\ failed' = TRUE
  /\ UNCHANGED <<path, project, version, timer, opens, file, dirs, alive>>

(* destroy saves at once what the timer would have.                        *)
NotFlushed(w) == UNCHANGED writes
Flushed(w) == IF timer THEN BeginSave(w, path) ELSE UNCHANGED writes
Destroy(w) ==
  /\ alive
  /\ alive' = FALSE
  /\ timer' = FALSE
  /\ Flushed(w)
  /\ failed' = (failed \/ Busy)
  /\ UNCHANGED <<path, project, version, opens, file, dirs>>

Next ==
  \/ \E o \in Opener :
       \/ \E p \in Path : OpenProject(o, p)
       \/ Found(o) \/ Loaded(o) \/ NotLoaded(o) \/ EnsureDir(o) \/ EnsureDirFails(o)
       \/ \E w \in Writer : SaveNew(o, w)
  \/ \E w \in Writer : TimerFires(w) \/ Put(w) \/ Link(w) \/ SaveFails(w) \/ Destroy(w)
  \/ Change

Spec == Init /\ [][Next]_trackerVars
-----------------------------------------------------------------------------
(* "Auto-saves on every change" (line 6): when nothing is under way any    *)
(* more, the widget destroyed or not, project.json of the project's path   *)
(* is the project one sees, unless a request failed or the user was faster *)
(* than the requests.                                                      *)
AutoSaved ==
  ~failed /\ ~Busy /\ ~timer /\ project # None => file[path] = project
=============================================================================
