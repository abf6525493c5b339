---------------------------- MODULE FilesWidget ----------------------------
(***************************************************************************)
(* client/lib/files/gwm-widget.js: the list of a directory, that follows   *)
(* the directory by looking every two seconds whether it is another one,   *)
(* and can go to the parent. A directory on the way from the one it opens  *)
(* to the root is a number, the root 0; a listing is a directory at one of *)
(* its versions, and its files are told from those of other listings.      *)
(***************************************************************************)
EXTENDS Integers, FiniteSets, Functions

CONSTANTS
  Depth,         \* the directory the widget opens with
  Names,         \* the names in each version of a directory
  RowId,         \* rows; a row is its node's too
  Load,          \* calls of loadRoot, of which goToParent can start another
  Tick           \* calls of refreshTick, which setInterval lets overlap

VARIABLES
  version,       \* each directory's version on the server
  basePath,
  rootNode,      \* the directory it was made for, and the listing of its file
  children,      \* rootNode.children: the row of each name
  page,          \* the rows one sees: the name and the listing its file is of
  load,
  tick,
  toggling,      \* a subdirectory is being opened: domBusy
  refreshing,    \* the timer runs
  life,          \* of the widget: "new", "open", "destroyed"
  excused        \* history: a request failed at a point where nothing asks again,
                 \* a tick gave up because domBusy, two loads overlapped, or a
                 \* tick's changes were overtaken by another's

Dirs == 0..Depth
Name == UNION Range(Names)
NamesOf(f) == Names[f.version]
None == [dir |-> -1, version |-> 0]
NoRoot == [made |-> -1, file |-> None]
Listing(d) == [dir |-> d, version |-> version[d]]

NoRow == -1
NoRows == [n \in Name |-> NoRow]
Null == [n \in Name |-> -2]
Idle == [stage |-> "idle", dir |-> 0, file |-> None, first |-> FALSE, made |-> -1, base |-> Null]
filesVars == <<version, basePath, rootNode, children, page, load, tick, toggling, refreshing,
               life, excused>>

Init ==
  /\ version = [d \in Dirs |-> 0]
  /\ basePath = Depth
  /\ rootNode = NoRoot /\ children = Null /\ page = [r \in {} |-> NoRow]
  /\ load = [l \in Load |-> Idle]
  /\ tick = [t \in Tick |-> Idle]
  /\ toggling = FALSE /\ refreshing = FALSE /\ life = "new" /\ excused = FALSE

Loads(l) == load[l].stage # "idle"
DomBusy == toggling \/ \E l \in Load : Loads(l) /\ ~load[l].first
-----------------------------------------------------------------------------
(* loadRoot: the lookup, the children, and all the rows anew. rootNode is  *)
(* set in between; without one by then the rows are not touched. The first *)
(* call starts the timer when it is over, well or not, also of a widget    *)
(* that is destroyed by then.                                              *)
CreateWidget(l) ==
  /\ life = "new"
  /\ life' = "open"
  /\ load' = [load EXCEPT ![l] = [Idle EXCEPT !.stage = "lookup", !.dir = Depth, !.first = TRUE]]
  /\ UNCHANGED <<version, basePath, rootNode, children, page, tick, toggling, refreshing, excused>>

LoadLookup(l) ==
  LET d == load[l].dir IN
  /\ load[l].stage = "lookup"
  /\ rootNode' = [made |-> d, file |-> Listing(d)]
  /\ children' = Null
  /\ load' = [load EXCEPT ![l].stage = "children", ![l].file = Listing(d)]
  /\ UNCHANGED <<version, basePath, page, tick, toggling, refreshing, life, excused>>

(* Rows for names, that nobody has yet.                                    *)
Row(n, f) == [name |-> n, file |-> f]
Used == DOMAIN page \union Range(children) \union UNION {Range(tick[t].base) : t \in Tick}
NewRows(N) == CHOOSE row \in Injection(N, RowId \ Used) : TRUE

LoadChildren(l) ==
  LET f == load[l].file
      row == NewRows(NamesOf(f))
  IN  /\ load[l].stage = "children"
      /\ IF rootNode = NoRoot THEN UNCHANGED <<children, page>>
         ELSE /\ children' = [n \in Name |-> IF n \in NamesOf(f) THEN row[n] ELSE NoRow]
              /\ page' = [r \in Range(row) |-> Row(CHOOSE n \in NamesOf(f) : row[n] = r, f)]
      /\ load' = [load EXCEPT ![l] = Idle]
      /\ refreshing' = (refreshing \/ load[l].first)
      /\ UNCHANGED <<version, basePath, rootNode, tick, toggling, life, excused>>

LoadFails(l) ==
  /\ Loads(l)
  /\ load' = [load EXCEPT ![l] = Idle]
  /\ refreshing' = (refreshing \/ load[l].first)
  /\ excused' = TRUE
  /\ UNCHANGED <<version, basePath, rootNode, children, page, tick, toggling, life>>

(* goToParent, after the lookup that shows the parent is there: rootNode   *)
(* is gone and basePath is the parent from now on.                         *)
GoToParent(l) ==
  /\ life = "open" /\ basePath > 0 /\ ~Loads(l)
  /\ basePath' = basePath - 1
  /\ rootNode' = NoRoot /\ children' = Null
  /\ load' = [load EXCEPT ![l] = [Idle EXCEPT !.stage = "lookup", !.dir = basePath - 1]]
  /\ excused' = (excused \/ \E k \in Load : Loads(k))
  /\ UNCHANGED <<version, page, tick, toggling, refreshing, life>>
-----------------------------------------------------------------------------
(* refreshTick: the directory as it is now; nothing to do when rootNode    *)
(* has it already.                                                         *)
TickStarts(t) ==
  /\ refreshing /\ tick[t].stage = "idle" /\ rootNode # NoRoot
  /\ tick' = [tick EXCEPT ![t] = [Idle EXCEPT !.stage = "lookup", !.dir = basePath]]
  /\ UNCHANGED <<version, basePath, rootNode, children, page, load, toggling, refreshing, life, excused>>

SamePath(f, g) == f.dir = g.dir
Same(f, g) == f = g
TickLookup(t) ==
  /\ tick[t].stage = "lookup"
  /\ tick' = [tick EXCEPT ![t] =
                IF rootNode = NoRoot \/ Same(rootNode.file, Listing(tick[t].dir)) THEN Idle
                ELSE [@ EXCEPT !.stage = "children", !.file = Listing(tick[t].dir)]]
  /\ UNCHANGED <<version, basePath, rootNode, children, page, load, toggling, refreshing, life, excused>>

(* rootNode's file is set; then collectChanges compares with the children  *)
(* there are, and awaits those of open subdirectories. Before loadRoot set *)
(* the children it throws.                                                 *)
TickChildren(t) ==
  /\ tick[t].stage = "children"
  /\ IF rootNode = NoRoot THEN UNCHANGED rootNode
     ELSE rootNode' = [rootNode EXCEPT !.file = tick[t].file]
  /\ tick' = [tick EXCEPT ![t] = IF children = Null THEN Idle
                                 ELSE [@ EXCEPT !.stage = "apply", !.made = rootNode.made,
                                                !.base = children]]
  /\ excused' = (excused \/ (rootNode # NoRoot /\ children = Null))
  /\ UNCHANGED <<version, basePath, children, page, load, toggling, refreshing, life>>

(* applyChanges makes the changes collected then on the page there is now: *)
(* it removes rows, gives others their new file, and adds rows, whatever   *)
(* has a name's row by now. (Before a row that is gone one cannot insert:  *)
(* that throws, and like all of this is one of the excused cases.)         *)
TickApplies(t) ==
  LET k == tick[t]
      had == {n \in Name : k.base[n] # NoRow}
      gone == had \ NamesOf(k.file)
      kept == {k.base[n] : n \in had \intersect NamesOf(k.file)}
      row == NewRows(NamesOf(k.file) \ had)
      stay == DOMAIN page \ {k.base[n] : n \in gone}
  IN  /\ k.stage = "apply"
      /\ tick' = [tick EXCEPT ![t] = Idle]
      /\ IF DomBusy THEN UNCHANGED <<children, page>>
         ELSE /\ page' = [r \in stay \union Range(row) |->
                            IF r \notin stay THEN Row(CHOOSE n \in DOMAIN row : row[n] = r, k.file)
                            ELSE IF r \in kept THEN [page[r] EXCEPT !.file = k.file] ELSE page[r]]
              /\ children' = IF k.made # rootNode.made THEN children
                             ELSE [n \in Name |-> IF n \in DOMAIN row THEN row[n]
                                                  ELSE IF n \in gone THEN NoRow ELSE children[n]]
      /\ excused' = (excused \/ DomBusy \/ children # k.base
                     \/ rootNode # [made |-> k.made, file |-> k.file])
      /\ UNCHANGED <<version, basePath, rootNode, load, toggling, refreshing, life>>

(* The catch of "silently ignore - retry next tick".                       *)
TickFails(t) ==
  /\ tick[t].stage # "idle"
  /\ tick' = [tick EXCEPT ![t] = Idle]
  /\ excused' = (excused \/ tick[t].stage = "apply")
  /\ UNCHANGED <<version, basePath, rootNode, children, page, load, toggling, refreshing, life>>
-----------------------------------------------------------------------------
(* toggle, of a directory whose children are not loaded yet                *)
Toggle ==
  /\ ~toggling => life = "open" /\ DOMAIN page # {}
  /\ toggling' = ~toggling
  /\ UNCHANGED <<version, basePath, rootNode, children, page, load, tick, refreshing, life, excused>>

Destroy ==
  /\ life = "open"
  /\ life' = "destroyed" /\ refreshing' = FALSE
  /\ UNCHANGED <<version, basePath, rootNode, children, page, load, tick, toggling, excused>>

ServerChanges(d) ==
  /\ version[d] + 1 \in DOMAIN Names
  /\ version' = [version EXCEPT ![d] = @ + 1]
  /\ UNCHANGED <<basePath, rootNode, children, page, load, tick, toggling, refreshing, life, excused>>

TickGoesOn(t) == TickLookup(t) \/ TickChildren(t) \/ TickApplies(t)
LoadGoesOn(l) == LoadLookup(l) \/ LoadChildren(l)

Next ==
  \/ \E l \in Load : CreateWidget(l) \/ LoadGoesOn(l) \/ LoadFails(l) \/ GoToParent(l)
  \/ \E t \in Tick : TickStarts(t) \/ TickGoesOn(t) \/ TickFails(t)
  \/ \E d \in Dirs : ServerChanges(d)
  \/ Toggle \/ Destroy

(* The timer ticks; a request is answered, and not always by a failure.    *)
Fairness ==
  /\ \A l \in Load : WF_filesVars(LoadGoesOn(l))
  /\ \A t \in Tick : /\ WF_filesVars(TickStarts(t))
                     /\ SF_filesVars(TickLookup(t)) /\ SF_filesVars(TickChildren(t))
                     /\ SF_filesVars(TickApplies(t))
-----------------------------------------------------------------------------
(* In the end one sees each file of the directory of the title once, as it *)
(* is, also when ticks overlap or one began before goToParent: unless the  *)
(* rows changed between a tick's comparison and its changes, which may     *)
(* then add a row twice for good, or one of the other points where nothing *)
(* asks again was met (excused).                                           *)
AsItIs(f) ==
  /\ {page[r] : r \in DOMAIN page} = {Row(n, f) : n \in NamesOf(f)}
  /\ Cardinality(DOMAIN page) = Cardinality(NamesOf(f))

FilesCatchUp == <>[](AsItIs(Listing(basePath)) \/ excused \/ life # "open")
=============================================================================
