------------------------------ MODULE Outline ------------------------------
(***************************************************************************)
(* client/lib/project/gwm-widget.js, the project tracker: the tree of      *)
(* items, its changes, and what is derived of it. Items are found by their *)
(* ids, which a counter of the page gives out; files bring their own.      *)
(***************************************************************************)
EXTENDS Integers, Sequences, FiniteSets, SequencesExt

CONSTANTS
  Project,       \* the projects one may open
  NoProject,
  Files,         \* what their files may hold at first: sequences of items
  MaxId          \* the bound on the ids given out

VARIABLES
  stored,        \* the project files; each change is saved
  opened, items, \* the open project, project.items
  nextId,        \* _nextId
  collapsed, selId, detailId

outlineVars == <<stored, opened, items, nextId, collapsed, selId, detailId>>

NoId == 0
STATES == <<"ready", "in-progress", "post-production", "can-ship">>
STATE_ORDER == [s \in {STATES[k] : k \in 1..4} |-> (CHOOSE k \in 1..4 : STATES[k] = s) - 1]
STATE_NEXT == [s \in DOMAIN STATE_ORDER |-> STATES[((STATE_ORDER[s] + 1) % 4) + 1]]

Item(id, state, used, children) == [id |-> id, state |-> state, used |-> used, children |-> children]

Init ==
  /\ stored \in [Project -> Files]
  /\ opened = NoProject /\ items = <<>> /\ nextId = 1
  /\ collapsed = {} /\ selId = NoId /\ detailId = NoId
-----------------------------------------------------------------------------
RECURSIVE All(_), FixIds(_, _), AllLeaves(_), Hours(_), Replaced(_, _, _)

(* Every item of a list, with what is below it, in the order of the rows.  *)
All(list) == FlattenSeq([k \in DOMAIN list |-> <<list[k]>> \o All(list[k].children)])
Ids(list) == {All(list)[k].id : k \in DOMAIN All(list)}

(* fixIds: an item without an id gets the next one, and the counter is     *)
(* moved behind the ids there are.                                         *)
KeepsCounting(counter, id) == counter
MovesBehind(counter, id) == IF id + 1 > counter THEN id + 1 ELSE counter
FixIds(list, counter) ==
  FoldLeft(LAMBDA a, item :
             LET id == IF item.id = NoId THEN a.counter ELSE item.id
                 given == IF item.id = NoId THEN a.counter + 1 ELSE a.counter
                 below == FixIds(item.children, MovesBehind(given, id))
             IN [list |-> Append(a.list, [item EXCEPT !.id = id, !.children = below.list]),
                 counter |-> below.counter],
           [list |-> <<>>, counter |-> counter], list)

AllLeaves(item) ==
  IF item.children = <<>> THEN <<item>>
  ELSE FlattenSeq([k \in DOMAIN item.children |-> AllLeaves(item.children[k])])

(* rollup, for the hours used *)
Hours(item) ==
  IF item.children = <<>> THEN item.used
  ELSE FoldLeft(LAMBDA sum, c : sum + Hours(c), 0, item.children)

Orders(item) == {STATE_ORDER[AllLeaves(item)[k].state] : k \in DOMAIN AllLeaves(item)}
Least(S) == CHOOSE n \in S : \A m \in S : n <= m
Most(S) == CHOOSE n \in S : \A m \in S : m <= n

RolledState(item) ==
  IF item.children = <<>> THEN item.state
  ELSE IF Least(Orders(item)) = STATE_ORDER["can-ship"] THEN "can-ship"
  ELSE IF Least(Orders(item)) >= STATE_ORDER["post-production"] THEN "post-production"
  ELSE IF Most(Orders(item)) >= STATE_ORDER["in-progress"] THEN "in-progress"
  ELSE "ready"

(* A list with the item of that id replaced by some others: what findInTree*)
(* finds, what removeFromTree removes, where findParentList inserts.       *)
Replaced(list, id, by) ==
  FlattenSeq([k \in DOMAIN list |->
    IF list[k].id = id THEN by ELSE <<[list[k] EXCEPT !.children = Replaced(@, id, by)]>>])
-----------------------------------------------------------------------------
Open(p) ==
  LET fixed == FixIds(stored[p], nextId) IN
  /\ fixed.counter <= MaxId + 1
  /\ opened' = p /\ items' = fixed.list /\ nextId' = fixed.counter
  /\ UNCHANGED <<stored, collapsed, selId, detailId>>

(* The page is loaded anew: the counter begins again.                      *)
Reload ==
  /\ opened' = NoProject /\ items' = <<>> /\ nextId' = 1
  /\ collapsed' = {} /\ selId' = NoId /\ detailId' = NoId
  /\ UNCHANGED stored

Changed(list) == items' = list /\ stored' = [stored EXCEPT ![opened] = list]
New == Item(nextId, "ready", 0, <<>>)
TakesId == nextId <= MaxId /\ nextId' = nextId + 1

AddTop ==
  /\ opened # NoProject /\ TakesId
  /\ Changed(Append(items, New))
  /\ UNCHANGED <<opened, collapsed, selId, detailId>>

(* The + of a row adds a child where there are children, else a sibling.   *)
AddChild(item) ==
  /\ item.children # <<>> /\ TakesId
  /\ Changed(Replaced(items, item.id, <<[item EXCEPT !.children = Append(@, New)]>>))
  /\ collapsed' = collapsed \ {item.id}
  /\ UNCHANGED <<opened, selId, detailId>>

AddSibling(item) ==
  /\ item.children = <<>> /\ TakesId
  /\ Changed(Replaced(items, item.id, <<item, New>>))
  /\ UNCHANGED <<opened, collapsed, selId, detailId>>

DeleteItem(item) ==
  /\ detailId = item.id /\ item.children = <<>>      \* the button is in the detail panel
  /\ Changed(Replaced(items, item.id, <<>>))
  /\ selId' = IF selId = item.id THEN NoId ELSE selId
  /\ detailId' = NoId
  /\ UNCHANGED <<opened, nextId, collapsed>>

CycleState(item) ==
  /\ item.children = <<>>
  /\ Changed(Replaced(items, item.id, <<[item EXCEPT !.state = STATE_NEXT[@]]>>))
  /\ UNCHANGED <<opened, nextId, collapsed, selId, detailId>>

(* A click on a row.                                                       *)
Click(item) ==
  /\ selId' = item.id
  /\ IF item.children # <<>>
       THEN /\ collapsed' = IF item.id \in collapsed THEN collapsed \ {item.id} ELSE collapsed \cup {item.id}
            /\ detailId' = IF detailId = item.id THEN NoId ELSE detailId
       ELSE /\ detailId' = IF detailId = item.id /\ selId = item.id THEN NoId ELSE item.id
            /\ UNCHANGED collapsed
  /\ UNCHANGED <<stored, opened, items, nextId>>

Next ==
  \/ \E p \in Project : Open(p)
  \/ Reload \/ AddTop
  \/ \E k \in DOMAIN All(items) :
       LET item == All(items)[k] IN
       AddChild(item) \/ AddSibling(item) \/ DeleteItem(item) \/ CycleState(item) \/ Click(item)
-----------------------------------------------------------------------------
(* No two items have the same id, or a change of the one becomes a change  *)
(* of the other: whatever projects are opened after each other, added to   *)
(* and loaded again, from files with ids and from files without. (A file   *)
(* in which some items have ids and others not may break it.)              *)
IdsDistinct == Cardinality(Ids(items)) = Len(All(items))

(* What a row with children shows is true of the work below it: it can     *)
(* ship when everything can, is ready to begin when nothing has begun, and *)
(* its hours are those of the leaves.                                      *)
RowsAreHonest ==
  \A k \in DOMAIN All(items) :
    LET item == All(items)[k]
        leaves == AllLeaves(item)
        Every(S) == \A j \in DOMAIN leaves : leaves[j].state \in S
    IN /\ RolledState(item) = "can-ship" <=> Every({"can-ship"})
       /\ RolledState(item) = "ready" <=> Every({"ready"})
       /\ RolledState(item) = "post-production" <=>
            Every({"post-production", "can-ship"}) /\ ~Every({"can-ship"})
       /\ Hours(item) = FoldLeft(LAMBDA sum, l : sum + l.used, 0, leaves)

(* Both of them: an item is itself, and is shown as what it is.            *)
OutlineIsSound == IdsDistinct /\ RowsAreHonest
=============================================================================
