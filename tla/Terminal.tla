------------------------------ MODULE Terminal ------------------------------
(***************************************************************************)
(* client/lib/gterm/gwm-widget.js: a terminal runs the lines one enters,   *)
(* one after the other, names the results with letters that later lines    *)
(* can use, and walks the history with the arrow keys. A line is a member  *)
(* of Line; what it comes to is chosen when it is evaluated.               *)
(***************************************************************************)
EXTENDS Integers, Sequences, FiniteSets

CONSTANTS
  Line,
  MaxHistory,    \* the bound on the lines one enters
  Letters        \* how many letters there are: 26 in the code

VARIABLES
  history,       \* the records: the line, status, value and refIndex
  refResults,    \* _refResults
  running,
  streaming,     \* the records whose Response is still being read
  textarea,
  historyIdx, historyClone

terminalVars == <<history, refResults, running, streaming, textarea, historyIdx, historyClone>>

Nothing == ""                  \* no text
NoValue == <<0, "nothing">>    \* null or undefined
NoRef == -1
Record(src) == [src |-> src, status |-> "queued", value |-> NoValue, refIndex |-> NoRef]

Init ==
  /\ history = <<>> /\ refResults = <<>> /\ running = FALSE /\ streaming = {}
  /\ textarea = Nothing /\ historyIdx = -1 /\ historyClone = <<>>

(* _resultLetter, and the record that _buildExtraVars binds a letter to.   *)
Letter(refIndex) == refIndex % Letters
ExtraVars == [l \in {i \in 0..(Letters - 1) : i < Len(refResults)} |-> refResults[l + 1]]

NowRunning == {i \in DOMAIN history : history[i].status = "running"}
-----------------------------------------------------------------------------
Type(src) ==
  /\ textarea' = src
  /\ UNCHANGED <<history, refResults, running, streaming, historyIdx, historyClone>>

(* runNext, as a function of the history it finds: enqueue calls it, and   *)
(* so does the run that ends.                                              *)
Picked(S) == CHOOSE i \in S : \A j \in S : i <= j
RunNext(h, busy) ==
  LET queued == {i \in DOMAIN h : h[i].status = "queued"} IN
  IF busy \/ queued = {} THEN history' = h /\ running' = busy
  ELSE history' = [h EXCEPT ![Picked(queued)].status = "running"] /\ running' = TRUE

(* keydown, Enter: enqueue                                                 *)
Enter ==
  /\ textarea # Nothing /\ Len(history) < MaxHistory
  /\ textarea' = Nothing /\ historyIdx' = -1 /\ historyClone' = <<>>
  /\ RunNext(Append(history, Record(textarea)), running)
  /\ UNCHANGED <<refResults, streaming>>

(* The evaluation comes to a value, to nothing, to a Response whose body   *)
(* is read in the background, to an error, or to a value that the display  *)
(* fails for. Only the value and the Response get a letter; every value    *)
(* goes to _refResults, nothing too, and what cannot be displayed.         *)
RefIndexShown(results) == Cardinality({i \in DOMAIN history : history[i].refIndex # NoRef})
RefIndexOf(results) == Len(results) - 1
Outcome == {"value", "response", "nothing", "undisplayable"}

StillRunning(failed) == FALSE

Evaluated(i, outcome) ==
  LET value == IF outcome = "nothing" THEN NoValue ELSE <<i, outcome>>
      results == Append(refResults, value)
      shown == outcome \in {"value", "response"}
      rec == [history[i] EXCEPT !.status = IF outcome = "undisplayable" THEN "error" ELSE "done",
                                !.value = value,
                                !.refIndex = IF shown THEN RefIndexOf(results) ELSE NoRef]
  IN
  /\ i \in NowRunning
  /\ refResults' = results
  /\ streaming' = IF outcome = "response" THEN streaming \cup {i} ELSE streaming
  /\ RunNext([history EXCEPT ![i] = rec], StillRunning(outcome = "undisplayable"))
  /\ UNCHANGED <<textarea, historyIdx, historyClone>>

Fails(i) ==
  /\ i \in NowRunning
  /\ RunNext([history EXCEPT ![i].status = "error"], StillRunning(TRUE))
  /\ UNCHANGED <<refResults, streaming, textarea, historyIdx, historyClone>>

(* applyDone: the body was read to its end, or the stream broke.           *)
StreamEnds(i) ==
  /\ i \in streaming
  /\ streaming' = streaming \ {i}
  /\ \/ UNCHANGED history
     \/ history' = [history EXCEPT ![i].status = "error"]
  /\ UNCHANGED <<refResults, running, textarea, historyIdx, historyClone>>
-----------------------------------------------------------------------------
(* keydown, ArrowUp and ArrowDown: the first one copies the history, with  *)
(* what is being typed at its end; what one edits on the way stays in the  *)
(* copy. historyIdx counts from the end, and from 0.                       *)
Copy == Append([i \in DOMAIN history |-> history[i].src], textarea)
Here(idx, clone) == Len(clone) - idx

ArrowUp ==
  /\ history # <<>>
  /\ LET clone == IF historyIdx = -1 THEN Copy
                  ELSE [historyClone EXCEPT ![Here(historyIdx, historyClone)] = textarea]
         idx == IF historyIdx = -1 THEN 1
                ELSE IF historyIdx + 1 < Len(clone) THEN historyIdx + 1 ELSE Len(clone) - 1
     IN /\ historyClone' = clone /\ historyIdx' = idx
        /\ textarea' = clone[Here(idx, clone)]
  /\ UNCHANGED <<history, refResults, running, streaming>>

(* From -1 only the copy is made, and the next key makes another.          *)
ArrowDown ==
  /\ IF historyIdx = -1
       THEN /\ history # <<>>
            /\ historyClone' = Copy /\ UNCHANGED <<historyIdx, textarea>>
       ELSE LET clone == [historyClone EXCEPT ![Here(historyIdx, historyClone)] = textarea] IN
            /\ historyClone' = clone
            /\ historyIdx' = IF historyIdx = 0 THEN 0 ELSE historyIdx - 1
            /\ textarea' = clone[Here(historyIdx', clone)]
  /\ UNCHANGED <<history, refResults, running, streaming>>

Next ==
  \/ \E src \in Line : Type(src)
  \/ Enter \/ ArrowUp \/ ArrowDown
  \/ \E i \in DOMAIN history :
       Fails(i) \/ StreamEnds(i) \/ \E outcome \in Outcome : Evaluated(i, outcome)

Spec == Init /\ [][Next]_terminalVars
-----------------------------------------------------------------------------
(* The letter that stands beside a result is bound to that result when the *)
(* next line is evaluated. It is so for the first 26 results: the 27th is  *)
(* labelled _a, which stays bound to the first one. And lines are          *)
(* evaluated one at a time, with none left waiting for a run that has      *)
(* ended, whatever became of it.                                           *)
TerminalIsSound ==
  /\ \A i \in DOMAIN history :
       history[i].refIndex \in 0..(Letters - 1) =>
         /\ Letter(history[i].refIndex) \in DOMAIN ExtraVars
         /\ ExtraVars[Letter(history[i].refIndex)] = history[i].value
  /\ Cardinality(NowRunning) = IF running THEN 1 ELSE 0
  /\ (\E i \in DOMAIN history : history[i].status = "queued") => running
=============================================================================
