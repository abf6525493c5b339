------------------------------ MODULE Pipeline ------------------------------
(***************************************************************************)
(* client/lib/gimbal/result.js and dispatch.js: a line of the shell builds *)
(* results out of results - one is the object a program is called on,      *)
(* others are its arguments - and nothing runs until somebody awaits one.  *)
(* A result may be used several times; its program is to run once.         *)
(***************************************************************************)
EXTENDS Integers

CONSTANTS
  Size,          \* a line builds the results 1..Size, each from earlier ones
  NoResult,
  Tool           \* the programs; "path" is GimbalResult.path, which loads none

VARIABLES
  line,          \* what each result is built from, and what its program returns
  pc,            \* where each result's executor is
  importCache,
  runs           \* history: how often each program was invoked

pipelineVars == <<line, pc, importCache, runs>>

Result == 1..Size
Earlier(r) == 1..(r - 1)

Lines ==
  {l \in [Result -> [tool : Tool, prev : Result \cup {NoResult},
                     args : SUBSET Result, returns : Result \cup {NoResult}]] :
     \A r \in Result :
       /\ l[r].prev \in Earlier(r) \cup {NoResult} /\ l[r].args \subseteq Earlier(r)
       /\ l[r].returns \in Earlier(r) \cup {NoResult}
       /\ l[r].tool = "path" => l[r].prev # NoResult /\ l[r].args = {} /\ l[r].returns = NoResult}

Init ==
  /\ line \in Lines
  /\ pc = [r \in Result |-> "new"] /\ importCache = {} /\ runs = [r \in Result |-> 0]

Settled(r) == pc[r] \in {"value", "error"}
-----------------------------------------------------------------------------
(* GimbalResult._resolve for each of S: the executor is started by the     *)
(* first one who awaits the result.                                        *)
EveryTime(at, S) == [r \in Result |-> IF r \in S THEN "started" ELSE at[r]]
Resolved(at, S) == [r \in Result |-> IF r \in S /\ at[r] = "new" THEN "started" ELSE at[r]]

At(r, place, awaited) == pc' = Resolved([pc EXCEPT ![r] = place], awaited)

(* The line, or the terminal with its last result, awaits a result.        *)
Await(r) ==
  /\ pc' = Resolved(pc, {r})
  /\ UNCHANGED <<line, importCache, runs>>

(* _execute: the object first, ...                                         *)
Begin(r) ==
  /\ pc[r] = "started"
  /\ At(r, "object", {line[r].prev} \ {NoResult})
  /\ UNCHANGED <<line, importCache, runs>>

(* ... then all arguments at once, ...                                     *)
ObjectThere(r) ==
  /\ pc[r] = "object"
  /\ line[r].prev # NoResult => pc[line[r].prev] = "value"
  /\ IF line[r].tool = "path" THEN \E end \in {"value", "error"} : At(r, end, {})
                              ELSE At(r, "arguments", line[r].args)
  /\ UNCHANGED <<line, importCache, runs>>

(* ... then the program, which may not exist, and its invocation.          *)
ArgumentsThere(r) ==
  /\ pc[r] = "arguments" /\ \A a \in line[r].args : pc[a] = "value"
  /\ At(r, "import", {})
  /\ UNCHANGED <<line, importCache, runs>>

Import(r) ==
  /\ pc[r] = "import"
  /\ importCache' = importCache \cup {line[r].tool}
  /\ runs' = [runs EXCEPT ![r] = @ + 1]
  /\ At(r, "invoked", {line[r].returns} \ {NoResult})
  /\ UNCHANGED line

CommandNotFound(r) ==
  /\ pc[r] = "import" /\ line[r].tool \notin importCache
  /\ At(r, "error", {})
  /\ UNCHANGED <<line, importCache, runs>>

(* A program that returns a result is over when that one is.               *)
Returned(r) ==
  /\ pc[r] = "invoked"
  /\ IF line[r].returns = NoResult THEN \E end \in {"value", "error"} : At(r, end, {})
     ELSE Settled(line[r].returns) /\ At(r, pc[line[r].returns], {})
  /\ UNCHANGED <<line, importCache, runs>>

(* An error ends the wait at once; the other arguments go on.              *)
Awaited(r) == CASE pc[r] = "object" -> {line[r].prev} \ {NoResult}
                [] pc[r] = "arguments" -> line[r].args
                [] OTHER -> {}
Rejected(r) ==
  /\ \E a \in Awaited(r) : pc[a] = "error"
  /\ At(r, "error", {})
  /\ UNCHANGED <<line, importCache, runs>>

Next ==
  \E r \in Result :
    \/ Await(r) \/ Begin(r) \/ ObjectThere(r) \/ ArgumentsThere(r)
    \/ Import(r) \/ CommandNotFound(r) \/ Returned(r) \/ Rejected(r)

Spec == Init /\ [][Next]_pipelineVars
-----------------------------------------------------------------------------
(* However often a result is used - as the object of one program, as an    *)
(* argument of another, awaited by the line itself - its program is        *)
(* invoked once at most, and only when everything it is built from is      *)
(* there and stays what it was: a program that writes does not write twice.*)
InvokedOnce ==
  \A r \in Result :
    /\ runs[r] <= 1
    /\ runs[r] = 1 => \A a \in line[r].args \cup ({line[r].prev} \ {NoResult}) : pc[a] = "value"
=============================================================================
