------------------------------ MODULE MCClient ------------------------------
(* What the browser client reads, each on its own instance: lookups with   *)
(* their caches, and the fetches of blobs from mirrors. part says which of *)
(* them a behaviour is about; the other one rests.                         *)
EXTENDS MCClientCache

CONSTANTS Mirror, Blob, Content, None, Gets, Prefetcher, Threshold, MaxLoad, MaxErrors, MaxUnder

VARIABLES
  part, mirrors, stats, active, job, prefetchQueue, inFlight, draining, current, jsonCache

N == INSTANCE Mirrors

fetches == <<mirrors, stats, active, job, prefetchQueue, inFlight, draining, current, jsonCache>>

InitAll == part \in {"lookups", "fetches"} /\ Init /\ N!Init

NextAll ==
  \/ part = "lookups" /\ Next /\ UNCHANGED <<part, fetches>>
  \/ part = "fetches" /\ N!Next /\ UNCHANGED <<part, vars>>

SpecAll == InitAll /\ [][NextAll]_<<part, vars, fetches>>

DirContent == [b \in Blob |-> IF b = "dir" THEN "list" ELSE None]
-----------------------------------------------------------------------------
(* The property of Mirrors, stated there.                                  *)
InFlightIsQueued == N!InFlightIsQueued
=============================================================================
