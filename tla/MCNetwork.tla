----------------------------- MODULE MCNetwork -----------------------------
(* What lies between a page and the disk, each on its own instance: the    *)
(* uploads before a link, the queue of links of DESYNC_MODE, the service   *)
(* worker, and the file of a volume with its crashes. part says which of   *)
(* them a behaviour is about; the others rest.                             *)
EXTENDS Volume, Sequences, FiniteSets

CONSTANTS
  Blob, Puts, Posts, Caches,
  Dir, Leaf, Above, Value, EmptyDir, Nil, Linkers, Listers, Others, MaxSeq,
  Tab, MaxHash

VARIABLES
  part,
  onServer, wasThere, cached, put, posted,
  overrides, queue, seq, flushing, waiting, linking, tree,
  known, told, meant, unsure, misled,
  serverHash, worker, loading, bypass, tab, since

U == INSTANCE ClientUploads
D == INSTANCE DesyncQueue WITH Writers <- Linkers, writer <- linking
W == INSTANCE ServiceWorker

uploads == <<onServer, wasThere, cached, put, posted>>
desync == <<overrides, queue, seq, flushing, waiting, linking, tree, known, told,
            meant, unsure, misled>>
pages == <<serverHash, worker, loading, bypass, tab, since>>
allVars == <<part, uploads, desync, pages, vars>>

InitAll ==
  /\ part \in {"uploads", "queue", "pages", "volume"}
  /\ U!Init /\ D!Init /\ W!Init /\ Init

(* A volume whose tree is not whole does not start again.                  *)
Corrupt == part = "volume" /\ ~up /\ file.root \notin whole /\ UNCHANGED allVars

NextAll ==
  \/ part = "uploads" /\ U!Next /\ UNCHANGED <<part, desync, pages, vars>>
  \/ part = "queue" /\ D!Next /\ UNCHANGED <<part, uploads, pages, vars>>
  \/ part = "pages" /\ W!Next /\ UNCHANGED <<part, uploads, desync, vars>>
  \/ part = "volume" /\ Next /\ UNCHANGED <<part, uploads, desync, pages>>
  \/ Corrupt

(* Nothing that is fair to one of them is enabled in those that rest.      *)
SpecAll == InitAll /\ [][NextAll]_allVars
           /\ U!Fairness /\ D!Fairness /\ W!Fairness
-----------------------------------------------------------------------------
OneDirectory == {<<"d", "d/x">>}
-----------------------------------------------------------------------------
(* The properties of the parts, stated in their modules.                   *)
PutMeansStored == U!PutMeansStored
PostsEnd == part = "uploads" => U!PostsEnd
OwnWritesHold == D!OwnWritesHold
WaitersWake == part = "queue" => D!WaitersWake
ServedByCurrentWorker == W!ServedByCurrentWorker
NavigationsEnd == part = "pages" => W!NavigationsEnd
=============================================================================
