--------------------------- MODULE ClientUploads ---------------------------
(***************************************************************************)
(* client/lib/grits/GritsClient.js: how the blobs of a tree get to the     *)
(* server before a link names them. put asks for a blob before it uploads  *)
(* it; mkfile and mkdir only cache what they make; _serverMultiLink        *)
(* uploads what the server says it misses, and posts the link again.       *)
(* Blobs may disappear from both ends at any time.                         *)
(***************************************************************************)
EXTENDS Integers, FiniteSets

CONSTANTS
  Blob,
  Puts,        \* calls of put
  Posts,       \* calls of multiLink
  Caches       \* whether the browser has the Cache API (_blobCache is not null)

VARIABLES
  onServer,    \* the server's blobs
  wasThere,    \* history: each blob that was on the server since the first of the puts of it under way began
  cached,      \* _blobCache
  put,         \* the calls of put
  posted       \* the calls of _serverMultiLink

uploadVars == <<onServer, wasThere, cached, put, posted>>

NoPut == [stage |-> "idle", blob |-> CHOOSE b \in Blob : TRUE]
NoPosted == [stage |-> "idle", needs |-> {}, seenMissing |-> {}, missing |-> {}]

Init ==
  /\ onServer = {} /\ wasThere = {} /\ cached = {}
  /\ put = [c \in Puts |-> NoPut]
  /\ posted = [l \in Posts |-> NoPosted]

Arrive(b) == onServer' = onServer \union {b} /\ wasThere' = wasThere \union {b}
Nothing == UNCHANGED <<onServer, wasThere>>
SetPut(c, stage) == put' = [put EXCEPT ![c].stage = stage]
SetPosted(l, stage) == posted' = [posted EXCEPT ![l].stage = stage]

(* _blobCachePut                                                           *)
CachePut(b) == cached' = IF Caches THEN cached \union {b} ELSE cached
-----------------------------------------------------------------------------
(* put: _serverHasBlob, _uploadBlob, _blobCachePut                         *)
PutBegin(c, b) ==
  /\ put[c].stage = "idle"
  /\ put' = [put EXCEPT ![c] = [stage |-> "asking", blob |-> b]]
  /\ wasThere' = IF b \in onServer \/ \E d \in Puts : put[d].stage # "idle" /\ put[d].blob = b
                 THEN wasThere ELSE wasThere \ {b}
  /\ UNCHANGED <<onServer, cached, posted>>

(* HEAD; an error counts as "absent".                                      *)
PutAsk(c) ==
  /\ put[c].stage = "asking"
  /\ \/ put[c].blob \in onServer /\ SetPut(c, "done") /\ CachePut(put[c].blob)
     \/ SetPut(c, "sending") /\ UNCHANGED cached
  /\ Nothing /\ UNCHANGED posted

(* PUT: it arrives and is answered, is refused, or the connection breaks   *)
(* before or after the server has the blob.                                *)
PutSend(c) ==
  /\ put[c].stage = "sending"
  /\ \/ Arrive(put[c].blob) /\ SetPut(c, "done") /\ CachePut(put[c].blob)
     \/ Nothing /\ SetPut(c, "failed") /\ UNCHANGED cached
     \/ (Arrive(put[c].blob) \/ Nothing) /\ SetPut(c, "broken") /\ UNCHANGED cached
  /\ UNCHANGED posted

(* After a broken connection the blob is asked for once more.              *)
BrokenTaken(b) == TRUE
BrokenPresent(b) == b \in onServer
PutConfirm(c) ==
  /\ put[c].stage = "broken"
  /\ \/ BrokenPresent(put[c].blob) /\ SetPut(c, "done") /\ CachePut(put[c].blob)
     \/ SetPut(c, "failed") /\ UNCHANGED cached
  /\ Nothing /\ UNCHANGED posted

PutReturn(c) ==
  /\ put[c].stage \in {"done", "failed"}
  /\ put' = [put EXCEPT ![c] = NoPut]
  /\ Nothing /\ UNCHANGED <<cached, posted>>

(* mkfile, mkdir: _storeBlob caches the blob; without the Cache API it     *)
(* calls an _uploadBlob that GritsClient does not have, and throws.        *)
Make(b) ==
  /\ Caches
  /\ cached' = cached \union {b}
  /\ Nothing /\ UNCHANGED <<put, posted>>
-----------------------------------------------------------------------------
(* _serverMultiLink                                                        *)
PostBegin(l, N) ==
  /\ posted[l].stage = "idle"
  /\ posted' = [posted EXCEPT ![l] = [NoPosted EXCEPT !.stage = "posting", !.needs = N]]
  /\ Nothing /\ UNCHANGED <<cached, put>>

(* The server links, or answers 422 with one blob it misses. A second      *)
(* answer about the same blob ends the loop.                               *)
RememberNothing(l, b) == posted[l].seenMissing
RememberLast(l, b) == {b}
Remember(l, b) == posted[l].seenMissing \union {b}
ServerAnswers(l) ==
  /\ posted[l].stage = "posting"
  /\ \/ /\ posted[l].needs \subseteq onServer
        /\ SetPosted(l, "linked")
     \/ \E b \in posted[l].needs \ onServer :
          IF b \in posted[l].seenMissing THEN SetPosted(l, "stuck")
          ELSE posted' = [posted EXCEPT ![l].stage = "uploading",
                            ![l].seenMissing = Remember(l, b), ![l].missing = {b}]
     \/ SetPosted(l, "failed")
  /\ Nothing /\ UNCHANGED <<cached, put>>

(* _uploadMissingBlob: from the cache, with _uploadBlob and its second     *)
(* look after a broken connection; what is not cached must be there by now.*)
Upload(l) ==
  /\ posted[l].stage = "uploading"
  /\ \E b \in posted[l].missing :
       \/ b \in cached /\ Arrive(b) /\ SetPosted(l, "posting")
       \/ b \notin cached /\ b \in onServer /\ Nothing /\ SetPosted(l, "posting")
       \/ b \notin cached /\ Nothing /\ SetPosted(l, "failed")
       \/ b \in cached /\ (Arrive(b) \/ Nothing) /\ SetPosted(l, "failed")
  /\ UNCHANGED <<cached, put>>

PostReturn(l) ==
  /\ posted[l].stage \in {"linked", "stuck", "failed"}
  /\ posted' = [posted EXCEPT ![l] = NoPosted]
  /\ Nothing /\ UNCHANGED <<cached, put>>
-----------------------------------------------------------------------------
(* The server's sweep, for blobs no linked tree has; the browser's quota.  *)
ServerEvict(b) ==
  /\ b \in onServer
  /\ \A l \in Posts : posted[l].stage = "linked" => b \notin posted[l].needs
  /\ onServer' = onServer \ {b}
  /\ UNCHANGED <<wasThere, cached, put, posted>>

BrowserEvict(b) ==
  /\ b \in cached
  /\ cached' = cached \ {b}
  /\ Nothing /\ UNCHANGED <<put, posted>>

Next ==
  \/ \E c \in Puts :
       \/ \E b \in Blob : PutBegin(c, b)
       \/ PutAsk(c) \/ PutSend(c) \/ PutConfirm(c) \/ PutReturn(c)
  \/ \E b \in Blob : Make(b) \/ ServerEvict(b) \/ BrowserEvict(b)
  \/ \E l \in Posts :
       \/ \E N \in SUBSET Blob : N # {} /\ PostBegin(l, N)
       \/ ServerAnswers(l) \/ Upload(l) \/ PostReturn(l)

(* The browser settles every fetch.                                        *)
Fairness ==
  /\ \A c \in Puts : WF_uploadVars(PutAsk(c) \/ PutSend(c) \/ PutConfirm(c))
  /\ \A l \in Posts : WF_uploadVars(ServerAnswers(l) \/ Upload(l))

Spec == Init /\ [][Next]_uploadVars /\ Fairness
-----------------------------------------------------------------------------
(* When put returns a CID, the server had the blob at some time during the *)
(* call, also when a connection broke (_uploadBlob, GritsClient.js:860).   *)
PutMeansStored ==
  \A c \in Puts : put[c].stage = "done" => put[c].blob \in wasThere

(* Every link ends, although the server may drop each blob as soon as it   *)
(* is uploaded (seenMissing, GritsClient.js:628).                          *)
PostsEnd ==
  \A l \in Posts : posted[l].stage \in {"posting", "uploading"} ~>
                   posted[l].stage \notin {"posting", "uploading"}
=============================================================================
