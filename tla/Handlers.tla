------------------------------ MODULE Handlers ------------------------------
(***************************************************************************)
(* internal/gritsd/module_http.go and refholder.go: what the handlers of   *)
(* blob uploads, lookups and links keep in the blob store for a client     *)
(* between its requests. A ReferenceHolder has the references, in the      *)
(* order they were handed to it, and gives them back when their time is    *)
(* over.                                                                   *)
(*                                                                         *)
(* The volume is one path that holds one node or none. A node is there     *)
(* while it is in the tree, and in the node cache until the next cleanup.  *)
(* A blob of the store is gone with its last reference: nothing here calls *)
(* Touch.                                                                  *)
(***************************************************************************)
EXTENDS Integers, Sequences, FiniteSets

CONSTANTS
  Node,
  Dir,        \* the nodes that are directories
  Made,       \* those whose blobs the server makes itself in a MultiLink
  NoNode,
  Calls,      \* requests; one that was answered stands for its client's wait
  Short,      \* 45 seconds
  Long,       \* 5 minutes
  MaxRefs     \* bound on the references of a blob

VARIABLES
  refCount,   \* RefCount of each blob in the store, 0 when it is not there
  tree,       \* the node at the path
  loaded,     \* nodes in ns.fileCache, with references on both their blobs
  heldRefs,   \* ReferenceHolder.heldRefs
  call,       \* what each request does
  promise,    \* history: the blobs of each answer, and how long they are to stay
  serving     \* "yes", or where the model ends: the process has "stopped", or died of
              \* a "fatal" error, or holds a "ghost", an object whose file is gone

handlers == <<refCount, tree, loaded, heldRefs, call, promise, serving>>

Meta(n) == <<n, "metadata">>
Content(n) == <<n, "content">>
Blobs(n) == {Meta(n), Content(n)}
Blob == UNION {Blobs(n) : n \in Node}

Idle == [stage |-> "idle", node |-> NoNode, blob |-> "none"]
NoPromise == [blobs |-> {}, left |-> 0]

Init ==
  /\ refCount = [b \in Blob |-> 0]
  /\ tree = NoNode
  /\ loaded = {}
  /\ heldRefs = <<>>
  /\ call = [c \in Calls |-> Idle]
  /\ promise = [c \in Calls |-> NoPromise]
  /\ serving = "yes"

Present(b) == refCount[b] > 0
Plus(refs, s) == [b \in Blob |-> refs[b] + (IF b \in s THEN 1 ELSE 0)]
Minus(refs, s) == [b \in Blob |-> refs[b] - (IF b \in s THEN 1 ELSE 0)]

(* A client that waits for nothing any more sends its next request.        *)
Ready(c) ==
  /\ serving = "yes"
  /\ call[c] = Idle
  /\ promise[c].left = 0
  /\ \A i \in DOMAIN heldRefs : heldRefs[i].by # c

To(c, r) == call' = [call EXCEPT ![c] = r]
Answer(c) == To(c, Idle)
-----------------------------------------------------------------------------
(* Hold, which takes a reference of its own, for each of the blobs, and    *)
(* the answer that names them. refs are the references before that.        *)
HoldFor(c, refs, blobs, time) ==
  LET s == {blobs[i] : i \in DOMAIN blobs} IN
  /\ refCount' = Plus(refs, s)
  /\ heldRefs' = heldRefs \o [i \in DOMAIN blobs |-> [by |-> c, blob |-> blobs[i], left |-> time]]
  /\ promise' = [promise EXCEPT ![c] = [blobs |-> s, left |-> time]]

(* handleBlobUpload. A blob that is here already is answered for with 204, *)
(* and nothing is held. A request without a hash never looks.              *)
Upload(c, b) ==
  /\ Ready(c)
  /\ refCount[b] + 2 <= MaxRefs
  /\ \/ Present(b) /\ UNCHANGED call
     \/ To(c, [Idle EXCEPT !.stage = "body", !.blob = b])
  /\ UNCHANGED <<refCount, tree, loaded, heldRefs, promise, serving>>

(* What the handlers hold of a node: the content only of a directory.      *)
Needed(n) == IF n \in Dir THEN <<Meta(n), Content(n)>> ELSE <<Meta(n)>>

(* The requests, once these are the references: one that has loaded a node *)
(* and not taken it yet may be left with objects whose files are gone.     *)
Outlived(refs) ==
  [c \in Calls |->
     IF /\ call[c].stage = "loaded"
        /\ \E i \in DOMAIN Needed(call[c].node) : refs[Needed(call[c].node)[i]] = 0
     THEN [call[c] EXCEPT !.stage = "stale"]
     ELSE call[c]]

(* AddLocalFile returns a reference.                                       *)
UploadStored(c) ==
  /\ serving = "yes"
  /\ call[c].stage = "body"
  /\ refCount' = Plus(refCount, {call[c].blob})
  /\ To(c, [call[c] EXCEPT !.stage = "stored"])
  /\ UNCHANGED <<tree, loaded, heldRefs, promise, serving>>

(* The body is not what its hash says.                                     *)
UploadMismatch(c) ==
  /\ serving = "yes"
  /\ call[c].stage = "stored"
  /\ refCount' = Minus(refCount, {call[c].blob})
  /\ call' = [Outlived(refCount') EXCEPT ![c] = Idle]
  /\ UNCHANGED <<tree, loaded, heldRefs, promise, serving>>

UploadAnswered(c) ==
  /\ serving = "yes"
  /\ call[c].stage = "stored"
  /\ HoldFor(c, refCount, <<call[c].blob>>, Long)
  /\ Answer(c)
  /\ UNCHANGED <<tree, loaded, serving>>
-----------------------------------------------------------------------------
(* loadFileNode: a node that comes into the cache references its blobs.    *)
Load(n) == IF n \in loaded THEN refCount ELSE Plus(refCount, Blobs(n))
Loadable(n) == n \in loaded \/ \A b \in Blobs(n) : Present(b)

(* handleLookup keeps RLockTree from the lookup to the last Hold.          *)
Lookup(c) ==
  /\ Ready(c)
  /\ tree # NoNode
  /\ HoldFor(c, refCount, Needed(tree), Short)
  /\ UNCHANGED <<tree, loaded, call, serving>>

(* LocalVolume.MultiLink puts n at the path. A blob that is missing is a   *)
(* 422.                                                                    *)
Link(c, n) ==
  /\ Ready(c)
  /\ n # tree
  /\ n \in Made \/ Loadable(n)
  /\ tree' = n
  /\ loaded' = loaded \union {n}
  /\ refCount' = Load(n)
  /\ To(c, [Idle EXCEPT !.stage = "linked", !.node = n])
  /\ UNCHANGED <<heldRefs, promise, serving>>

(* A link of nothing, whose answer has nothing to hold.                    *)
Unlink(c) ==
  /\ Ready(c)
  /\ tree # NoNode
  /\ tree' = NoNode
  /\ UNCHANGED <<refCount, loaded, heldRefs, call, promise, serving>>

(* handleLink, after the commit, without a lock: GetFileNode loads what    *)
(* was linked, which another link may have displaced.                      *)
LinkLoads(c) ==
  LET n == call[c].node IN
  /\ serving = "yes"
  /\ call[c].stage = "linked"
  /\ Loadable(n)
  /\ loaded' = loaded \union {n}
  /\ refCount' = Load(n)
  /\ To(c, [call[c] EXCEPT !.stage = "loaded"])
  /\ UNCHANGED <<tree, heldRefs, promise, serving>>

(* Its Take, which keeps the node from here to the last Hold. (Of a node   *)
(* that a cleanup took out of the cache before it keeps nothing.)          *)
LinkAnswered(c) ==
  /\ serving = "yes"
  /\ call[c].stage = "loaded"
  /\ HoldFor(c, refCount, Needed(call[c].node), Short)
  /\ Answer(c)
  /\ UNCHANGED <<tree, loaded, serving>>

(* The same, of an object that has left the store with its file. Nobody    *)
(* looks: the answer names what is not there, and when the time of the     *)
(* hold is over the file of whoever stored that blob again is removed.     *)
LinkHoldsGhost(c) ==
  /\ serving = "yes"
  /\ call[c].stage = "stale"
  /\ serving' = "ghost"
  /\ UNCHANGED <<refCount, tree, loaded, heldRefs, call, promise>>

(* FatalIfBlobMissing ends the process when a blob of it is gone.          *)
LinkIsGone(c) ==
  /\ serving = "yes"
  /\ call[c].stage = "linked"
  /\ ~Loadable(call[c].node)
  /\ serving' = "fatal"
  /\ UNCHANGED <<refCount, tree, loaded, heldRefs, call, promise>>

(* DenseRefManager.cleanup: nodes outside the tree give their blobs back.  *)
Cleanup ==
  /\ serving = "yes"
  /\ loaded \ {tree} # {}
  /\ loaded' = loaded \intersect {tree}
  /\ refCount' = Minus(refCount, UNION {Blobs(n) : n \in loaded \ {tree}})
  /\ call' = Outlived(refCount')
  /\ UNCHANGED <<tree, heldRefs, promise, serving>>
-----------------------------------------------------------------------------
Later(t) == IF t = 0 THEN 0 ELSE t - 1

TimePasses ==
  /\ serving = "yes"
  /\ heldRefs' = [i \in DOMAIN heldRefs |-> [heldRefs[i] EXCEPT !.left = Later(@)]]
  /\ promise' = [c \in Calls |->
       IF promise[c].left <= 1 THEN NoPromise ELSE [promise[c] EXCEPT !.left = @ - 1]]
  /\ UNCHANGED <<refCount, tree, loaded, call, serving>>

GivenBack(s) == [b \in Blob |-> refCount[b] - Cardinality({i \in DOMAIN s : s[i].blob = b})]

Mut_AnyExpired(k) == \E i \in 1 .. k : heldRefs[i].left = 0

(* The first k have expired.                                               *)
Expired(k) == \A i \in 1 .. k : heldRefs[i].left = 0

(* cleanupExpired stops at the first one that is to be kept, since they    *)
(* are taken for ordered; those behind it wait for it.                     *)
ReleaseExpired ==
  /\ serving = "yes"
  /\ \E k \in DOMAIN heldRefs :
       /\ Expired(k)
       /\ k < Len(heldRefs) => ~Expired(k + 1)
       /\ heldRefs' = SubSeq(heldRefs, k + 1, Len(heldRefs))
       /\ refCount' = GivenBack(SubSeq(heldRefs, 1, k))
  /\ call' = Outlived(refCount')
  /\ UNCHANGED <<tree, loaded, promise, serving>>

(* ReferenceHolder.Stop, after which the server answers nothing.           *)
Stop ==
  /\ serving = "yes"
  /\ serving' = "stopped"
  /\ refCount' = GivenBack(heldRefs)
  /\ heldRefs' = <<>>
  /\ UNCHANGED <<tree, loaded, call, promise>>

Next ==
  \/ \E c \in Calls, n \in Node \ Made : \E b \in Blobs(n) : Upload(c, b)
  \/ \E c \in Calls :
       \/ UploadStored(c) \/ UploadMismatch(c) \/ UploadAnswered(c)
       \/ Lookup(c) \/ Unlink(c)
       \/ LinkLoads(c) \/ LinkIsGone(c) \/ LinkAnswered(c) \/ LinkHoldsGhost(c)
  \/ \E c \in Calls, n \in Node : Link(c, n)
  \/ Cleanup \/ TimePasses \/ ReleaseExpired \/ Stop

Spec == Init /\ [][Next]_handlers
-----------------------------------------------------------------------------
(* What an answer names - an uploaded blob, the metadata of a node, the    *)
(* listing of a directory - is there until its time is over, whatever is   *)
(* unlinked, cleaned up and released meanwhile, and in whatever order long *)
(* and short holds came in; up to the moment a link holds a ghost. (Not    *)
(* the content of a file, which handleLookup and handleLink name and do    *)
(* not hold.)                                                              *)
AnswersAreHeld ==
  serving = "yes" => \A c \in Calls : \A b \in promise[c].blobs : Present(b)

(* "Instead of immediately releasing the reference, hold it and set up a   *)
(* delayed release after 5 minutes" (module_http.go:793): a blob that no   *)
(* node, no hold and no upload under way needs has no reference left. It   *)
(* has one: Hold "takes ownership" (refholder.go:64) only in its comment.  *)
UploadsAreReleased ==
  serving = "yes" =>
    \A b \in Blob : Present(b) =>
      \/ \E n \in loaded : b \in Blobs(n)
      \/ \E i \in DOMAIN heldRefs : heldRefs[i].blob = b
      \/ \E c \in Calls : call[c].stage = "stored" /\ call[c].blob = b

(* log.Fatalf("FATAL: blob missing: %v") (module_volume.go:250) takes a    *)
(* missing blob for a corrupt volume: what a link has just put in place is *)
(* there.                                                                  *)
NoBlobIsMissing == serving # "fatal"
=============================================================================
