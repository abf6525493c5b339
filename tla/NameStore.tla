----------------------------- MODULE NameStore -----------------------------
(***************************************************************************)
(* internal/grits/namestore.go: Lookup and MultiLink, the two operations   *)
(* on the tree of a volume, with what happens between their steps.         *)
(*                                                                         *)
(* MultiLink holds treeMtx for all its phases: it checks the assertions    *)
(* against the tree as it is, builds the new tree request by request and   *)
(* tells the watchers about each, asks the callbacks, builds its answer    *)
(* and commits root and serial number in one cacheMtx section. Lookup has  *)
(* no lock of its own; it reads the serial number, the root for the        *)
(* callbacks and, for every path, the root again, each under cacheMtx.     *)
(* handleLookup calls it under RLockTree, LocalVolume.LookupNode does not. *)
(*                                                                         *)
(* References on nodes are the business of DenseRefs and NodeCache. A path *)
(* is a sequence of names: its spellings ("." and "/" for the root, a      *)
(* trailing slash) are left out.                                           *)
(***************************************************************************)
EXTENDS Integers, NameTree

CONSTANTS
  Callers,
  Lookups,    \* sequences of paths, as the paths of one lookup request
  Batches,    \* sequences of requests, as those of one link request
  LockedOnly, \* TRUE: every Lookup runs under RLockTree
  MaxSerial   \* the bound on serial numbers

(* A request: path; new, the node uploaded for it (nil unlinks); from, the *)
(* path the caller saw the node at if it is a move (mount's Rename);       *)
(* unchanged, AssertPrevValueMatches with what the caller saw at path;     *)
(* kind, the other assertions: some of "blob", "tree" and "nonempty".      *)

VARIABLES
  root,       \* the node at ns.rootAddr
  serial,     \* ns.serialNumber
  stage, job, \* what each caller does, and the paths or requests it does it for
  pos,        \* how many of them are done
  draft,      \* newRoot of a MultiLink; cbRoot of a Lookup
  reply,      \* the answer under construction
  seen,       \* the last answer of each caller
  told        \* the paths the watchers heard of from the MultiLink under way

caller == <<stage, job, pos, draft, reply, seen>>
vars == <<root, serial, caller, told>>

NoAnswer == [serial |-> 0, nodes |-> <<>>]
EmptyTree == [p \in {<<>>} |-> Dir]

Init ==
  /\ root = EmptyTree
  /\ serial = 1
  /\ stage = [c \in Callers |-> "idle"]
  /\ job = [c \in Callers |-> <<>>]
  /\ pos = [c \in Callers |-> 0]
  /\ draft = [c \in Callers |-> Missing]
  /\ reply = [c \in Callers |-> NoAnswer]
  /\ seen = [c \in Callers |-> NoAnswer]
  /\ told = {}

Entries(b) == {b[i] : i \in 1..Len(b)}

Linking(c) == stage[c] \in {"link", "commit"}
Looking(c) == stage[c] \in {"look", "resolve"}

(* treeMtx is a sync.RWMutex; the unlocked lookups do without.             *)
WriteLock == \A d \in Callers : ~Linking(d) /\ stage[d] # "resolve"
ReadLock == \A d \in Callers : ~Linking(d)

Mut_NoReadLock(kind) == TRUE

(* The call returns. *)
Ends(c) ==
  /\ stage' = [stage EXCEPT ![c] = "idle"]
  /\ job' = [job EXCEPT ![c] = <<>>]
  /\ pos' = [pos EXCEPT ![c] = 0]
  /\ draft' = [draft EXCEPT ![c] = Missing]
  /\ reply' = [reply EXCEPT ![c] = NoAnswer]

CanLook(kind) == kind = "resolve" => ReadLock

(* What the caller saw at a path: nil if it saw nothing there.             *)
Seen(c, p) == IF p \in DOMAIN seen[c].nodes THEN seen[c].nodes[p] ELSE Missing

Value(c, r) == IF r.from # {} THEN Seen(c, CHOOSE p \in r.from : TRUE) ELSE r.new
-----------------------------------------------------------------------------
(* Lookup begins with the serial number; stage "resolve" is under          *)
(* RLockTree, stage "look" is not.                                         *)
LookBegin(c, ps, kind) ==
  /\ stage[c] = "idle"
  /\ CanLook(kind)
  /\ LockedOnly => kind = "resolve"
  /\ stage' = [stage EXCEPT ![c] = kind]
  /\ job' = [job EXCEPT ![c] = ps]
  /\ pos' = [pos EXCEPT ![c] = 0]
  /\ draft' = [draft EXCEPT ![c] = Missing]
  /\ reply' = [reply EXCEPT ![c] = [serial |-> serial, nodes |-> <<>>]]
  /\ UNCHANGED <<root, serial, seen, told>>

(* cbRoot, the root the callbacks will work on.                            *)
LookRoot(c) ==
  /\ Looking(c)
  /\ draft[c] = Missing
  /\ draft' = [draft EXCEPT ![c] = root]
  /\ UNCHANGED <<root, serial, stage, job, pos, reply, seen, told>>

(* resolvePath, for the next path: from the root there is now.             *)
LookPath(c) ==
  /\ Looking(c)
  /\ draft[c] # Missing
  /\ pos[c] < Len(job[c])
  /\ pos' = [pos EXCEPT ![c] = @ + 1]
  /\ LET p == job[c][pos[c] + 1]
     IN reply' = [reply EXCEPT ![c].nodes = [q \in DOMAIN @ \union {p} |->
                    IF q \in DOMAIN @ THEN @[q] ELSE At(root, p)]]
  /\ UNCHANGED <<root, serial, stage, job, draft, seen, told>>

(* The lookup callbacks, and the end of the lookup.                        *)
LookReturns(c) ==
  /\ Looking(c)
  /\ draft[c] # Missing
  /\ pos[c] = Len(job[c])
  /\ seen' = [seen EXCEPT ![c] = reply[c]]
  /\ Ends(c)
  /\ UNCHANGED <<root, serial, told>>
-----------------------------------------------------------------------------
(* The assertions of a request, on the node its path leads to. A path      *)
(* without a parent directory fails any of them with ErrNotExist.          *)
Asserted(c, r) ==
  LET n == At(root, r.path) IN
  r.unchanged \/ r.kind # {} =>
    /\ InDirectory(root, r.path)
    /\ r.unchanged => n = Seen(c, r.path)
    /\ "blob" \in r.kind => IsFile(n)
    /\ "tree" \in r.kind => IsDir(n)
    /\ "nonempty" \in r.kind => n # Missing

(* "cannot unlink root".                                                   *)
UnlinksRoot(c, r) == r.path = <<>> /\ Value(c, r) = Missing

(* Phase 1: lock, and check everything against the tree as it is.          *)
LinkBegin(c, b) ==
  /\ stage[c] = "idle"
  /\ WriteLock
  /\ serial < MaxSerial
  /\ \A r \in Entries(b) : Asserted(c, r) /\ ~UnlinksRoot(c, r)
  /\ stage' = [stage EXCEPT ![c] = "link"]
  /\ job' = [job EXCEPT ![c] = b]
  /\ pos' = [pos EXCEPT ![c] = 0]
  /\ draft' = [draft EXCEPT ![c] = root]
  /\ UNCHANGED <<root, serial, reply, seen, told>>

Mut_NoParent(t, p) == TRUE

(* recursiveLink: every directory on the way has to be there, and the node *)
(* it puts the entry in has to be a directory; for the path of the root    *)
(* this is the old root itself.                                            *)
CanLink(t, p) == IF p = <<>> THEN IsDir(t) ELSE InDirectory(t, p)

Mut_TellLinks(c, p) ==
  IF Value(c, job[c][pos[c] + 1]) = Missing THEN told ELSE told \union {p}

(* notifyWatchers, before anything is decided.                             *)
Tell(c, p) == told \union {p}

(* Phase 2, for the next request.                                          *)
LinkPath(c) ==
  /\ stage[c] = "link"
  /\ pos[c] < Len(job[c])
  /\ pos' = [pos EXCEPT ![c] = @ + 1]
  /\ LET r == job[c][pos[c] + 1]
         p == r.path
     IN /\ CanLink(draft[c], p)
        /\ draft' = [draft EXCEPT ![c] = Put(@, p, Value(c, r))]
        /\ told' = Tell(c, p)
  /\ UNCHANGED <<root, serial, stage, job, reply, seen>>

(* The tree the answer is read from.                                       *)
Described(c) == draft[c]

(* Phases 3 and 4: the callbacks agree, and the answer is built.           *)
LinkAnswer(c) ==
  /\ stage[c] = "link"
  /\ pos[c] = Len(job[c])
  /\ stage' = [stage EXCEPT ![c] = "commit"]
  /\ reply' = [reply EXCEPT ![c] =
       [serial |-> serial + 1,
        nodes |-> [p \in {r.path : r \in Entries(job[c])} |-> At(Described(c), p)]]]
  /\ UNCHANGED <<root, serial, job, pos, draft, seen, told>>

(* Phase 5.                                                                *)
LinkCommit(c) ==
  /\ stage[c] = "commit"
  /\ root' = draft[c]
  /\ serial' = serial + 1
  /\ seen' = [seen EXCEPT ![c] = reply[c]]
  /\ told' = {}
  /\ Ends(c)

(* A call fails: a directory or a blob is not there, a callback refuses.   *)
Fails(c) ==
  /\ stage[c] # "idle"
  /\ told' = IF Linking(c) THEN {} ELSE told
  /\ Ends(c)
  /\ UNCHANGED <<root, serial, seen>>

Next ==
  \E c \in Callers :
    \/ \E ps \in Lookups, kind \in {"look", "resolve"} : LookBegin(c, ps, kind)
    \/ LookRoot(c) \/ LookPath(c) \/ LookReturns(c)
    \/ \E b \in Batches : LinkBegin(c, b)
    \/ LinkPath(c) \/ LinkAnswer(c) \/ LinkCommit(c) \/ Fails(c)

Spec == Init /\ [][Next]_vars
-----------------------------------------------------------------------------
(* recursiveLink: no sequence of links, moves and unlinks, in one batch or *)
(* in several, leaves an entry without a directory it is in: a move of a   *)
(* directory into itself would, if it were let through.                    *)
EntriesInDirectories == WellFormed(root)

(* Lookup and MultiLink are atomic (REFERENCE.md, Atomicity): many paths   *)
(* are looked up in one version of the tree, the one of the serial number  *)
(* in the answer; a link happens whole or not at all, on a tree that still *)
(* is as it asserts, and its answer describes the version it made.         *)
Atomic == INSTANCE AtomicTree WITH tree <- root, version <- serial, answer <- seen
ImplementsAtomicTree == Atomic!Spec

(* FileTreeWatcher: OnFileTreeChange "is called whenever a path in the     *)
(* tree changes". What a commit changes lies at, above or below a path the *)
(* watchers heard of before it, so that they can drop what they cached.    *)
WatchersTold ==
  [][\A p \in DOMAIN root \union DOMAIN root' :
       At(root, p) # At(root', p) =>
         \E q \in told : IsPrefix(p, q) \/ IsPrefix(q, p)]_root
=============================================================================
