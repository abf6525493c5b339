-------------------------------- MODULE Mount --------------------------------
(***************************************************************************)
(* internal/gritsd/module_mount.go: a volume mounted as a file system.     *)
(* Each file the kernel knows has a gritsNode, which is clean (read from   *)
(* cachedFile) or dirty (edited in tmpFile, and found through              *)
(* dirtyNodesMap until it is flushed). The requests of FUSE run side by    *)
(* side; each node has a mutex, and the map has one.                       *)
(*                                                                         *)
(* One directory of files. Of the contents only the edits that are not yet *)
(* in the volume are kept. What the kernel and go-fuse do is taken from    *)
(* their interfaces: requests that change a directory exclude each other   *)
(* and the listing of it, requests that change a file exclude each other   *)
(* and the moves of it; a lookup of a known name excludes nothing.         *)
(***************************************************************************)
EXTENDS Integers, FiniteSetsExt

CONSTANTS
  Name,
  Shared,      \* those that other clients of the volume link and unlink
  Node,        \* gritsNode objects
  NoNode,
  MaxRequests, \* bounds on the requests that are under way, the edits, and
  MaxEdits,    \* the times that files are open
  MaxHandles

VARIABLES
  tree,          \* the volume: the names that have a file
  node,          \* the fields of each gritsNode, tmpFile with the edits that are only there
  child,         \* the nodes go-fuse has in the directory
  dirtyNodesMap,
  requests,      \* the FUSE requests under way
  edits,         \* how many edits were made
  unsaved,       \* history: edits that were neither linked nor reported as lost
  displaced,     \* history: nodes whose path is no longer theirs
  clobbered,     \* history: a displaced node was found by its path, or changed the map
  up             \* the process has not panicked

mountVars == <<tree, node, child, dirtyNodesMap, requests, edits, unsaved, displaced, clobbered, up>>
history == <<displaced, clobbered>>

NoFile == {0}
NoName == "none"
Unused == [path |-> NoName, refCount |-> 0, tmpFile |-> NoFile, tmpMetadata |-> FALSE, cachedFile |-> FALSE]
Request(k, s) ==
  [kind |-> k, stage |-> s, node |-> NoNode, name |-> NoName, to |-> NoName, listed |-> {}]

Init ==
  /\ \E S \in SUBSET Name : tree = S
  /\ node = [n \in Node |-> Unused]
  /\ child = [x \in Name |-> NoNode]
  /\ dirtyNodesMap = [x \in Name |-> NoNode]
  /\ requests = {}
  /\ edits = 0
  /\ unsaved = [n \in Node |-> {}]
  /\ displaced = {} /\ clobbered = FALSE
  /\ up = TRUE

At(n) == {r \in requests : r.node = n}
Doing(K) == {r \in requests : r.kind \in K}

(* The two kinds of mutexes: a lookup or a rename that found a dirty node  *)
(* keeps that of the map while it waits for the node's; the requests on a  *)
(* file keep the node's.                                                   *)
KeepsMap(r) == r.stage = "node"
KeepsNode(r) == r.stage \in {"add", "flush", "remove"}
MapFree == \A r \in requests : ~KeepsMap(r)
NodeFree(n) == \A r \in At(n) : ~KeepsNode(r)

(* The kernel's locks of the directory and of a file.                      *)
DirFree == Doing({"readdir", "unlink", "rename"}) = {}
DirUnchanged == Doing({"unlink", "rename"}) = {}
InodeFree(n) ==
  /\ \A r \in At(n) : r.kind \notin {"write", "setattr"}
  /\ \A r \in Doing({"unlink", "rename"}) : n \notin {child[x] : x \in {r.name, r.to} \ {NoName}}

Answer(r) == requests' = requests \ {r}
GoesOn(r, now) == requests' = (requests \ {r}) \union {now}
Arrives(r) == requests' = requests \union {r}
Room == up /\ Cardinality(requests) < MaxRequests
Known(n) == \E x \in Name : child[x] = n
HasHandle(n) == node[n].refCount > Cardinality({r \in At(n) : r.kind = "release"})
Handles == FoldSet(LAMBDA n, sum : sum + node[n].refCount, 0, Node)
-----------------------------------------------------------------------------
(* openCachedFile: what the volume has at the path, unless the node has    *)
(* something already.                                                      *)
CanOpen(f) == f.cachedFile \/ f.tmpFile # NoFile \/ f.path \in tree
Opened(f) ==
  IF f.tmpFile = NoFile THEN [f EXCEPT !.cachedFile = TRUE] ELSE f

(* openTmpFile, up to addDirtyNode                                         *)
Editable(f, truncate) ==
  IF f.tmpFile # NoFile
  THEN IF truncate THEN [f EXCEPT !.tmpFile = {}] ELSE f
  ELSE [f EXCEPT !.tmpFile = {}, !.tmpMetadata = TRUE, !.cachedFile = FALSE]

(* What flush asks first.                                                  *)
Dirty(f) == f.tmpFile # NoFile

Mut_OnlyNewFiles(f) == FALSE

(* Such a node is put into the map (wasDirty).                             *)
NewlyDirty(f) == ~Dirty(f)

(* flush, with the blobs stored and linked, and without: then the file is  *)
(* closed as well, and the node stays in the map.                          *)
Saved(f) == [f EXCEPT !.cachedFile = TRUE, !.tmpFile = NoFile, !.tmpMetadata = FALSE]
NotSaved(f) == [f EXCEPT !.tmpFile = NoFile]

(* Release, after its flush; with the last handle, finalize.               *)
Closed(f) ==
  IF f.refCount = 1
  THEN [f EXCEPT !.refCount = 0, !.cachedFile = FALSE, !.tmpFile = NoFile]
  ELSE [f EXCEPT !.refCount = @ - 1]

(* A request on a file is over, f being what it has made of the node.      *)
Ends(r, f) ==
  LET n == r.node IN
  /\ node' = [node EXCEPT ![n] = IF r.kind = "release" THEN Closed(f) ELSE f]
  /\ Answer(r)
-----------------------------------------------------------------------------
(* Open. Read opens the file the same way, of a node that has none since a *)
(* flush of it failed.                                                     *)
Open(n) ==
  /\ Room
  /\ Known(n) /\ NodeFree(n)
  /\ node[n].refCount = 0 => CanOpen(node[n])
  /\ Handles < MaxHandles
  /\ node' = [node EXCEPT ![n] =
       [IF node[n].refCount = 0 THEN Opened(node[n]) ELSE node[n] EXCEPT !.refCount = @ + 1]]
  /\ UNCHANGED <<tree, child, dirtyNodesMap, requests, edits, unsaved, history, up>>

Read(n) ==
  /\ Room
  /\ HasHandle(n) /\ NodeFree(n) /\ CanOpen(node[n])
  /\ node' = [node EXCEPT ![n] = Opened(node[n])]
  /\ UNCHANGED <<tree, child, dirtyNodesMap, requests, edits, unsaved, history, up>>

(* Write and Setattr take the mutex of the node and make it dirty.         *)
Begins(n, kind, f) ==
  /\ Room
  /\ NodeFree(n) /\ InodeFree(n)
  /\ node' = [node EXCEPT ![n] = f]
  /\ Arrives([Request(kind, IF NewlyDirty(node[n]) THEN "add" ELSE "flush") EXCEPT !.node = n])
  /\ UNCHANGED <<tree, child, dirtyNodesMap, edits, history, up>>

Write(n) ==
  /\ HasHandle(n)
  /\ edits < MaxEdits
  /\ Begins(n, "write", Editable(node[n], FALSE))
  /\ UNCHANGED unsaved

Setattr(n, truncate) ==
  /\ Known(n) \/ HasHandle(n)
  /\ CanOpen(node[n])
  /\ Begins(n, "setattr", Editable(Opened(node[n]), truncate))
  /\ unsaved' = IF truncate THEN [unsaved EXCEPT ![n] = {}] ELSE unsaved

(* Flush (at each close; Fsync does the same) and Release                  *)
Flush(n, kind) ==
  /\ Room
  /\ HasHandle(n) /\ NodeFree(n)
  /\ Arrives([Request(kind, "flush") EXCEPT !.node = n])
  /\ UNCHANGED <<tree, node, child, dirtyNodesMap, edits, unsaved, history, up>>

(* addDirtyNode, with the node's mutex                                     *)
AddDirtyNode(r) ==
  /\ up /\ r.stage = "add" /\ MapFree
  /\ dirtyNodesMap' = [dirtyNodesMap EXCEPT ![node[r.node].path] = r.node]
  /\ GoesOn(r, [r EXCEPT !.stage = "flush"])
  /\ clobbered' = (clobbered \/ r.node \in displaced)
  /\ UNCHANGED <<tree, node, child, edits, unsaved, displaced, up>>

(* The write into the temporary file, which may fail                       *)
Edit(r) ==
  LET n == r.node IN
  /\ up /\ r.kind = "write" /\ r.stage = "flush"
  /\ \/ /\ edits' = edits + 1
        /\ unsaved' = [unsaved EXCEPT ![n] = @ \union {edits'}]
        /\ Ends(r, [node[n] EXCEPT !.tmpFile = @ \union {edits'}])
     \/ Ends(r, node[n]) /\ UNCHANGED <<edits, unsaved>>
  /\ UNCHANGED <<tree, child, dirtyNodesMap, history, up>>

(* flush. A node that was unlinked or replaced is linked where it was:     *)
(* nothing sets isDangling.                                                *)
Flushes(r) ==
  LET n == r.node
      f == node[n]
  IN
  /\ up /\ r.kind # "write" /\ r.stage = "flush"
  /\ \/ /\ ~Dirty(f)
        /\ Ends(r, f)
        /\ UNCHANGED <<tree, unsaved>>
     \/ /\ Dirty(f)
        /\ Ends(r, NotSaved(f))
        /\ unsaved' = [unsaved EXCEPT ![n] = {}]
        /\ UNCHANGED tree
     \/ /\ Dirty(f)
        /\ tree' = tree \union {f.path}
        /\ unsaved' = [unsaved EXCEPT ![n] = @ \ f.tmpFile]
        /\ node' = [node EXCEPT ![n] = Saved(f)]
        /\ GoesOn(r, [r EXCEPT !.stage = "remove"])
  /\ UNCHANGED <<child, dirtyNodesMap, edits, history, up>>

(* removeDirtyNode, with the node's mutex                                  *)
RemoveDirtyNode(r) ==
  LET n == r.node IN
  /\ up /\ r.stage = "remove" /\ MapFree
  /\ dirtyNodesMap' = [dirtyNodesMap EXCEPT ![node[n].path] = NoNode]
  /\ clobbered' = (clobbered \/ n \in displaced)
  /\ Ends(r, node[n])
  /\ UNCHANGED <<tree, child, edits, unsaved, displaced, up>>
-----------------------------------------------------------------------------
Fresh == {n \in Node : node[n] = Unused}

(* A name is given to a new node once nobody has an old one of it open:    *)
(* until then go-fuse takes them for one, since both have the number that  *)
(* AssignInode has for the path.                                           *)
Nameable(x) == \A n \in Node : node[n].path # x

(* Lookup: with a dirty node, its mutex is taken before that of the map is *)
(* given back. Otherwise the volume is asked.                              *)
Lookup(x) ==
  /\ Room /\ MapFree
  /\ child[x] = NoNode => DirUnchanged
  /\ IF dirtyNodesMap[x] # NoNode
     THEN /\ Arrives([Request("lookup", "node") EXCEPT !.name = x, !.node = dirtyNodesMap[x]])
          /\ UNCHANGED <<node, child>>
     ELSE /\ x \in tree /\ child[x] = NoNode /\ Nameable(x)
          /\ \E n \in Fresh : /\ node' = [node EXCEPT ![n].path = x]
                              /\ child' = [child EXCEPT ![x] = n]
          /\ UNCHANGED requests
  /\ UNCHANGED <<tree, dirtyNodesMap, edits, unsaved, history, up>>

(* A node in the map without tmpMetadata ends the process.                 *)
LookupDirty(r) ==
  LET n == r.node IN
  /\ up /\ r.kind = "lookup" /\ NodeFree(n)
  /\ up' = node[n].tmpMetadata
  /\ child' = [child EXCEPT ![r.name] = n]
  /\ clobbered' = (clobbered \/ n \in displaced)
  /\ Answer(r)
  /\ UNCHANGED <<tree, node, dirtyNodesMap, edits, unsaved, displaced>>

(* Readdir: the volume's children, then the names of dirty nodes that are  *)
(* not among them, whose mode it reads without their mutex.                *)
Readdir ==
  /\ Room /\ DirUnchanged
  /\ Arrives([Request("readdir", "list") EXCEPT !.listed = tree])
  /\ UNCHANGED <<tree, node, child, dirtyNodesMap, edits, unsaved, history, up>>

ReaddirDirty(r) ==
  /\ up /\ r.stage = "list" /\ MapFree
  /\ up' = \A x \in Name \ r.listed :
             dirtyNodesMap[x] # NoNode => node[dirtyNodesMap[x]].tmpMetadata
  /\ Answer(r)
  /\ UNCHANGED <<tree, node, child, dirtyNodesMap, edits, unsaved, history>>

(* Create, after the kernel has found no such name. (openTmpFile, here     *)
(* without the mutex of a node that nobody else has yet)                   *)
Create(x) ==
  /\ Room /\ DirFree /\ MapFree
  /\ Handles < MaxHandles
  /\ child[x] = NoNode /\ dirtyNodesMap[x] = NoNode /\ Nameable(x)
  /\ \E n \in Fresh :
       /\ node' = [node EXCEPT ![n] = [Editable(Unused, TRUE) EXCEPT !.path = x, !.refCount = 1]]
       /\ child' = [child EXCEPT ![x] = n]
       /\ dirtyNodesMap' = [dirtyNodesMap EXCEPT ![x] = n]
  /\ UNCHANGED <<tree, requests, edits, unsaved, history, up>>

(* The kernel forgets a file that nobody has open. (One that is in the map *)
(* is found again whatever the kernel forgot.)                             *)
Forget(n) ==
  /\ node[n].path # NoName
  /\ node[n].refCount = 0 /\ At(n) = {} /\ InodeFree(n)
  /\ \A x \in Name : dirtyNodesMap[x] # n
  /\ node' = [node EXCEPT ![n] = Unused]
  /\ child' = [x \in Name |-> IF child[x] = n THEN NoNode ELSE child[x]]
  /\ displaced' = displaced \ {n}
  /\ UNCHANGED <<tree, dirtyNodesMap, requests, edits, unsaved, clobbered, up>>

Displaces(S) == displaced' = displaced \union (S \ {NoNode})

(* Unlink: the link, which fails of a name that is only in the map, and    *)
(* then removeDirtyNode, with the directory's mutex.                       *)
Unlink(x) ==
  /\ Room /\ DirFree
  /\ child[x] # NoNode => InodeFree(child[x])
  /\ x \in tree
  /\ tree' = tree \ {x}
  /\ Displaces({child[x]})
  /\ Arrives([Request("unlink", "unlinked") EXCEPT !.name = x])
  /\ UNCHANGED <<node, child, dirtyNodesMap, edits, unsaved, clobbered, up>>

UnlinkEnds(r) ==
  LET x == r.name IN
  /\ up /\ r.stage = "unlinked" /\ MapFree
  /\ dirtyNodesMap' = [dirtyNodesMap EXCEPT ![x] = NoNode]
  /\ child' = [child EXCEPT ![x] = NoNode]
  /\ Answer(r)
  /\ UNCHANGED <<tree, node, edits, unsaved, history, up>>
-----------------------------------------------------------------------------
(* Rename of a node that is in the map: it keeps the mutex of the map and  *)
(* waits for the node's. Otherwise two links in one batch, which fail when *)
(* the file is not there or has become another one.                        *)
Rename(x, y) ==
  /\ Room /\ DirFree /\ MapFree
  /\ x # y /\ child[x] # NoNode
  /\ \A z \in {x, y} : child[z] # NoNode => InodeFree(child[z])
  /\ IF dirtyNodesMap[x] # NoNode
     THEN /\ Arrives([Request("rename", "node") EXCEPT !.name = x, !.to = y, !.node = dirtyNodesMap[x]])
          /\ UNCHANGED <<tree, displaced>>
     ELSE /\ x \in tree
          /\ tree' = (tree \ {x}) \union {y}
          /\ Displaces({child[y]})
          /\ Arrives([Request("rename", "moved") EXCEPT !.name = x, !.to = y])
  /\ UNCHANGED <<node, child, dirtyNodesMap, edits, unsaved, clobbered, up>>

(* The node gets its new path before the old one is unlinked; an error of  *)
(* that is the end of the request.                                         *)
RenameDirty(r) ==
  LET n == r.node
      x == r.name
      y == r.to
  IN
  /\ up /\ r.kind = "rename" /\ r.stage = "node" /\ NodeFree(n)
  /\ node' = [node EXCEPT ![n].path = y]
  /\ \/ /\ tree' = tree \ {x}
        /\ dirtyNodesMap' = [dirtyNodesMap EXCEPT ![x] = NoNode, ![y] = n]
        /\ Displaces({child[y]})
        /\ GoesOn(r, [r EXCEPT !.stage = "moved", !.node = NoNode])
     \/ Answer(r) /\ Displaces({n}) /\ UNCHANGED <<tree, dirtyNodesMap>>
  /\ UNCHANGED <<child, edits, unsaved, clobbered, up>>

(* The path of the node the kernel knows by the old name, and go-fuse's    *)
(* own tree                                                                *)
RenameEnds(r) ==
  LET x == r.name
      y == r.to
      n == child[x]
  IN
  /\ up /\ r.stage = "moved" /\ NodeFree(n)
  /\ node' = [node EXCEPT ![n].path = y]
  /\ child' = [child EXCEPT ![x] = NoNode, ![y] = n]
  /\ Answer(r)
  /\ UNCHANGED <<tree, dirtyNodesMap, edits, unsaved, history, up>>
-----------------------------------------------------------------------------
(* Another client of the volume links a file, or unlinks one.              *)
OthersLink(x) ==
  /\ tree' = IF x \in tree THEN tree \ {x} ELSE tree \union {x}
  /\ UNCHANGED <<node, child, dirtyNodesMap, requests, edits, unsaved, history, up>>

Proceeds(r) ==
  \/ AddDirtyNode(r) \/ Edit(r) \/ Flushes(r) \/ RemoveDirtyNode(r)
  \/ LookupDirty(r) \/ ReaddirDirty(r) \/ UnlinkEnds(r) \/ RenameDirty(r) \/ RenameEnds(r)

Next ==
  \/ \E n \in Node :
       \/ Open(n) \/ Read(n) \/ Write(n) \/ Forget(n)
       \/ \E truncate \in BOOLEAN : Setattr(n, truncate)
       \/ \E kind \in {"flush", "release"} : Flush(n, kind)
  \/ \E x \in Name :
       \/ Lookup(x) \/ Create(x) \/ Unlink(x)
       \/ \E y \in Name : Rename(x, y)
  \/ Readdir
  \/ \E r \in requests : Proceeds(r)
  \/ \E x \in Shared : OthersLink(x)

Spec == Init /\ [][Next]_mountVars
-----------------------------------------------------------------------------
(* flush, openTmpFile, Release: an edit is in the temporary file until it  *)
(* is linked or somebody is told that it could not be, whoever closes,     *)
(* saves, moves and changes the file in whatever order. And who asks for   *)
(* the name of a file with such edits is led to them, unless a file that   *)
(* was unlinked or replaced has been saved over it.                        *)
EditsAreKept ==
  /\ \A n \in Node : unsaved[n] # {} => node[n].tmpFile # NoFile /\ unsaved[n] \subseteq node[n].tmpFile
  /\ ~clobbered =>
       \A x \in Name : child[x] # NoNode =>
         LET n == child[x] IN
         (Dirty(node[n]) /\ At(n) = {} /\ InodeFree(n)) => dirtyNodesMap[x] = n

(* "If it does exist, it should return attribute data in `out` and return  *)
(* the Inode for the child" (module_mount.go:456): Lookup returns. It does *)
(* not when a request that has the node's mutex waits for the map's        *)
(* (addDirtyNode, removeDirtyNode), nor does any request after it.         *)
LookupsReturn ==
  \A r, s \in requests :
    r.kind = "lookup" /\ s \in At(r.node) => s.stage \notin {"add", "remove"}
=============================================================================
