# grits: a verification development

grits is a server (Go, `internal/`, `cmd/`) and a browser client (JavaScript,
`client/`) for trees of content-addressed files. A *blob* is a file named by
the hash of its bytes. A *node* is a metadata blob plus a content blob; the
content of a directory is the list of its entries' metadata addresses, so the
address of a directory fixes the whole tree below it. A *volume* is one mutable
root address with a serial number. Everything that changes a tree builds a new
one and exchanges the root.

The modules in this directory model the parts of the program whose correctness
depends on the order in which things happen, and the theorems say which of
their properties hold for every size of the system.

    tlc -config Server.cfg MCServer     # a run; PROJECT.json lists them all
    tlapm BlobStore_proofs.tla          # the proofs of a component

`PROJECT.json` lists for every definition the lines of the program it models,
for every run the properties it checks, for every property an altered
definition that breaks it (an operator defined before the one it stands for),
and the hazards the properties are for.

## The system

| component | state it keeps | operations | what makes it correct |
| --- | --- | --- | --- |
| Blob store (`blobstore.go`) | map address to entry with count and expiry; files on disk | read, add, touch, take, release, periodic eviction, start-up scan | counts are exact; what is referenced or touched stays; what is neither goes; a file is what its name says |
| Dense reference manager (`namestore.go` 2425-2620) | counts per node of the current tree, references on loaded nodes | recursive take with rollback, recursive release, cleanup | every node of the current tree stays loaded; a failed take leaves nothing; no fatal branch is reached |
| Node cache (`namestore.go` 1130-1370) | one loaded node per address, in-flight entries | load, create, take, release, cleanup | one object per address; waiters wake; a node in use keeps its blobs |
| Name store (`namestore.go` 290-960) | root, serial number, watchers, callbacks | `Lookup` of many paths, `MultiLink` of many requests with assertions | both are atomic; the tree stays a tree; watchers hear of every change |
| Volume (`module_volume.go`) | the saved root and serial number | commit and save, load | an acknowledged link survives a crash; the saved tree is whole |
| Remote volume and fetchers (`namestore.go` 2200-2345, `module_remote.go`) | root of another server's tree, whether it is recent | look up, fetch a path, exchange the root | the root never goes back; a lookup returns |
| Sparse reference manager (`namestore.go` 2346-2425) | nodes fetched on demand, drop times | take, release, drop old nodes | no node in use is dropped; no deadlock |
| Blob cache (`blobcache.go`) | fetched blobs, a size counter, fetches in flight | get, clean up by last use | the counter is the sum; a fetch in flight is awaited, not repeated |
| HTTP handlers, reference holder (`module_http.go`, `refholder.go`) | references kept for the client between two requests | upload, link, lookup, get, timed release | everything held is released once, and not before the client could use it |
| Mount (`module_mount.go`) | open files, dirty nodes, inodes | FUSE operations, flush, invalidation | what was written is flushed; locks are taken in one order |
| Mirror, origin, tracker, peer | registrations with deadlines, heartbeats | register, expire, heartbeat | one who keeps its interval is never declared gone |
| Rate limits, access control | buckets; grants along a path | check, grant, callbacks on lookup and link | the limit is the limit; a grant covers what it names |
| Server (`server.go`, `modules.go`, `tasks.go`) | modules, periodic tasks, the lock of the data directory | start, stop, hand over | references are taken before the first sweep; one process per directory |
| Client: lookups (`GritsClient.js`) | mini-roots (addresses of directories with the time they came), the time they may be used for | lookup with a fast and a slow leg, ingest an answer, link, reset | what is found is one version, recent, and has one's own links; no lookup is stranded |
| Client: writes (`GritsClient.js`) | cached blobs; in `DESYNC_MODE` a queue of links and what it overrides | put, mkfile, mkdir, link with uploads, flush | what put returns was stored; a link ends; own writes are seen |
| Client: fetching (`MirrorManager.js`, `HashVerifier.js`) | the list of mirrors and their counters, the prefetch queue, parsed blobs | fetch, fall back, verify, prefetch | nothing unverified is cached; an address is fetched ahead while it is queued, and can be again |
| Service worker (`grits-serviceworker.js`, `module_serviceworker.go`) | one registration, two cookies | check the version, leave, the interstitial, register | the page is that of the server's version; a navigation comes to a page |
| Windows and toasts (`gimbal/overlay.js`, `dialog.js`) | widgets, the visible one, toasts and their timers | open, close, hide, show, toast | title and body are one widget's; toasts go |
| Widgets (`files`, `inbox`, `gterm`, `codemirror`, `project`, `markdown`) | what they show of a volume, what is being loaded, saved or refreshed | load, refresh by a timer, edit, save, run a line | they catch up with the server; nothing unsaved looks saved; ids and labels name one thing |
| Shell (`gimbal/result.js`, `dispatch.js`, and the programs `cp`, `mv`, `rm` ...) | results that run when awaited; nothing between two commands | build a line, run a program, look up and link | a program runs once; a command takes nothing away that it did not see |

### How they interact

* The name store and the node cache hold references in the blob store: two
  (metadata, content) for every loaded node. The blob store may drop anything
  else at any moment, from its own goroutine.
* `treeMtx` serialises `MultiLink` against lookups that take `RLockTree`;
  `cacheMtx` protects the node cache and the root; a node and the blob store
  have a mutex each. Several entry points work without `treeMtx`
  (`GetFileNode`, `CreateTreeNode`, `LocalVolume.LookupNode`).
* `LocalVolume.MultiLink` commits in the name store, gives the locks back and
  then saves. A crash in between is an ordinary event.
* Watchers (mount) and callbacks (access control) are called from inside
  `MultiLink` and `Lookup`.
* The reference holder bridges an HTTP upload and the link request that uses it;
  the client retries a link for which the server misses a blob.
* The client knows the server by its answers only: lookups and links answer with
  the addresses along each path, which `_ingestLookupResponse` makes its new
  mini-roots, whatever overtook what. Every program of the shell, every widget
  and the service worker see volumes through that client.
* Between any two of a client's `await`s everything else happens: another event
  of the same page, another page, the server, a timer. A function up to its
  next `await` is one action, everywhere in the client's modules.

### Hard behaviours

Interleavings of goroutines around locks that are given up between two steps
(node cache, lookups without `RLockTree`, commit and save); failures in the
middle of a walk over a tree (rollback of a take); crashes inside a write and
between two writes; timers against references (eviction, touch, holds,
heartbeats); answers that overtake each other (remote roots, browser client);
state of a page that is read before an `await` and used after it, by widgets
that are refreshed by `setInterval` whether the last refresh is over or not;
two tabs that take one service worker from each other.
`PROJECT.json` lists them under "hazards", each at its line.

## The modules

| component | abstract specification | model | instance | proofs |
| --- | --- | --- | --- | --- |
| blob store | `PinStore` | `BlobStore` | `MCServer` | `BlobStore_proofs` |
| dense reference manager | `TreeStore` | `DenseRefs` | `MCServer` | `DenseRefs_proofs` |
| node cache | | `NodeCache` | `Trees`, `MCTrees` | `NodeCache_proofs` |
| name store | `AtomicTree` (on `NameTree`) | `NameStore` | `Trees`, `MCTrees` | `Trees_proofs` |
| volume | | `Volume` | `MCVolume`, `MCNetwork` | `Volume_proofs` |
| HTTP handlers, reference holder | | `Handlers` | `MCServer` | `DenseRefs_proofs` |
| blob cache | | `BlobCache` | `MCServer` | `BlobStore_proofs` |
| remote volume and fetchers | | `RemoteTree` | `Trees`, `MCTrees` | `Trees_proofs` |
| mount | | `Mount` | `Trees`, `MCTrees` | `Trees_proofs` |
| client: lookups | | `ClientCache` | `MCClientCache`, `MCClient` | `ClientCache_proofs` |
| client: writes | | `ClientUploads`, `DesyncQueue` | `MCNetwork` | `Network_proofs` |
| client: fetching | | `Mirrors` | `MCClient` | `ClientCache_proofs` |
| service worker | | `ServiceWorker` | `MCNetwork` | `Network_proofs` |
| windows, widgets that follow something | | `Overlay`, `FilesWidget`, `InboxWidget`, `Terminal` | `Desktop`, `MCPrograms` | `Client_proofs` (windows, terminal) |
| widgets that save, programs | | `Editor`, `Tracker`, `Outline`, `Pipeline`, `MarkdownView` | `Desktop`, `MCPrograms` | `Client_proofs` (editor, tracker, results) |
| programs that write | | `ShellCommands` (on `NameTree`) | `Trees`, `MCTrees` | `Trees_proofs` |

The models meet at their interfaces. What `BlobStore` proves of a reference
(the blob stays) is the guard of `Evict`/`Vanish` in `DenseRefs`, `NodeCache`
and `Volume`. What `DenseRefs` proves of the current tree (it stays loaded) is
why a path of the current tree can be resolved in `NameStore`. `NodeCache`
opens up the load that is one step in `DenseRefs`, for one node at a time, and
shows what that step rests on. `Volume` takes a commit of `NameStore` as one
step and adds the file and the crash. `ClientCache` takes the server's tree as
the sequence of versions that `AtomicTree` promises, each answer from one of
them, and `RemoteTree` does the same with another server's; `DesyncQueue` and `ShellCommands` take a `MultiLink` as one step that
happens whole, for the same reason, and `Mount` a link of one file. `ClientUploads` has the server that drops
what nobody references, as `PinStore` allows, and so have `Handlers` and
`BlobCache`, which are the counts of its references.

The instances with more than one model check components that share no state,
one beside the other: `MCServer` has the reference manager, the handlers, the
blob store and the blob cache, `MCTrees` the node
cache, the name store, the remote tree, the mount and the programs of the shell,
which work on the same kind of tree, `MCClient` the fetches beside the lookups,
`MCNetwork` uploads, queue, service worker and volume, `MCPrograms` the nine
widgets and programs. Their variable `part` says which one a behaviour is about,
the other ones rest in their initial state, so that nothing is multiplied and a
property speaks of one component. `Trees` (under `MCTrees`) and `Desktop` (under
`MCPrograms`) hold the composition without the values of its constants, so that
the theorems about it speak of every value; `Desktop` leaves out the two
modules with `RECURSIVE` operators.

The components with proofs have named assumptions on their constants, as weak
as the code allows. `RECURSIVE` operators are in
`Outline` (trees of items) and `MarkdownView` (trees of syntax) only, which
nothing is proved about. The trees of volumes are functions from paths
(`NameTree`), which need none.

## The blob store: `PinStore`, `BlobStore`, `BlobStore_proofs`

`BlobStore` models `internal/grits/blobstore.go`, the reference-counted store of
content-addressed files that every other part builds on.

| state of the module | in the code |
| --- | --- |
| `files`, `refCount`, `expiresAt` | the keys of `bs.files` and the fields `RefCount`, `ExpiresAt` of each `LocalCachedFile` |
| `disk`, `mtime` | the file at `blobToPath(addr)`: absent, half written, complete; its modification time, which `Touch` uses to carry the expiry over a restart |
| `stage`, `addr` | what each caller is doing (an upload copied but not stored, an `os.WriteFile` under way, one reference it must release) and to which blob |
| `worker` | the eviction goroutine |
| `clock`, `crashes`, `refused` | time, the number of times the process ended, the outcome of the last `NewLocalBlobStore` |
| `keepUntil` | history: the lifetime the last `Touch` asked for |

`bs.mtx` is held over whole operations, so one operation is one action. The two
exceptions are what makes the component interesting: `AddReader` copies and
hashes before it takes the lock (`AddReaderCopy`, then `AddReaderStore` or
`AddReaderFail`), and `AddDataBlock` calls `os.WriteFile`, which is not atomic
(`AddDataBlockWrite`, then `AddDataBlockDone` or `AddDataBlockFail`, with
`bs.mtx` held from one to the other; a `Crash` in between leaves a `torn`
file). Every file operation that the code lets fail may fail when its name is
in the constant `Faults`.

`PinStore` is the contract the rest of the server relies on: a pinned or
guarded blob stays, everything else may vanish at any time. `BlobStore`
implements it (`stored` is what is complete on disk, `pins` the reference
counts, `guarded` what a `Touch` still protects).

The run `server` checks `RefCountExact`, `ImplementsPinStore` and
`GarbageIsEvicted` with two blobs, two callers, failing reads, writes, renames
and removals, one crash, and a scan that validates. `StoreTypeOK`, `HeldOnDisk`,
`HeldIntact` and `TouchedIsKept` are theorems. `HeldIntact` needs `ValidateBlobs`: without it, which is the
default, a crash inside `os.WriteFile` leaves a partial file that the next scan
adopts and serves (set the constant to `FALSE` to see it).

Two callers are enough for every pairwise race on one address (upload against
upload, upload against release, release against sweep), two addresses for a
sweep that removes one blob and keeps another, and a clock of three ticks with
lifetimes 0 and 1 for an expiry before, at and after the moment it is read.
`"chtimes"` is not among the faults of the run: the code only logs that error,
and then a touched blob does not outlive a restart.

The model also has what happens when one bad file ends the scan and the store
does not open (`RefuseStart`), although the comment at `blobstore.go:156` says
the scan goes on. The directory sharding and the lock file of the process are
left out.

*Fairness*: time passes, a started `os.WriteFile` ends, the
worker's ticker fires and the lock is not withheld from it for ever (strong
fairness, since uploads may hold `bs.mtx` at some of the moments it asks).
Nothing is assumed of a process that ended: `GarbageIsEvicted` speaks of one
that runs.

## The dense reference manager: `TreeStore`, `DenseRefs`, `DenseRefs_proofs`

`DenseRefs` models `DenseRefManager` in `internal/grits/namestore.go` together
with its users: the commit phase of `MultiLink`, the root taken by
`EmptyNameStore` and `DeserializeNameStore`, lookups that take their reference
under `RLockTree` as `handleLookup` does, `FileNode.Release`.

Because nodes are content-addressed, the tree below an address never changes:
it is the constant `Child`, and one subtree in several places is the normal
case. (Timestamps, which are part of an address in the program, only make more
addresses.) `Rank` says that no node is below itself.

| state of the module | in the code |
| --- | --- |
| `stored` | nodes whose blobs are in the blob store |
| `cached`, `nodeRefs` | `ns.fileCache`, `FileNode.refCount` |
| `rc` | `DenseRefManager.refCount`, 0 where the map has no entry |
| `root`, `origin` | `ns.rootAddr`, and whether it is the empty one, a linked one or a loaded one |
| `op`, `next`, `mode` | who holds `treeMtx`, for which new root, and the phase it is in |
| `stack`, `taken` | the call stack of `recursiveTake` or `recursiveRelease`; the list a failing take is rolled back from |
| `held` | the node each reader has a reference on |

The two recursive functions run under `treeMtx`, but blobs come and go and
readers release between two of their steps. So they are modelled call by call:
`TakeRoot`, `TakeChild`, `TakeFails`, `TakeDone`, `Undo`, `Undone` for a take
and its rollback, `ReleaseRoot`, `ReleaseChild`, `ReleaseDone` for a release,
in any order of a directory's entries, as Go ranges over a map. `Commit` and
`Open` install the root. `Open` leaves the reference on the empty root behind,
as `DeserializeNameStore` does; `Pins` counts it.

`TreeStore` is what a reader relies on: one current tree at a time, exchanged in
one step, readable as a whole, and a held node readable too.

The run `server` checks `CountsAreNames`, `OperationsEnd` and
`ImplementsTreeStore` (the other invariants are theorems) on five trees: a file,
an empty directory, a directory with one entry, one with a directory and the
file that is also below it, one with the same directory twice.

Those five have every kind of sharing: between two trees, at two depths, twice
in one directory. A tree that is taken shares a part with the tree that is
released, and a take can fail below a part that was already counted. One reader
is enough because readers only meet in the count of a node.

*Fairness*: weak fairness on the goroutine that holds `treeMtx` (`TreeStep`);
nothing it waits for is in the model or in the code.

## The node cache: `NodeCache`

`NodeCache` models `loadFileNode`, `actuallyLoadFileNode`, `CreateTreeNode`,
`GetFileNode`, `FileNode.Take` and `Release`, `cleanup`, and for one node what a
`MultiLink` does to it. A load has the steps it has in the code: claim the
address by an in-flight entry under `cacheMtx` (`Ask`), read the blobs without
a lock (`LoadRead`, `LoadMisses`), fill the entry under `cacheMtx`
(`LoadFills`, `LoadFails`), wake the waiters. Node objects have an identity of
their own, because `FileNode.refCount` goes by object while cleanup and the
reference manager go by address.

| state of the module | in the code |
| --- | --- |
| `present` | addresses whose two blobs are in the blob store |
| `cache` | `ns.fileCache[addr]`: a node, an in-flight entry (named by its loader) or nothing |
| `addrOf`, `pinned`, `refs` | the node objects: address, references on their blobs, `refCount` |
| `managed` | addresses with an entry in `DenseRefManager.refCount` |
| `op`, `at`, `stage`, `node` | what each caller does, for which address, how far, with which object |

Operations come in three kinds: without the lock of the tree (`get`, `make`),
under its read lock (`lookup`), under its write lock (`link`, `unlink`,
`mkdir`). `Ops` gives those that happen at each address; in the runs, and for
the theorems, that is any of them at any address.

The run `trees` checks, on two callers, one address and four objects, that no
fatal branch is reached (`NothingIsFatal`: cleanup's panic and `Release`'s), that
objects, entries and addresses fit together (`NodesAreSound`: one load of an
address at a time, no object whose references nobody can find, a loader for
every entry in flight, blobs for what was looked up) and that whoever waits is
woken (`SleepersWake`). Callers of different addresses share nothing but
`treeMtx`, so one address is enough for what they can do to each other. The
number of objects is a bound: an operation starts only while there is an object
left for it (`RoomForOneMore`), and objects nothing leads to are used again.

`CreateTreeNode` replaces an entry that is in flight (`namestore.go:1361`), also
under the write lock of the tree, since loads go on without it. The loader then
returns an object that is not the one in the cache; or its load fails and it
removes the entry that was installed meanwhile (`namestore.go:1154`), so that
the node of the tree comes back as a second object. Every directory is created
by `recursiveLink` and loaded by `GetFileNode`, and timestamps of one second
make addresses recur, so this is not far-fetched. The run `nodes_panic` shows
where it ends: cleanup finds a node without references that the tree counts,
and panics ("Node %s has 0 refCount but exists in RefManager structure"). The
history variable `overtaken` has the addresses where it has happened;
`NothingIsFatal` and all of `NodesAreSound` but `InFlightHasLoader` speak of the
others, and so say that there is no second way to get there.

`GetFileNode` takes its reference after the locks are given back
(`namestore.go:385`), and `LocalVolume.LookupNode` has no lock of the tree at
all, so that a cleanup in between gives the node's blobs back. Both are in the
model; `LookedUpIsWhole` speaks of lookups under the read lock only.

*Fairness*: weak fairness on a caller that has begun to load (`Loading`); none
of those steps waits for anything but `cacheMtx`, which nobody keeps.

One node stands for its metadata and content blob together, so a path that
releases one of the two only (an unknown node type, `namestore.go:1237`) is not
in the model.

## Lookup and link: `NameTree`, `AtomicTree`, `NameStore`

`NameTree` has trees as values: a node is a function from the paths below it to
a file or `Dir`. `At` is what `resolveFromLocal` finds, `Put` what
`recursiveLink` makes. `NameStore` has the phases of `MultiLink` (assertions,
the new tree request by request with the watchers told of each, callbacks, the
answer, the commit) and those of `Lookup` (the serial number, the callbacks'
root, every path from the root there is at that moment), with other callers'
steps between them as `treeMtx` allows.

| state of the module | in the code |
| --- | --- |
| `root`, `serial` | the tree at `ns.rootAddr`, `ns.serialNumber` |
| `stage`, `job`, `pos` | what each caller does, its paths or requests, how many are done |
| `draft` | `newRoot` of a `MultiLink`, `cbRoot` of a `Lookup` |
| `reply`, `seen` | the answer under construction and the last one returned: what a client's assertions and moves refer to |
| `told` | what the watchers heard from the `MultiLink` under way |

A move is what `Rename` of the mount sends: an unlink and a link in one batch,
with the node the caller saw at the old path and an assertion that it is still
there. `Fails` is every error (a missing blob, a refusing callback).

`AtomicTree` is `REFERENCE.md`'s promise: many paths are looked up in one
version, the one whose number is in the answer; a batch happens whole, in one
step, on a tree that is as it asserts.

The run `trees` checks `EntriesInDirectories`, `ImplementsAtomicTree` and
`WatchersTold` for two callers under `RLockTree`: links with and without
assertions, a pair, three moves (beside, into itself, over its parent),
removals, a new root. `LockedOnly = FALSE` is `Lookup` without `RLockTree`, as
`LocalVolume.LookupNode` calls it; the paths of
one answer and the callbacks may then see different versions, which no property
here denies.

Two callers and two commits (`MaxSerial = 3`) are enough for an answer that
mixes two versions and for an assertion that was overtaken. Paths are sequences
of names: their spellings ("", ".", "/", a trailing slash) are left out. When a
file is linked to the root, later links of the root fail as they do in the code
(`CanLink` asks the old root for its kind, `namestore.go:914`).

## Persistence of a volume: `Volume`, `Volume_proofs`

`Volume` models `LocalVolume.MultiLink`, `save` and `load` of
`internal/gritsd/module_volume.go`: a commit in memory (`Commit`), then under
`persistMtx` the root (`SaveRoot`), the serial number (`SaveSerial`), the
temporary file and its rename (`SaveFile`, `SaveFails`); uploads and evictions
of trees; a crash at any point; a start from the file.

| state of the module | in the code |
| --- | --- |
| `up`, `root`, `serial` | the process; `ns.rootAddr`, `ns.serialNumber` |
| `whole` | roots all of whose blobs are in the blob store |
| `file` | the renamed file |
| `stage`, `mine`, `state` | each writer: how far its `save` is, its commit, the `RootState` it will write |
| `age`, `made`, `acked`, `born` | history: commits by number |

| run | checks | shows |
| --- | --- | --- |
| `network` (on `MCNetwork`) | `AckedSurvives`, `SerialNotBehind` | two writers, three commits, saves that fail, crashes and restarts |
| `volume_dangling` (violation) | `StartsAgain` | cleanup and eviction delete the tree the file names before the new one is saved |

Two writers whose saves overlap and a third commit between them are all there
is to overtake. `volume_dangling` does not check for deadlock: a volume whose
saved tree is gone does not start, and nothing else can happen then (`Corrupt` in
`MCNetwork`).

A failing save is only logged, so "acknowledged" means that the save was done
too: a client cannot tell the two cases apart. The rename counts as durable;
there is no `fsync` in the code, and a crash of the machine, not just of the
process, may undo it. `Checkpoint()` is not called by the server.

## What the server keeps for others: `Handlers`, `BlobCache`, `RemoteTree`

`Handlers` models `handleBlobUpload`, `handleLookup` and `handleLink` of
`internal/gritsd/module_http.go` with the `ReferenceHolder` that bridges an
answer and the client's next request.

| state of the module | in the code |
| --- | --- |
| `refCount` | the references of each blob; a blob is gone with its last one |
| `tree`, `loaded` | the node at the one path there is; nodes in `ns.fileCache` |
| `heldRefs` | `ReferenceHolder.heldRefs`, in its order |
| `call` | a request between two steps: an upload whose body comes; a link that is committed, or has loaded the node again and not taken it yet ("loaded", and "stale" once a blob of that node is gone) |
| `promise` | history: the blobs an answer named, and the time they were to stay |
| `serving` | the process runs, was stopped, ended in `log.Fatalf`, or holds a "ghost": an object whose file is gone |

An upload is `Upload`, `UploadStored`, then `UploadAnswered` or
`UploadMismatch`. A lookup is one step, since `handleLookup` keeps `RLockTree`
until it holds what it answers. A link commits (`Link`, `Unlink`) and then,
without a lock, loads what it linked (`LinkLoads`, or `LinkIsGone` when that is
not there any more), and takes and holds it (`LinkAnswered`). `Hold` takes a
reference of its own (`HoldFor`); `ReleaseExpired` gives back the first ones
whose time is over and stops at one whose is not.

`GetFileNode` returns without a lock before it takes its reference
(`namestore.go:385`), so that a cleanup in between may give back the blobs of a
node that another link has displaced. `Outlived` marks the requests this happens
to, and what they then hold has no file (`LinkHoldsGhost`): the answer names blobs
that are gone, against the "Hold refs so blobs don't get GC'd before client
fetches them" of `module_http.go:1067`, and when the time of the hold is over the
file of whoever stored such a blob again is removed. The model ends there.

`AnswersAreHeld` (in the run `server`) says that what was answered for stays
as long as it was to, up to the moment a link holds a ghost. It is said of what
the handlers hold: not of a blob that
was there before the upload (the 204 answer holds nothing), nor of the content
of a file, which answers name. Two violations come from the same module:

| run | checks | shows |
| --- | --- | --- |
| `link_fatal` | `NoBlobIsMissing` | two links of one path and a cleanup: the server ends because of a blob it has no more use for. A lookup by the address of a directory that is gone comes to the same assertion (`module_http.go:893`) |
| `upload_leak` | `UploadsAreReleased` | the reference of `AddLocalFile` is never given back, since `Hold` takes another one |

The bounds: a file that clients upload and a directory that the server makes;
two requests, so that a long hold (2) and a short one (1) come in both orders;
four references of one blob.

`BlobCache` models `internal/grits/blobcache.go`.

| state of the module | in the code |
| --- | --- |
| `refCount`, `others` | the references of each blob, and which blobs others have one on |
| `cachedBlobs`, `currentSize` | the addresses with an entry; the counter. Every blob has size 1 |
| `mutex` | `c.mutex`, when somebody keeps it for longer than a step |
| `get` | each call of `Get`: waiting, fetching, or holding the file it was handed |
| `signalled`, `listed`, `toRemove` | the one signal of `cleanupChan`; the worker's list; what it has taken out of the map |

`Get` is one of `Hit`, `InStore`, `Wait`, `Fetch`, in the order the code looks;
a fetch goes on with `Arrives`, `Caches`, `Fetched`, or `FetchFails`; a waiter is
`Awake` and calls `Get` again; the worker has `List`, `Evict`, `ReleaseRemoved`.
`CacheIsSound` (in the run `server`) says that the references of a blob are
enough for everybody who has it, and that an address is fetched once at a time.
The code around it does less than it seems to, all of which is in the model and
outside that property: a waiter calls `Get` with the mutex locked and waits for
itself (`blobcache.go:105`, the stage "again"); an entry for a blob that the
store had is not counted (`blobcache.go:87`); an entry that replaces another
leaks its reference; the sort reads `lastAccessed` without the lock, so that any
order may come of it. Two blobs, two callers and a size of one are enough for
an address that is fetched, waited for, listed and evicted at a time.

`RemoteTree` models `resolvePath` and `resolveFromFetchers`
(`internal/grits/namestore.go`) with `RemoteVolume` as the fetcher.

| state of the module | in the code |
| --- | --- |
| `remote` | the other server's serial number, which stands for its root |
| `rootAddr`, `serialNumber`, `recent` | the tree as last fetched, and whether that is within `CacheDuration` |
| `readers`, `writer` | `ns.treeMtx`; whoever waits in `Lock` keeps new readers out |
| `lookup` | each lookup: `Start`, `Resolve`, `FetchPath`, `Lock`, `Update`, `Return` |

`RootNeverGoesBack` (in the run `trees`: two lookups that hold no lock, three
versions) says that answers that overtake each other never bring an older root.
With a lookup that came in over HTTP (`Web`) the violation `remote_lookup` shows
that it does not end (`LookupsReturn`): it holds `RLockTree` while it waits for
`Lock`.

*Fairness* of `RemoteTree`: a request to the other server ends (weak;
`http.Client` has a timeout), and the mutex does not pass a waiter over for ever
(strong). The nodes below the root are fetched with the lock held
(`loadFileNode`); that is part of the step `Update`.

## The mount: `Mount`

`Mount` models one mounted directory of `internal/gritsd/module_mount.go`.

| state of the module | in the code |
| --- | --- |
| `tree` | the names that have a file in the volume |
| `node` | each `gritsNode`: `path`, `refCount`, `tmpFile` (the edits that are only there, or none), whether it has `tmpMetadata` and `cachedFile` |
| `child` | the node go-fuse has for each name |
| `dirtyNodesMap` | the map of the same name |
| `requests` | FUSE requests between two steps, with what they hold |
| `unsaved`, `displaced`, `clobbered` | history: edits that are owed; nodes whose path has become another file's, and whether one was used by its path |

A request on a file (`Write`, `Setattr`, `Flush`, `Fsync`, `Release`) keeps the
node's mutex through its steps: `AddDirtyNode` if the file was clean, then the
edit, or `flush` with `RemoveDirtyNode` after the link. `flush` may fail: then
the temporary file is closed, the caller is told, and the node stays in the map.
`Lookup` and `Rename` look into the map and keep its mutex while they wait for
the node they found. What excludes what in the kernel and in go-fuse is
external: changes of the directory exclude each other and listings, changes of
a file exclude each other and its moves.

The run `trees` checks `EditsAreKept` for two names, two nodes, two requests at
a time, one edit and one open file, and another client that links and unlinks
one of the names: an edit that was neither stored nor reported lost is in the
temporary file, and the name of a file that has one leads to its node. Two
requests are what it takes for locks in opposite orders and for a step between
two steps; the second name is there for renames and for the file that is
replaced. A behaviour is followed up to two events, after which the code keeps
no such promise:

* a node is used by a path that has become another file's (`clobbered`).
  `isDangling` is never set, so a file that was unlinked or replaced while it
  was open is linked again when it is closed, and its `removeDirtyNode` takes
  another file's entry;
* the server panics (`up`): `Readdir` reads `tmpMetadata` of a node in the map
  without the node's mutex (`module_mount.go:440`), and it is nil between the
  link of a new file and `removeDirtyNode`.

The run `mount_deadlock` finds in four steps that `Lookup` need not return: it
has `dirtyNodesMtx` and waits for a node, the request that has just stored the
node's file has the node and waits for `dirtyNodesMtx` in `removeDirtyNode`.
`LookupsReturn` states it as the pair of waits that nothing ends.

A flush that fails while a file is closed counts as reported, although the kernel
ignores what `Release` answers (`module_mount.go:1290`).

Left out: directories below the mounted one, attributes, inode numbers and the
notifications of `OnFileTreeChange`. Also a fact the model shows and no property
is about: after a flush that failed, an edit through a file that is still open
starts from an empty file, which the next flush stores.

## The browser client's lookups: `ClientCache`, `ClientCache_proofs`

`ClientCache` models how `GritsVolume` in `client/lib/grits/GritsClient.js`
finds a path: by walking down from a *mini-root*, the address of some directory
above the path that an earlier answer brought, or by asking the server.

| state of the module | in the code |
| --- | --- |
| `hist`, `now` | the server's committed trees, `Date.now()` |
| `miniRoots` | `_miniRoots`: path to address and time; an address is the version it was read from, because it fixes everything below it |
| `hardTimeout`, `configFetched` | the fields of the same names |
| `call` | each lookup: its fast leg (a walk in the cache), its slow leg (30 ms, then a request), what its caller got |
| `post` | each link on its way |
| `owed` | history: the newest own link that a lookup beginning now must see |

A lookup is `Lookup`, then in any order with everything else `FastWalk`,
`SlowStart`, `ServerLookup`, `SlowReceive` or `SlowFail`, and `Return`. The first
answer starts the lookup of `.grits/volume.json` (`ThenConfig`, `ConfigEnd`),
which changes `hardTimeout`. A link is `Link`, `ServerLink`, `LinkReceive` or
`LinkFail`. Other clients link (`OtherLink`) and paths become readable and
unreadable (`OtherAccess`); `login` and `logout` forget the mini-roots. The
volume whose page a service worker answers uses the slow leg only, which is a
lookup without a mini-root above its path.

| run | checks | shows |
| --- | --- | --- |
| `client` (on `MCClient`) | `MiniRootsAreASnapshot`, `FoundIsRecent`, `OwnLinksAreSeen`, `WaitingCanEnd` (and `InFlightIsQueued` of `Mirrors`, below) | a root and two paths below it, one lookup of a caller and the configuration's, a link, two versions, time to 2, failing requests |
| `client_notfound` (violation) | `NotFoundIsTrue` | a path that exists is reported as not found because of another path's status |

Two versions are enough for an answer from before a link to arrive after it,
which is all that `owed` excuses: `_ingestLookupResponse` compares no serial
numbers, and a client may lose sight of its own link that way. `FoundIsRecent`
allows for the time from a request to its answer (`MaxLatency`, 0 in the run,
where the clock stands still while a request is out): the age of a mini-root
counts from the answer. `MaxVersion` and `MaxTime` are bounds of the
run only. A walk stops where a blob is not cached, so that whether it
gets through is a choice.

*The slow leg's answer.* `handleLookup` takes the status of its answer from
its last entry, and `_slowLookup` sends its mini-roots behind the path it wants.
`LastEntries` are the paths the last entry may be of.

## The browser client's writes: `ClientUploads`, `DesyncQueue`

`ClientUploads` has two ways of getting a blob to the server. `put` asks for it
(`PutAsk`), sends it (`PutSend`), and looks once more when the connection broke
(`PutConfirm`). `mkfile` and `mkdir` only cache the blob (`Make`); the link that
names it is answered with the address of one blob the server misses
(`ServerAnswers`), the client uploads that one and posts the link again
(`Upload`). Both caches may lose blobs at any time (`ServerEvict`,
`BrowserEvict`), except that the server keeps what a link names. `wasThere` is
history: a blob `put` speaks of must have been on the server while it ran.

`DesyncQueue` is the client's mode (`DESYNC_MODE`, off in this build) in which a
link is answered before the server has it. `overrides`, `queue`, `seq` and
`flushing` are the fields of the class; `writer` is a lookup, or a link whose
assertion waits for one; `waiting` the callers of `children` and `lookup` that
wait for an entry. A lookup is answered from the overrides (`Believed`), below
the mini-roots (`Cached`: `known` is the tree they lead into), or by the server
(`LookupBegin`, `ServerAnswers`, `LookupReceives`, `LookupFails`), whose answer
makes new mini-roots whenever it arrives, as does the answer to a link
(`Finish`); they are used until they are too old (`Expire`). The worker's steps are `Skip` (the entry was superseded), `Send`,
`ServerLinks`, `Finish`, or `Transient` and `Resume` for an error that is tried
again; a server may have made the link whose answer is lost. `meant` is history:
the tree as it would be had every link been made at once.

The run `network` checks `PutMeansStored` and `PostsEnd` with two blobs, one `put`
and one link; `OwnWritesHold` and `WaitersWake` with a directory and a leaf,
two links, a lookup, a lister and another client. Two links are one that is
being sent and one that supersedes it. `OwnWritesHold` says nothing
once `unsure`: an assertion was given, whose failure drops an entry (also the
entry's own success, when its first answer was lost: it is then sent again and
refused), or another client wrote. And it excuses what is found below mini-roots
while they are `misled`: an answer that the server gave before it made one of
these links, and that came after the link's own, makes the mini-roots anew
(`GritsClient.js:1285`), and until the next answer, or until they are too old, a
lookup that goes by them misses the client's own write. `known` is one tree or
none; that mini-roots are always of one version is what `ClientCache` shows.

*Fairness*: every request of the client is settled by the browser (weak);
the server that is asked again and again for one entry answers some day
(strong, since `Transient` may disable it again and again).

Without the Cache API `mkfile` and `mkdir` throw: `_storeBlob` falls back to an
`_uploadBlob` that only `GritsVolume` has (`GritsClient.js:1535`). `_desyncLookup`
reads an undeclared `path` in one of its branches (`GritsClient.js:1131`).

## Fetching blobs and pages: `Mirrors`, `ServiceWorker`

`Mirrors` models `MirrorManager.js`, the verification, and the prefetch worker.
A fetch goes to the mirror that seems best (`Start`, `Best`), from there to
`MirrorAnswers`, and after a failure once to the server (`AfterFailure`,
`ServerAnswers`); what arrives is verified (`Verified`) and cached. `Refresh`
replaces the list of mirrors under the requests. `mirrors` are those that serve the
volume; a list in which none does, whose requests go on to the
server as after a failure (`MirrorManager.js:167`), is left out. The prefetch worker takes the
addresses of an answer one by one (`DrainNext`, `DrainStep`), a directory's
listing after its metadata. The counters are as wrong as in the code:
`activeRequests` goes down for requests that were never counted
(`MirrorManager.js:253`), a mirror that failed keeps the load of that request,
and `lastCommunicated` is never set. `MaxLoad`, `MaxErrors` and `MaxUnder` bound
them in the guards of the steps that count; what is chosen only depends on which
is the smaller one. When the
server has a service worker, `get` fetches without verification (it asks the
server, which is trusted here as there).

`ServiceWorker` models a tab's navigations. `worker` is the browser's one
registration, `loading` and `bypass` the cookies `grits-sw-loading` and
`grits-sw-bypass`, `tab` what each tab does: a navigation goes to the worker
(`HashCheck`, `HashCheckFails`, `Serve`), or past it to the server (`Direct`),
which answers with the page or with the interstitial. A worker that is not the
server's any more unregisters and redirects (`Redirected`, `Unregistered`,
`DeleteCooldown`). The interstitial removes every registration (`CleanUp`),
registers (`Register`) and goes back (`Activate`, `Bounce`). The client in a page
registers one too (`PageRegisters`; the other case of
`_updateServiceWorkerHash` does not occur, because answers under `/grits/` never
come through a worker).

The run `client` checks `InFlightIsQueued` with two mirrors, a directory and its
listing, one `get` beside the prefetch worker: one address that is fetched by
both, a directory whose listing is queued already, a list of mirrors that is
replaced between a request and its answer. The run `network` checks
`ServedByCurrentWorker` and `NavigationsEnd` with two tabs and two versions of the
service worker.
`NavigationsEnd` asks for the other tab and the worker's directory to rest from
some time on. Otherwise two tabs at the interstitial can unregister each other's
worker for ever, and a tab that waits for the activation of one that was
unregistered waits in vain (`vain` counts as resting).

*Fairness*: the browser settles every fetch, runs the worker's loop, installs a
registered worker and ends an unregistration.

Also left out: a redirect without a target goes to `/`
(`grits-serviceworker.js:66`, `module_serviceworker.go:247`).

## Windows and widgets that follow something: `Overlay`, `FilesWidget`, `InboxWidget`, `Terminal`

Each widget's module has its fields as variables and one action per stretch of
code between two `await`s. Requests may be answered in any order and fail.

* `Overlay`: `openWidget` hides what is visible, awaits the new widget and shows
  it (`Open`, `Opened`, `OpenFails`); close, minimize and show; what a widget
  does to its title at any time (`Update`). Toasts with the timer that dismisses
  them and the 200 ms they fade for. Two `openWidget` that overlap leave two
  visible entries (`overlay.js:323` expects one at most): `overlapped` is the
  history variable from which on `PageIsSound` no longer says that there is one. A
  toast that is shown fades or has the timer that will dismiss it.
* `FilesWidget`: `loadRoot` (`LoadLookup`, `LoadChildren`), `goToParent`, and the
  tick every two seconds, which looks whether the directory is another one
  (`TickLookup`), compares its entries with `rootNode.children` and fetches what
  is below open rows (`TickChildren`), and then makes the changes it has
  collected (`TickApplies`), each with an `await` before it. `children` (the row
  of each name) and `page` (the rows one sees) are apart, since the changes are
  made to the rows there are by then: two ticks that overlap can both add a
  row for one name, and the first of them is then nobody's and stays for good.
  A listing is a directory at one of its versions, and its files are told from
  those of other listings; `RowId` are the elements of the page, which are used
  again when they are gone. `excused` is history, of
  what the code loses and never asks for again: a failed load, two overlapping
  loads, a tick that had recorded the new directory and then could not apply it
  (`files/gwm-widget.js:410`), and a tick whose changes were collected from
  rows that another one has changed since. The run follows a list up to there,
  so it does not claim that a list catches up whatever overlaps: ticks may overlap
  one another and `goToParent`, as long as none changes the rows between the
  comparison of another and its changes. `reload` after a command is left out. A timer
  that starts after `destroy` (`files/gwm-widget.js:472`) is in the model.
* `InboxWidget`: `Who` (the name of the user), the load, the ticks, selection,
  trashing. The Map of the widget (`messages`) and the rows one sees (`page`)
  are apart. The answer to a trash removes the row of its own button and deletes
  the Map's entry by its name (`inbox/gwm-widget.js:490-508`), which by then may
  be that of a row a tick has brought back: that row then stays on the page, since
  ticks go by the Map. `haunted` is the history of it, and from there on
  `InboxCatchesUp` claims that every message has its row, and no longer that
  there is no other one. That the pane shows nothing without a selection is
  claimed all the same (`PaneHasSelection`); with one, it may show another message than
  the one selected while a preview is on its way, so `Select` leaves the pane
  as it is or changes it. If the name of the user cannot be found there is
  no timer, and the property does not speak of that case.
* `Terminal`: lines are queued and run one at a time; every value goes to
  `_refResults`, and what is displayed is labelled with the letter of its place.
  The 27th result is labelled `_a`, which stays bound to the first
  (`gterm/gwm-widget.js:174`): `TerminalIsSound` claims the first 26
  (`Letters`, 2 in the run). A line whose evaluation never ends holds up the
  ones behind it; none waits for a run that has ended. The history keys edit
  a copy.

The run `programs` checks `PageIsSound`, `TerminalIsSound`, `FilesCatchUp` and
`InboxCatchesUp`: two windows, two toasts; a
directory and its parent with two versions each, two loads and two overlapping
ticks; two messages with up to three rows each, two ticks and one trash under
way at a time (a row on the page, one of a trash that is late, and one that a
tick adds are three); three lines, with one letter fewer than lines,
so that the label comes round. Two ticks are what `setInterval` lets overlap.
Deadlock is not checked: a user who has entered all the lines stops.

*Fairness*: timers fire and a load goes on (weak); of the requests that are
repeated with every tick some are answered and do not only fail (strong). An
answer to a trash may never come: nothing is assumed of it.

## Widgets that save, and programs: `Editor`, `Tracker`, `Outline`, `ShellCommands`, `Pipeline`, `MarkdownView`

* `Editor` (`codemirror/gwm-widget.js`): loading, typing, `save`, `saveAs`,
  `newDocument`, closing, and the dialog that asks. `save` takes the text,
  awaits `put`, `mkfile` and `link`, then clears the mark of unsaved changes: what
  was typed in between is unsaved and looks saved (`codemirror/gwm-widget.js:269`).
  `during` is the history variable for that; `CleanIsSaved` is about every
  other way to a clean mark. An editor that a command launches with a Response
  (`gimbal.upload().launch('edit')`) mounts the text of that instead of the
  file's, or of no file, and does not mark it (`codemirror/gwm-widget.js:225`):
  it is `Payload`, which no file has until it is saved. What has been typed into
  it is marked and saved like any other text; that the untouched text of a
  payload is unmarked is the code's way, and `CleanIsSaved` leaves it out.
* `Tracker` (`project/gwm-widget.js`): opening or creating a project, and the
  timer that saves 400 ms after the last change, or on `destroy`. A failed load
  counts as a project that is not there, and is saved over the file; `save`
  computes its path after its uploads, so that a project opened meanwhile gets
  the other one's data. `failed` is the history of those; `AutoSaved` is about a
  user who waits for requests that succeed.
* `Outline`: the tracker's tree of items, their ids (`fixIds` and the page's
  counter) and what rows with children derive. Ids must be distinct or
  `findInTree` changes the wrong item; a file in which some items have ids and
  others do not may break that, and is not among `TheFiles`. `OutlineIsSound` also
  has what a row shows of the items below it.
* `ShellCommands`: `cp`, `mv`, `rm`, `rmdir`, `mkdir`, `write`, `append`, `unzip`,
  `allow`, `deny` and `mail/send.js` as lookups and links with assertions, and
  what each does on "ok", on a refused assertion and on another error. Two of
  them run on the same volumes. `NothingVanishes` is claimed of the commands
  that are to replace nothing (`Careful`); the others do what they looked up
  before: `append` may lose another's, `allow` and `deny` write the whole list
  (and after a failed lookup of `.grits` make it anew), `cp {i:1}` checks and
  then links, `rmdir` takes a directory that is not empty, `mkdir {f:1}` replaces
  one, `mv` of a directory into itself removes it, and between volumes
  copies and then removes whatever is there by then. Their trees are `NameTree`'s,
  so that the lemmas about paths serve for them as well; what a file has in it
  is the set of the commands that wrote it.
* `Pipeline` (`gimbal/result.js`, `dispatch.js`): a line builds results of earlier
  ones; a result's program runs when somebody awaits it, after its object and
  then its arguments are there, and only once.
* `MarkdownView`: which characters of the source are copied to the page when a
  syntax tree is rendered by positions. The parser is external: `Lay` lays out
  documents, with the text a reader expects. `TextShownOnce` compares. A link
  with a title shows more than its label, and of several pieces of one code
  block only the first is shown; there are none of these among the documents.

The run `programs` checks the five properties of the others: two files, two savers and two
edits; two projects, two versions and two overlapping saves; trees of two items
and four ids; every line of three
results over two programs; every block of up to two pieces, each nested once. The
run `trees` checks `NothingVanishes` and `MailKept` for every pair of 26 commands
on five volumes. Two
actors are enough for what one command looked up to be gone when it acts. Editor
and tracker are followed until `during` or `failed`. There is no liveness in
these modules, and deadlock is not checked: commands end, documents are closed.

## What is proved

All of it for every value of the constants, by `tlapm`, without bounds on the
number of blobs, nodes, callers, commits, lookups or answers.

| theorem | says |
| --- | --- |
| `BlobStore_proofs`: `TypeCorrect`, `CountsAreExact`, `HeldStaysOnDisk` | counts are the references held; a held blob is known and on disk |
| `HeldIsIntact` | assuming the scan validates blobs, a reference reads the whole blob |
| `TouchKeeps` | assuming `os.Chtimes` does not fail, a touched blob stays until its time |
| `Refinement` | under both assumptions the store implements `PinStore` |
| `CacheStaysSound` | the references of a blob in a mirror's cache are enough for all who have it; one fetch of an address at a time |
| `DenseRefs_proofs`: `TypeCorrect`, `CountsExact`, `RefsExact`, `TreeWhole`, `ReleaseSafe` | counts are names at every step of every walk; no fatal branch is reached; the current tree stays loaded |
| `Refinement` | the manager implements `TreeStore` |
| `AnswersStayHeld` | what an answer to a client names stays in the store until its time is over, up to the moment a link takes a node whose blobs are gone |
| `Volume_proofs`: `TypeCorrect`, `ReturnedIsSaved`, `NumberFollowsTree` | a returned link is in the file or a later one is; no tree is saved with a number older than its own |
| `NodeCache_proofs`: `NodesStaySound`, `NothingBecomesFatal` | whatever runs at an address, with the lock of the tree or without: unless `CreateTreeNode` has replaced an entry in flight there, one load at a time, no blob reference out of cleanup's reach, a looked-up node keeps its blobs, neither assertion is reached |
| `Trees_proofs`: `EntriesStayInDirectories`, `ChangesAreTold` | the tree stays a tree; watchers hear of every change |
| `LinksAndLookupsAreAtomic` | under the lock, the name store implements `AtomicTree` |
| `RemoteRootIsNewest` | a remote volume never goes back to an older root |
| `EditsStayKept` | an edit of a mounted file is kept until it is stored or reported lost, and the file's name leads to it |
| `CarefulCommandsLoseNothing`, `MailStaysKept` | `mkdir`, `unzip`, `send` and `mv` without force make nothing vanish, whatever runs beside them; what `send` said it sent is in the inbox |
| `ClientCache_proofs`: `OneSnapshot`, `LinksAreSeen`, `FoundStaysRecent`, `NobodyIsStranded` | the mini-roots are of one version, none above another; a client sees its own links unless an answer overtook them; what it finds is recent enough; a waiting lookup has a leg that can end it |
| `InFlightStaysQueued` | what is fetched ahead is in flight once, while it is queued or fetched, and has a worker |
| `Network_proofs`: `OwnWritesAreKept` | what a client queued is what its lookups find, by its overrides, its mini-roots or the server, and what the server has in the end; unless an answer from before the link has made the mini-roots |
| `PutIsStored`, `NavigationsAreServedByCurrentWorker` | a CID returned was a blob on the server; no worker older than the navigation answers it |
| `Client_proofs`: `PageStaysSound`, `TerminalStaysSound` | what is shown lives; letters, lines and the history of a terminal |
| `CleanStaysSaved`, `ChangesAreSaved`, `ProgramsRunOnce` | the editor and the tracker save what one sees (in the editor, but for a payload nobody has touched); a program runs once, on what is there |

*The blob store.* None of the checked invariants is inductive alone: that a
release does not delete a blob somebody else holds needs exact counts, and exact
counts need that an entry in the map is never made twice. The inductive
invariant (`IInv`) therefore adds that the caller inside `os.WriteFile` is alone
and its address is not in the map (`WriterOK`), that a held address is in the
map (`HeldIsKnown`) and that a stopped process has nothing in memory
(`HandlesOK`). `HeldIsIntact` adds `FilesWhole` (what is in the map is complete
on disk), `TouchKeeps` adds `KeptOK` (the expiry in memory and the mtime on
disk are both at least what the last `Touch` asked for). The helpers shared by
several actions (`Enter`, `Become`, `Discard`, a sweep, a release) have one
lemma each.

*The reference manager.* `CountsAreNames` says that a count is the number of
names that lead to the node from counted nodes, and during a walk the names
dealt with so far. For that to be kept by the return of a call, the stack must be
a path of distinct nodes (`StackOK`; ranks fall along it), and for the rollback
the counts minus the list must have been consistent before the walk (`UndoOK`:
subtracting the list can be done in any order). The lemmas `NamesGain` and
`NamesLose` tie one name more or less to the cardinality; `CallKeeps`,
`KnownKeeps`, `DoneKeeps`, `SharedKeeps` are the four things a call can do, used
by take and release alike.

*The blob cache.* That the references of a blob cover those who have its file
(`RefsCover`) is kept by a release only if what the worker takes out and what an
entry holds are counted apart, so the sum has a summand for each: the calls that
hold the file, the ones of them that have not yet given the cache its reference,
the entry, the worker, others. A fetch caches an address nobody else fetches
(`OneFetcher`). The calls are finitely many; nothing else is assumed.

*The handlers.* A promise is kept by a hold on the same blob that lasts as long
(`PromisesHeld`), and the references of a blob are at least one for its loaded
node, one for each hold and one for each upload that still has it
(`RefsSuffice`). Holds run down together with promises, and what is released
from the front of the list has no time left, however short holds are mixed with
long ones. `TimesAssumption`: the calls are finitely many and both times are
positive, since an answer held for no time is held by nothing. A link between its
load and its `Take` has no reference and no promise yet; it answers only while every
blob it is to hold has one, since every step that gives references back makes it
"stale" otherwise (`Outlived`).

*The node cache.* Both theorems are of any operations at any address. Counts go by
object and the tree goes by address, so the invariant (`IInv`) says that an
entry's object is of the entry's address (`CacheOK`), that a load still has its
own entry and nobody else knows its object (`ClaimOK`), that under the lock of
the tree the object one has stays in the cache (`LockOK`), and that a count is
the number of those who hold the object plus one for the tree (`RefsExact`).
Cleanup then drops nothing that is held or in the tree (`Counted`). What fails
where an entry in flight was replaced is said of the addresses that are not in
`overtaken`; that an entry in flight has a loader, and an object in the cache its
address, of all.

*The volume.* What is about to be written is at least as new as the writer's
own commit and as the file it replaces (`StateOK`), because `persistMtx` keeps
savers apart (`SaverOK`) and the root in memory only gets newer (`MemoryOK`);
and its number is at least the one its root was installed with (`PairOK`),
because the number is read after the root.

*The client's cache.* A lookup begins with a mini-root or with a request, and
ends with an answer from the server's history. The invariant (`IInv`, that is
`Types` and `Ordered`) puts all of them in one order: no mini-root and no
answer on its way to a lookup or a link is older than `owed`, which is what a
lookup that begins now must see, and `owed` is not newer than the server.
`MinisOK` has the mini-roots of one version, since ingesting an answer replaces
all of them. `CallOK` is the condition of one lookup: its walk starts from no
older version than the lookup must see, and one of its legs can end it. Every step of a lookup changes one record, so the lemmas
are about records (`SettleOK`, `BegunOK` and the like) and the proof of a step
puts one of them in its place. `FoundStaysRecent` adds the times (`Recent`): a
version is `Fresh` at a time when its successor is not older. An answer's version
was current when the request was sent, a mini-root's at most `MaxLatency` before
its `ts`, and the clock of the model does not pass the moment an answer is due;
a lookup that begins now from a mini-root no older than `hardTimeout` hence starts
from a version that was current `hardTimeout + MaxLatency` ago, and what it
began with stays so while the history grows (`GrowsRecent`).

*What is fetched ahead.* The addresses in flight are those of the queue and the one
the worker is at, and the queue names each once (`QueueOK`), so that their number
is its length. `NoBlobIsNone` keeps "no blob" from being one.

*The name store.* `InputsAreSound` says that paths are sequences of names and
that the trees linked are trees (what `ParseCID` and the JSON decoder make of
them, and what `recursiveLink` looks at). `EntriesStayInDirectories` is
about `Put`, which replaces one path by a subtree: the lemmas of the first part
are about prefixes of paths, the ones of the second show that `Put` of a good
tree, at a path whose parent is a directory, is a good tree. `ChangesAreTold`
rests on the draft (`DraftOK`): where it differs from the tree, a path at it or
above it was told. For
`LinksAndLookupsAreAtomic` (`Sound`: also no caller without the lock) the
mapping is the committed root; a step of `MultiLink` that commits maps to the
abstract link, every other one to a stutter. What needs an invariant is the
caller in the middle: `LookOK` says that what it has answered so far was read
from the root that is still there, `LinkOK` that its draft is what the first
requests make of that root, and that nothing it asserts has changed. The abstract
tree applies a whole batch by a recursive function, the code one request per step;
that there is only one way through a batch is an induction over its requests
(`OneWayThrough`, by `NumberInduction`).

*The mount.* `FilesAreNamed` keeps "no node" from being a node and "no name" from
being a name. The invariant (`MountInv`) has two halves. `FilesOK` always holds:
one request has the mutex of a node, one that of the map, one the directory
(`OneKeeper`, `OneOfMap`, `OneOfDir`), whatever is known has a path (`KnownOK`), and
a node with a temporary file is open or has a `Setattr` that is not over
(`SavedOK`); without the last one, the kernel could forget a file with edits, or a
release close it. `PathsOK` holds until a displaced node has been used by its path: the path of a node, the
name go-fuse has for it and the name in the map are the same, but for the one
request on the directory that is under way. `Rename` writes the three at different
times, `Unlink` two of them, and in between `DirtyInMap` says which name the node will
have, `MovesOK` and `UnlinksOK` that no other node is at a name about to be taken.
`LeavesOK` is what the kernel's lock of the file gives: nothing is made dirty while it moves.
`LookedOK` keeps a node that a lookup or a rename waits for in the map. Most steps change none
of this (`Quiet`, `QuietKeeps`) and their lemmas end in `Quiet`; those of the map
and of the directory's requests have one step per conjunct.

*The programs of the shell.* `CommandsAreSound` says that paths are sequences of
names and that `cp`, `mv` and `unzip` are given one that is not empty. The
invariant (`ShellOK`) is small: a command is where its program has a line
(`Place`) and what it looked up is a tree. The argument is about one link. Where
the assertion says that nothing is there, the link only adds (`PutAdds`); and a
move of what was seen, to where nothing is, has every text of the source at the
destination (`MoveKeepsTexts`), unless the destination is below the source, which
`Careful` keeps out. Since the assertions are checked with the link, nothing of
this depends on what others did after the lookup. `MailStaysKept` needs that
whoever does not send writes neither at an inbox nor above nor below it
(`InboxesApart`: `rm` of the inbox takes the message away), and that the text of a
message is not a directory.

*The queue of links.* `LeavesBelow` says that the paths are directories and what
lies in them (two levels, any number of each). The overrides are the last entries
of their paths in the queue (`QueueOK`). Of every path, the newest override at it
or above it is what the client meant, and without one the server has it
(`BeliefOK`). For the queue to keep that when the server refuses an entry, the
directory of every queued entry is there, or an entry after it replaces it anyway
(`ParentOK`), and what is at the head of the queue has been applied when the answer
came, or is to be refused because of such an entry (`SentOK`). A lookup may also go
by the mini-roots, so these must agree with the tree wherever no override is
newer (`KnownOK`, while they are not `misled`), as must the answer that will make them: the answer to the link
under way (`ToldOK`), and those to lookups that no link has outdated
(`AnswersOK`). The three (`Fresh`) are claimed while nothing is `unsure`.

*Uploads, service worker, windows.* Short invariants: what was put was on the
server since (`UploadsOK`), a check that was passed is of a version no older than
the navigation's (`PagesOK`), and what the page shows is open and its own
(`WindowsOK`, `ToastsOK`; `NamesApart`: "no widget" is not a widget).

*Editor and tracker.* Their properties have excuses (the text changed under a
call, a request failed), so the invariants say what a call under way knows while
none of them applies: which text it carries, whether it is the last one, and what
the file will be when it ends (`CallsOK`, `EditorOK`; `OpenOK`, `WriteOK`). A save
that creates the file and one that follows a rename are cases of their own.
`NoFile \notin File` keeps "no file" from being one. What a view is made of without
a mark is what the file holds, nothing and of no file, or a payload.

*Results, terminal.* A value never changes again, hence what a program was given
stays (`ResultOK`). In the terminal one line runs at a time (`OneRuns`), the
letter of a record refers to its value (`RefsOK`, `Letters` a number), and the position
of the arrow keys is within the copy it walks through (`WalkOK`).

## What is only model-checked

Liveness under fairness is beyond the prover: `GarbageIsEvicted`,
`OperationsEnd`, `SleepersWake`, `WaitersWake`, `PostsEnd`, `NavigationsEnd`,
`FilesCatchUp` and `InboxCatchesUp`. So is what the recursive operators of `Outline` and
`MarkdownView` compute, and with it `OutlineIsSound`
and `TextShownOnce`: those are checked for all documents and trees of items
within bounds. Every other property of a passing run is a theorem.

Induction over numbers is within reach all the same: a set of numbers has a
least one (`WellFoundedInduction`, cited in `Trees_proofs` and
`Client_proofs`), which serves for sequences too. What a recursive definition
computes is not.

## Where the code and its word differ

| run | what the code does | what it says |
| --- | --- | --- |
| `volume_dangling` | deletes blobs of the tree the file names before the new root is saved; after a crash the volume does not start | log.Fatalf("FATAL: volume is corrupt at startup"), the assertion at `namestore.go:1043` |
| `link_fatal` | ends the process when what a link has just put in place was displaced and cleaned up before the answer | log.Fatalf("FATAL: blob missing: %v"), the assertion at `module_volume.go:250` |
| `upload_leak` | keeps one reference on every uploaded blob for good | "Hold takes ownership of a Releasable object and will release it after the configured hold duration" (`refholder.go:64`) |
| `nodes_panic` | lets `CreateTreeNode` replace an entry another caller's load has in flight, so that one address has two objects; cleanup ends the server | log.Panicf("Node %s has 0 refCount but exists in RefManager structure"), the assertion at `namestore.go:2578` |
| `remote_lookup` | waits for the write lock of a tree whose read lock it holds | "no locks held during network I/O" (`namestore.go:2261`) |
| `mount_deadlock` | keeps the map of dirty nodes while it waits for a node whose request waits for the map | "If it does exist, it should return attribute data in `out` and return the Inode for the child" (`module_mount.go:456`) |
| `client_notfound` | says "not found" of a path that exists when another path of the same request was unlinked | "the last entry is not necessarily ours" (`GritsClient.js:1253`) |

`PROJECT.json` quotes them under "findings". Other places where code does less
than it seems to are named in the chapters above, beside the history variable or
the constant that keeps them out of a property.

## What is not modelled, and the plan

Left out for good: certificates, the command line, configuration and its
parsing, logging, content types and routing, DNS answers, the test harnesses;
on the client styles, icons, dragging and scrolling, formats (dates, JSON, zip
and MIME types), spellings of paths, commands that only read, the hosts of
foreign terminals and frames. They have no protocol of their own, or are pure
I/O. What is left out of a component that is modelled is in its note in
`PROJECT.json`.

To be modelled, in this order:

1. `SparseRefs`: `SparseRefManager` on a tree whose nodes are fetched on demand,
   with `cacheMtx` and the nodes' mutexes as locks of their own. Its hazards:
   `flatRelease` and cleanup take two locks in opposite orders
   (`namestore.go:2381`), a node taken again keeps its drop time
   (`namestore.go:2376`).
2. `Server`: start and stop of store, worker, volumes and modules, and the
   handover of the directory, composing `PinStore` and `Volume`; the first
   sweep against the loading of volumes (`server.go:76`), the lock of the
   directory against what still runs (`server.go:150`).
3. `Heartbeat`: mirror and origin, peer and tracker, with lost answers.
4. The rest of the mount: directories, the invalidation of the kernel's cache.
5. `RateLimit` against a token bucket; `Grants`, the permissions along a path,
   and `glob`, as pure operators against their definitions.
