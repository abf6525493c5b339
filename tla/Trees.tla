------------------------------ MODULE Trees --------------------------------
(* What the server does with the trees of its volumes, each on its own     *)
(* instance: the cache of their nodes, a name store with its lookups and   *)
(* links, one whose tree is another server's, one that is mounted, and the *)
(* volumes as the programs of the shell change them.                       *)
(* part says which of them a behaviour is about; the others rest.          *)
EXTENDS NodeCache, Sequences

CONSTANTS
  Linkers, Lookups, Batches, LockedOnly, Dir, MaxSerial,
  RemoteLookups, Web, None,
  Name, Shared, Node, NoNode, MaxRequests, MaxEdits, MaxHandles,
  Proc, Command, Volumes, MailName, MaxAttempts

VARIABLES
  part,
  root, serial, doing, job, pos, draft, reply, seen, told,
  remote, rootAddr, serialNumber, recent, readers, writer, lookup,
  tree, inode, child, dirtyNodesMap, requests, edits, unsaved, displaced, clobbered, up,
  volumes, run

-----------------------------------------------------------------------------
N == INSTANCE NameStore WITH Callers <- Linkers, stage <- doing
R == INSTANCE RemoteTree WITH Lookups <- RemoteLookups
F == INSTANCE Mount WITH node <- inode
Sh == INSTANCE ShellCommands

names == <<root, serial, doing, job, pos, draft, reply, seen, told>>
remotes == <<remote, rootAddr, serialNumber, recent, readers, writer, lookup>>
files == <<tree, inode, child, dirtyNodesMap, requests, edits, unsaved, displaced, clobbered, up>>
shell == <<volumes, run>>
allVars == <<part, vars, names, remotes, files, shell>>

InitAll ==
  /\ part \in {"nodes", "names", "remote", "files", "shell"}
  /\ Init /\ N!Init /\ R!Init /\ F!Init
  /\ part # "files" => tree = {}
  /\ IF part = "shell" THEN Sh!Init ELSE volumes = Sh!Missing /\ run = [p \in Proc |-> "over"]

(* A mount is followed up to the panic of the server and up to the use of  *)
(* a file whose path has become another file's.                            *)
Followed == up /\ ~clobbered

NextAll ==
  \/ part = "nodes" /\ Next /\ UNCHANGED <<part, names, remotes, files, shell>>
  \/ part = "names" /\ N!Next /\ UNCHANGED <<part, vars, remotes, files, shell>>
  \/ part = "remote" /\ R!Next /\ UNCHANGED <<part, vars, names, files, shell>>
  \/ part = "files" /\ Followed /\ F!Next /\ UNCHANGED <<part, vars, names, remotes, shell>>
  \/ part = "files" /\ ~Followed /\ UNCHANGED allVars
  \/ part = "shell" /\ Sh!Next /\ UNCHANGED <<part, vars, names, remotes, files>>
  \/ part = "shell" /\ (\A p \in Proc : Sh!Over(run[p])) /\ UNCHANGED allVars

(* No call of the cache is under way in the others.                        *)
SpecAll == InitAll /\ [][NextAll]_allVars /\ \A c \in Callers : WF_vars(Loading(c))
-----------------------------------------------------------------------------
(* The properties of the parts, stated in their modules.                   *)
EntriesInDirectories == N!EntriesInDirectories
ImplementsAtomicTree == N!ImplementsAtomicTree
WatchersTold == N!WatchersTold
RootNeverGoesBack == R!RootNeverGoesBack
SleepersWake == part = "nodes" => WaitersWake
EditsAreKept == F!EditsAreKept
NothingVanishes == Sh!NothingVanishes
MailKept == part = "shell" => Sh!MailKept
=============================================================================
