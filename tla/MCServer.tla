------------------------------ MODULE MCServer ------------------------------
(* What a server keeps references on, each part on its own instance: the   *)
(* trees of a name store, in a universe with a file, a directory of it,    *)
(* and directories that share them; what the handlers keep for their       *)
(* clients; the blob store; and the blob cache of a server that mirrors    *)
(* another one. part says which of them a behaviour is about; the others   *)
(* rest.                                                                   *)
EXTENDS DenseRefs, BlobStore

CONSTANTS
  first, second, bare, file, dir, mixed, twice,
  Linked, Dir, Made, Calls, Short, Long, MaxRefs,
  Getters, Free, MaxSize, Target, MaxCount

Entries(n) ==
  CASE n = dir -> [z \in {first} |-> file]
    [] n = mixed -> [z \in {first, second} |-> IF z = first THEN dir ELSE file]
    [] n = twice -> [z \in {first, second} |-> dir]
    [] OTHER -> [z \in {} |-> NoNode]

MCChild == [n \in Node |-> [z \in Name |-> IF z \in DOMAIN Entries(n) THEN Entries(n)[z] ELSE NoNode]]
MCRank == [n \in Node |-> CASE n \in {bare, file} -> 0 [] n = dir -> 1 [] OTHER -> 2]
-----------------------------------------------------------------------------
VARIABLES
  part,
  heldCount, tree, loaded, heldRefs, call, promise, serving,
  cacheRefs, others, cachedBlobs, currentSize, mutex, get, signalled, listed, toRemove

H == INSTANCE Handlers WITH Node <- Linked, refCount <- heldCount
Mirror == INSTANCE BlobCache WITH refCount <- cacheRefs

handlers == <<heldCount, tree, loaded, heldRefs, call, promise, serving>>
cache == <<cacheRefs, others, cachedBlobs, currentSize, mutex, get, signalled, listed, toRemove>>

InitAll ==
  /\ part \in {"tree", "handlers", "store", "cache"}
  /\ Init /\ H!Init /\ StoreInit /\ Mirror!Init

(* The server may stop for good.                                           *)
Stopped == part = "handlers" /\ serving # "yes"
           /\ UNCHANGED <<part, vars, handlers, storeVars, cache>>

NextAll ==
  \/ part = "tree" /\ Next /\ UNCHANGED <<part, handlers, storeVars, cache>>
  \/ part = "handlers" /\ H!Next /\ UNCHANGED <<part, vars, storeVars, cache>>
  \/ part = "store" /\ StoreNext /\ UNCHANGED <<part, vars, handlers, cache>>
  \/ part = "cache" /\ Mirror!Next /\ UNCHANGED <<part, vars, handlers, storeVars>>
  \/ Stopped

(* A store that rests owes nobody a step.                                  *)
SpecAll ==
  /\ InitAll /\ [][NextAll]_<<part, vars, handlers, storeVars, cache>>
  /\ WF_vars(TreeStep)
  /\ part = "store" => Fairness
-----------------------------------------------------------------------------
(* The properties of Handlers and BlobCache, stated there.                 *)
AnswersAreHeld == H!AnswersAreHeld
CacheIsSound == Mirror!CacheIsSound
=============================================================================
