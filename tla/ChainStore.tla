----------------------------- MODULE ChainStore -----------------------------
(***************************************************************************)
(* What a participant stores: the tree, the genesis block and the blocks,  *)
(* in the database and in the caches in front of it.                       *)
(*   core/ordering/cosipbft/blockstore: disk.go, mem.go, genesis.go,       *)
(*     tree.go; pbft/pbft.go: verifyFinalize; proc.go: storeGenesis;       *)
(*   cosipbft.go: GetProof; controller/controller.go: the loading;         *)
(*   core/store/kv/default.go: transactions and their callbacks.           *)
(*                                                                         *)
(* A block is known by its number, 1, 2, ...; a tree by how much it        *)
(* contains: 0 is the empty tree, 1 the one of the genesis block with its  *)
(* roster, k + 1 the one whose root is in the block k, and Foreign any     *)
(* tree that is no block's.  A cached tree has its interior nodes, with    *)
(* their hashes, and the leaves are in the database (binprefix).           *)
(* The transactions of the database are those of bbolt: atomic, serial,    *)
(* durable, with the callbacks after the commit and in their order.        *)
(***************************************************************************)
EXTENDS Integers

CONSTANTS
    Handler,      \* goroutines that handle a genesis block
    Again,        \* an operator calls Setup although the chain exists
    Reader,       \* goroutines that call GetProof
    MaxBlocks,    \* bound: blocks
    MaxCrashes    \* bound: crashes

ASSUME StoreAssumption == Again \in BOOLEAN /\ MaxBlocks \in Nat /\ MaxCrashes \in Nat

VARIABLES
    inDisk,     \* the block store is persistent (InDisk, else InMemory)
    diskTree, diskGenesis, diskLength,    \* the database
    tree,       \* treeCache.tree
    locked,     \* treeCache is locked
    genesis,    \* cachedGenesis.set
    length,     \* number of blocks in the cache (in memory: of the list)
    started,    \* how often processor.started was closed
    handling,   \* where each handler of a genesis block is
    staged,     \* ... and its tree
    storing,    \* where verifyFinalize is
    proving,    \* where each call of GetProof is
    read,       \* ... and what it has read: root, leaf, links, last block
    crashes

disk == <<inDisk, diskTree, diskGenesis, diskLength>>
cache == <<tree, genesis, length>>
vars == <<disk, cache, locked, started, handling, staged, storing, proving, read, crashes>>

Foreign == -1
Trees == Nat \cup {Foreign}

TypeOK ==
    /\ {inDisk, diskGenesis, genesis, locked} \subseteq BOOLEAN
    /\ {diskLength, length, started, crashes} \subseteq Nat
    /\ {diskTree, tree} \subseteq Trees
    /\ handling \in [Handler ->
          {"idle", "commit", "cache", "persist", "set", "write", "start"}]
    /\ staged \in [Handler -> Trees]
    /\ storing \in {"idle", "update", "tree", "block", "unlock"}
    /\ proving \in [Reader -> {"idle", "chain", "view", "done"}]
    /\ read \in [Reader -> [root : Trees, leaf : Trees, prevs : Nat, last : Nat]]

Init ==
    /\ inDisk \in BOOLEAN
    /\ diskTree = 0 /\ diskGenesis = FALSE /\ diskLength = 0
    /\ tree = 0 /\ genesis = FALSE /\ length = 0
    /\ locked = FALSE /\ started = 0 /\ crashes = 0
    /\ handling = [h \in Handler |-> "idle"] /\ staged = [h \in Handler |-> 0]
    /\ storing = "idle"
    /\ proving = [r \in Reader |-> "idle"]
    /\ read = [r \in Reader |-> [root |-> 0, leaf |-> 0, prevs |-> 0, last |-> 0]]
-----------------------------------------------------------------------------
(* Writing a roster in the tree makes the tree of the genesis block, when  *)
(* there is none yet (after a crash, on top of what was committed).  Later *)
(* it writes the roster that the tree has, or another one.                 *)
WithRoster(t) == IF genesis THEN {t, Foreign} ELSE {1}

(* What the database holds once the staged tree t is written: t, when it   *)
(* was staged on what is there.  Otherwise the leaves of the roster and    *)
(* the cleaning of the empty prefixes undo what a block did in between,    *)
(* unless that block touched none of them.                                 *)
Written(t) ==
    IF diskTree \in {0, t} \/ t = Foreign THEN {t} ELSE {diskTree, Foreign}

(* storeGenesis, called by Setup, or for a message when no genesis block   *)
(* is known.                                                               *)

GenesisStage(h) ==
    /\ handling[h] = "idle" /\ (genesis => Again) /\ ~ locked
    /\ \E t \in WithRoster(tree) : staged' = [staged EXCEPT ![h] = t]
    /\ handling' = [handling EXCEPT ![h] = "commit"]
    /\ UNCHANGED <<disk, cache, locked, started, storing, proving, read, crashes>>

(* stageTree.Commit, in a transaction of its own.                          *)
GenesisCommit(h) ==
    /\ handling[h] = "commit"
    /\ diskTree' \in Written(staged[h])
    /\ handling' = [handling EXCEPT ![h] = "cache"]
    /\ UNCHANGED <<inDisk, diskGenesis, diskLength, cache, locked, started, staged, storing,
                   proving, read, crashes>>

GenesisCache(h) ==
    /\ handling[h] = "cache" /\ ~ locked
    /\ tree' = staged[h]
    /\ handling' = [handling EXCEPT ![h] = IF genesis THEN "set" ELSE "persist"]
    /\ UNCHANGED <<disk, genesis, length, locked, started, staged, storing,
                   proving, read, crashes>>

(* PersistentGenesisCache.Set: the database first.                         *)
GenesisPersist(h) ==
    /\ handling[h] = "persist"
    /\ diskGenesis' = TRUE
    /\ handling' = [handling EXCEPT ![h] = "set"]
    /\ UNCHANGED <<inDisk, diskTree, diskLength, cache, locked, started, staged, storing,
                   proving, read, crashes>>

(* cachedGenesis.Set tests and writes set without a lock.                  *)
GenesisSet(h) ==
    /\ handling[h] = "set"
    /\ handling' = [handling EXCEPT ![h] = IF genesis THEN "idle" ELSE "write"]
    /\ UNCHANGED <<disk, cache, locked, started, staged, storing, proving, read, crashes>>

GenesisWrite(h) ==
    /\ handling[h] = "write"
    /\ genesis' = TRUE
    /\ handling' = [handling EXCEPT ![h] = "start"]
    /\ UNCHANGED <<disk, tree, length, locked, started, staged, storing,
                   proving, read, crashes>>

GenesisStart(h) ==
    /\ handling[h] = "start"
    /\ started' = started + 1
    /\ handling' = [handling EXCEPT ![h] = "idle"]
    /\ UNCHANGED <<disk, cache, locked, staged, storing, proving, read, crashes>>
-----------------------------------------------------------------------------
(* verifyFinalize, for a block on top of the last one whose tree was       *)
(* staged on the cached one.  Staged on a tree that is not the last        *)
(* block's it has another root, and the block was refused (verifyPrepare). *)

StoreBegin ==
    /\ storing = "idle" /\ started > 0 /\ length < MaxBlocks
    /\ tree = length + 1
    /\ storing' = "update"
    /\ UNCHANGED <<disk, cache, locked, started, handling, staged, proving, read, crashes>>

(* Variant: the tree is committed in a transaction of its own.             *)
StoreFailsHalf ==
    /\ storing = "update"
    /\ storing' = "idle"
    /\ diskTree' = length + 2
    /\ UNCHANGED <<inDisk, diskGenesis, diskLength, cache, locked, started, handling, staged,
                   proving, read, crashes>>

(* Variant: the caches are updated although the transaction fails.         *)
StoreFailsCached ==
    /\ storing = "update"
    /\ storing' = "idle"
    /\ length' = length + 1
    /\ tree' = length + 2
    /\ UNCHANGED <<disk, genesis, locked, started, handling, staged, proving, read, crashes>>

(* An error in the transaction: nothing is written, no callback is called. *)
StoreFails ==
    /\ storing = "update"
    /\ storing' = "idle"
    /\ UNCHANGED <<disk, cache, locked, started, handling, staged, proving, read, crashes>>

(* The tree and the block are written together.                            *)
StoreCommit ==
    /\ storing = "update"
    /\ diskTree' = IF diskTree = length + 1 THEN length + 2 ELSE Foreign
    /\ diskLength' = IF inDisk THEN length + 1 ELSE diskLength
    /\ storing' = "tree"
    /\ UNCHANGED <<inDisk, diskGenesis, cache, locked, started, handling, staged,
                   proving, read, crashes>>

(* First callback: SetWithLock.                                            *)
StoreTree ==
    /\ storing = "tree" /\ ~ locked
    /\ locked' = TRUE
    /\ tree' = length + 2
    /\ storing' = "block"
    /\ UNCHANGED <<disk, genesis, length, started, handling, staged, proving, read, crashes>>

(* Second callback: the blocks, and the observers.                         *)
StoreBlock ==
    /\ storing = "block"
    /\ length' = length + 1
    /\ storing' = "unlock"
    /\ UNCHANGED <<disk, tree, genesis, locked, started, handling, staged,
                   proving, read, crashes>>

(* Third callback.                                                         *)
StoreUnlock ==
    /\ storing = "unlock"
    /\ locked' = FALSE
    /\ storing' = "idle"
    /\ UNCHANGED <<disk, cache, started, handling, staged, proving, read, crashes>>
-----------------------------------------------------------------------------
(* Variant: the lock of the cache is not taken.                            *)
ProofTreeUnlocked(r) ==
    /\ proving[r] = "idle"
    /\ locked' = TRUE
    /\ proving' = [proving EXCEPT ![r] = "chain"]
    /\ read' = [read EXCEPT ![r].root = tree, ![r].leaf = diskTree]
    /\ UNCHANGED <<disk, cache, started, handling, staged, storing, crashes>>

(* GetProof: the path in the tree, with the lock of the cache.  The root   *)
(* is the cached one; the leaf and its neighbour are loaded from the       *)
(* database, which may be ahead.  (The node may also be missing there: the *)
(* call then fails and gives no proof.)                                    *)
ProofTree(r) ==
    /\ proving[r] = "idle" /\ ~ locked
    /\ locked' = TRUE
    /\ proving' = [proving EXCEPT ![r] = "chain"]
    /\ read' = [read EXCEPT ![r].root = tree, ![r].leaf = diskTree]
    /\ UNCHANGED <<disk, cache, started, handling, staged, storing, crashes>>

(* GetChain without blocks is an error.                                    *)
ProofEmpty(r) ==
    /\ proving[r] = "chain" /\ length = 0
    /\ locked' = FALSE
    /\ proving' = [proving EXCEPT ![r] = "idle"]
    /\ UNCHANGED <<disk, cache, started, handling, staged, storing, read, crashes>>

(* It reads the length; in memory it also reads the chain.                 *)
ProofLength(r) ==
    /\ proving[r] = "chain" /\ length > 0
    /\ proving' = [proving EXCEPT ![r] = IF inDisk THEN "view" ELSE "done"]
    /\ read' = [read EXCEPT ![r].prevs = length - 1, ![r].last = length]
    /\ UNCHANGED <<disk, cache, locked, started, handling, staged, storing, crashes>>

(* The scan of the database keeps length - 1 links, and the last block.    *)
ProofScan(r) ==
    /\ proving[r] = "view"
    /\ proving' = [proving EXCEPT ![r] = "done"]
    /\ read' = [read EXCEPT ![r].last = diskLength]
    /\ UNCHANGED <<disk, cache, locked, started, handling, staged, storing, crashes>>

(* Variant: the proof is read again with the lock still held.              *)
ProofDoneAgain(r) ==
    /\ proving[r] = "done"
    /\ proving' = [proving EXCEPT ![r] = "chain"]
    /\ UNCHANGED <<disk, cache, locked, started, handling, staged, storing, read, crashes>>

ProofDone(r) ==
    /\ proving[r] = "done"
    /\ locked' = FALSE
    /\ proving' = [proving EXCEPT ![r] = "idle"]
    /\ UNCHANGED <<disk, cache, started, handling, staged, storing, read, crashes>>
-----------------------------------------------------------------------------
(* A crash, and the start of the next process: the tree, the genesis block *)
(* and the blocks are loaded, and the service starts if it can.            *)
Restart ==
    /\ inDisk /\ crashes < MaxCrashes
    /\ crashes' = crashes + 1
    /\ tree' = diskTree /\ genesis' = diskGenesis /\ length' = diskLength
    /\ started' = IF diskGenesis THEN 1 ELSE 0
    /\ locked' = FALSE
    /\ handling' = [h \in Handler |-> "idle"]
    /\ storing' = "idle"
    /\ proving' = [r \in Reader |-> "idle"]
    /\ UNCHANGED <<disk, staged, read>>

Genesis(h) ==
    \/ GenesisStage(h) \/ GenesisCommit(h) \/ GenesisCache(h) \/ GenesisPersist(h)
    \/ GenesisSet(h) \/ GenesisWrite(h) \/ GenesisStart(h)

Callbacks == StoreTree \/ StoreBlock \/ StoreUnlock

Proof(r) ==
    ProofTree(r) \/ ProofEmpty(r) \/ ProofLength(r) \/ ProofScan(r) \/ ProofDone(r)

Next ==
    \/ \E h \in Handler : Genesis(h)
    \/ StoreBegin \/ StoreFails \/ StoreCommit \/ Callbacks
    \/ \E r \in Reader : Proof(r)
    \/ Restart

Spec == Init /\ [][Next]_vars

(* A call that has begun goes on; a mutex is given to who waits for it.    *)
FairSpec ==
    /\ Spec
    /\ SF_vars(StoreTree) /\ WF_vars(StoreBlock) /\ WF_vars(StoreUnlock)
    /\ \A r \in Reader : WF_vars(proving[r] # "idle" /\ Proof(r))
    /\ \A h \in Handler : SF_vars(handling[h] # "idle" /\ Genesis(h))
-----------------------------------------------------------------------------
(* Properties.                                                             *)

(* A crash at any point leaves the tree of the last block in the database, *)
(* and blocks only on top of a genesis block with its roster (verify-   *)
(* Finalize persists in one transaction; storeGenesis in two, in order).   *)
DiskConsistent == inDisk =>
    /\ diskTree = diskLength + 1 \/ (diskTree = 0 /\ diskLength = 0)
    /\ diskLength > 0 => diskGenesis
    /\ diskGenesis => diskTree > 0

(* When no call is in progress, the caches show what the database has,     *)
(* after failed transactions and crashes too.                              *)
CacheMatchesDisk ==
    inDisk /\ storing = "idle" /\ (\A h \in Handler : handling[h] = "idle") =>
       /\ tree = diskTree
       /\ length = diskLength
       /\ genesis = diskGenesis

(* The lock of the tree cache has one holder, a call of GetProof or the    *)
(* callbacks of a block, and is free otherwise.                            *)
Holds(r) == proving[r] # "idle"
Holding == storing \in {"block", "unlock"}
LockExclusive ==
    /\ locked <=> Holding \/ \E r \in Reader : Holds(r)
    /\ \A r \in Reader : Holds(r) => ~ Holding
    /\ \A r, q \in Reader : Holds(r) /\ Holds(q) => r = q

(* A proof is of one block: the root and the leaf are those of the tree of *)
(* its last block, and it has every link before this block.                *)
RootOfLast(r) == read[r].root = read[r].last + 1 /\ read[r].prevs = read[r].last - 1
OfOneBlock(r) == RootOfLast(r) /\ read[r].leaf = read[r].root

(* GetProof gives a proof of one block, but for the time from the commit   *)
(* of a block to its first callback, which then waits for the lock of this *)
(* very call: the path and, with a persistent store, the chain are read    *)
(* from the database, which is ahead of the cache.  In memory the root is  *)
(* that of the last block even then.                                       *)
ProofsOfOneBlock ==
    \A r \in Reader : proving[r] = "done" =>
       /\ OfOneBlock(r) \/ storing = "tree"
       /\ inDisk \/ RootOfLast(r)

(* The lock of the tree cache is given back: a proof that is asked for is  *)
(* answered, and the callbacks of a block come to their end.               *)
LockReleased ==
    /\ storing = "tree" ~> storing = "idle"
    /\ locked ~> ~ locked
=============================================================================
