-------------------------- MODULE ChainStoreProofs --------------------------
(***************************************************************************)
(* Proofs about ChainStore, for any number of readers, blocks and crashes: *)
(* the types and the lock of the tree cache; and, with one handler of the  *)
(* genesis block and no second Setup, the consistency of the database, the *)
(* caches that show what it has, and the proofs that are of one block.     *)
(***************************************************************************)
EXTENDS ChainStore, TLAPS

(* The types of the flags, and of everything else.                         *)
Flags ==
    /\ inDisk \in BOOLEAN
    /\ diskGenesis \in BOOLEAN
    /\ genesis \in BOOLEAN
    /\ locked \in BOOLEAN

Places ==
    /\ handling \in [Handler ->
          {"idle", "commit", "cache", "persist", "set", "write", "start"}]
    /\ staged \in [Handler -> Trees]
    /\ storing \in {"idle", "update", "tree", "block", "unlock"}
    /\ proving \in [Reader -> {"idle", "chain", "view", "done"}]
    /\ read \in [Reader -> [root : Trees, leaf : Trees, prevs : Nat, last : Nat]]

Numbers ==
    /\ diskTree \in Trees /\ diskLength \in Nat
    /\ tree \in Trees /\ length \in Nat
    /\ started \in Nat /\ crashes \in Nat

LEMMA TypeParts == TypeOK <=> Flags /\ Numbers /\ Places
  BY DEF TypeOK, Flags, Numbers, Places

LEMMA FlagsNext == ASSUME Flags, [Next]_vars PROVE Flags'
<1> USE DEF Flags, disk, cache
<1>1. ASSUME NEW h \in Handler, Genesis(h) PROVE Flags'
  BY <1>1, Zenon DEF Genesis, GenesisStage, GenesisCommit, GenesisCache, GenesisPersist,
                     GenesisSet, GenesisWrite, GenesisStart
<1>2. CASE StoreBegin \/ StoreFails \/ StoreCommit \/ Callbacks
  BY <1>2, Zenon DEF StoreBegin, StoreFails, StoreCommit, Callbacks, StoreTree,
                     StoreBlock, StoreUnlock
<1>3. ASSUME NEW r \in Reader, Proof(r) PROVE Flags'
  BY <1>3, Zenon DEF Proof, ProofTree, ProofEmpty, ProofLength, ProofScan, ProofDone
<1>4. CASE Restart
  BY <1>4, Zenon DEF Restart
<1>5. CASE UNCHANGED vars
  BY <1>5, Zenon DEF vars
<1> QED
  BY <1>1, <1>2, <1>3, <1>4, <1>5 DEF Next

LEMMA KindKept == [Next]_vars => inDisk' = inDisk
  BY DEF Next, Genesis, GenesisStage, GenesisCommit, GenesisCache, GenesisPersist,
         GenesisSet, GenesisWrite, GenesisStart, StoreBegin, StoreFails, StoreCommit,
         Callbacks, StoreTree, StoreBlock, StoreUnlock, Proof, ProofTree, ProofEmpty,
         ProofLength, ProofScan, ProofDone, Restart, vars, disk

LEMMA NumbersNext == ASSUME Flags, Numbers, Places, [Next]_vars PROVE Numbers'
<1> USE DEF Numbers, disk, cache
<1>1. ASSUME NEW h \in Handler, Genesis(h) PROVE Numbers'
  <2>1. staged[h] \in Trees
    BY DEF Places
  <2>2. Written(staged[h]) \subseteq Trees
    BY <2>1 DEF Written, Trees
  <2> QED
    BY <1>1, <2>1, <2>2 DEF Genesis, GenesisStage, GenesisCommit, GenesisCache,
                GenesisPersist, GenesisSet, GenesisWrite, GenesisStart
<1>2. CASE StoreBegin \/ StoreFails \/ StoreCommit \/ Callbacks
  BY <1>2 DEF StoreBegin, StoreFails, StoreCommit, Callbacks, StoreTree, Trees, Foreign,
              StoreBlock, StoreUnlock
<1>3. ASSUME NEW r \in Reader, Proof(r) PROVE Numbers'
  BY <1>3 DEF Proof, ProofTree, ProofEmpty, ProofLength, ProofScan, ProofDone
<1>4. CASE Restart
  BY <1>4 DEF Restart
<1>5. CASE UNCHANGED vars
  BY <1>5 DEF vars
<1> QED
  BY <1>1, <1>2, <1>3, <1>4, <1>5 DEF Next

LEMMA PlacesNext == ASSUME Numbers, Places, [Next]_vars PROVE Places'
<1> USE DEF Places, disk, cache
<1>1. ASSUME NEW h \in Handler, Genesis(h) PROVE Places'
  <2>1. WithRoster(tree) \subseteq Trees
    BY DEF WithRoster, Numbers, Trees
  <2> QED
    BY <1>1, <2>1 DEF Genesis, GenesisStage, GenesisCommit, GenesisCache, GenesisPersist,
                GenesisSet, GenesisWrite, GenesisStart
<1>2. CASE StoreBegin \/ StoreFails \/ StoreCommit \/ Callbacks
  BY <1>2 DEF StoreBegin, StoreFails, StoreCommit, Callbacks, StoreTree,
              StoreBlock, StoreUnlock
<1>3. ASSUME NEW r \in Reader, Proof(r) PROVE Places'
  BY <1>3 DEF Proof, ProofTree, ProofEmpty, ProofLength, ProofScan, ProofDone, Numbers
<1>4. CASE Restart
  BY <1>4 DEF Restart
<1>5. CASE UNCHANGED vars
  BY <1>5 DEF vars
<1> QED
  BY <1>1, <1>2, <1>3, <1>4, <1>5 DEF Next

(* The variables have their types in every reachable state; in particular  *)
(* GetChain never makes room for a negative number of links.               *)
THEOREM StoreTypes == Spec => []TypeOK
<1>1. Init => Flags
  BY Zenon DEF Init, Flags
<1>2. Init => Numbers
  BY DEF Init, Numbers, Trees
<1>3. Init => Places
  BY DEF Init, Places, Trees
<1>4. Flags /\ Numbers /\ Places /\ [Next]_vars => (Flags /\ Numbers /\ Places)'
  BY FlagsNext, NumbersNext, PlacesNext
<1> QED
  BY <1>1, <1>2, <1>3, <1>4, TypeParts, PTL DEF Spec
-----------------------------------------------------------------------------
(* The lock: an action that takes it finds it free.                        *)
LEMMA LockNext == ASSUME Flags, Places, LockExclusive, [Next]_vars PROVE LockExclusive'
<1> USE DEF Flags, Places, LockExclusive, Holds, Holding
<1>1. ASSUME NEW h \in Handler, Genesis(h) PROVE LockExclusive'
  BY <1>1 DEF Genesis, GenesisStage, GenesisCommit, GenesisCache, GenesisPersist,
              GenesisSet, GenesisWrite, GenesisStart
<1>2. CASE StoreBegin \/ StoreFails \/ StoreCommit
  BY <1>2 DEF StoreBegin, StoreFails, StoreCommit
<1>3. CASE Callbacks
  BY <1>3 DEF Callbacks, StoreTree, StoreBlock, StoreUnlock
<1>4. ASSUME NEW r \in Reader, Proof(r) PROVE LockExclusive'
  BY <1>4 DEF Proof, ProofTree, ProofEmpty, ProofLength, ProofScan, ProofDone
<1>5. CASE Restart
  BY <1>5 DEF Restart
<1>6. CASE UNCHANGED vars
  BY <1>6 DEF vars
<1> QED
  BY <1>1, <1>2, <1>3, <1>4, <1>5, <1>6 DEF Next

(* The lock of the tree cache has one holder at a time, and is free when   *)
(* it has none (treeCache, and the unlock that GetWithLock and SetWithLock *)
(* return), with any number of readers.                                    *)
THEOREM StoreLock == Spec => []LockExclusive
<1>1. Init => LockExclusive
  BY DEF Init, LockExclusive, Holds, Holding
<1>2. TypeOK /\ LockExclusive /\ [Next]_vars => LockExclusive'
  BY LockNext, TypeParts
<1> QED
  BY <1>1, <1>2, StoreTypes, PTL DEF Spec
-----------------------------------------------------------------------------
(* One handler of the genesis block, and no second Setup.                  *)
OneGenesis ==
    /\ ~ Again
    /\ \A h, g \in Handler : h = g

Before == {"commit", "cache", "persist", "set", "write"}

(* Until the genesis block is set, nothing else happens.                   *)
GenesisInv ==
    /\ ~ genesis => started = 0 /\ storing = "idle" /\ length = 0
    /\ storing # "idle" => started > 0
    /\ \A h \in Handler :
          /\ handling[h] \in Before => ~ genesis
          /\ handling[h] \in {"commit", "cache"} => staged[h] = 1
          /\ handling[h] = "start" => genesis

(* The trees of the database and of the cache are those of the last block, *)
(* and differ only between a commit and its callback.                      *)
TreeInv ==
    /\ \/ diskTree = length + (IF storing \in {"tree", "block"} THEN 2 ELSE 1)
       \/ ~ genesis /\ diskTree = 0
    /\ \/ tree = length + (IF storing = "block" THEN 2 ELSE 1)
       \/ ~ genesis /\ tree = 0
    /\ tree = diskTree \/ storing = "tree" \/ \E h \in Handler : handling[h] = "cache"
    /\ \A h \in Handler :
          handling[h] \in {"cache", "persist", "set", "write"} => diskTree > 0

(* The transaction of a block writes the block after those of the cache,   *)
(* and a genesis block is in the database before it is in the cache.       *)
DiskInv == inDisk =>
    /\ diskLength = length + (IF storing \in {"tree", "block"} THEN 1 ELSE 0)
    /\ diskGenesis => diskTree > 0
    /\ genesis <=> diskGenesis /\ \A h \in Handler : handling[h] \notin {"set", "write"}
    /\ \A h \in Handler : handling[h] \in {"set", "write", "start"} => diskGenesis

StoreInv == GenesisInv /\ TreeInv /\ DiskInv

LEMMA GenesisNext ==
    ASSUME OneGenesis, Flags, Numbers, Places, StoreInv, [Next]_vars
    PROVE  GenesisInv'
<1> USE DEF OneGenesis, Numbers, Places, StoreInv, GenesisInv, Before, disk, cache
<1>1. ASSUME NEW h \in Handler, Genesis(h) PROVE GenesisInv'
  <2>1. CASE GenesisStage(h)
    BY <2>1 DEF GenesisStage, WithRoster
  <2>2. CASE GenesisCommit(h) \/ GenesisCache(h) \/ GenesisPersist(h) \/ GenesisSet(h)
    BY <2>2 DEF GenesisCommit, GenesisCache, GenesisPersist, GenesisSet
  <2>3. CASE GenesisWrite(h) \/ GenesisStart(h)
    BY <2>3 DEF GenesisWrite, GenesisStart
  <2> QED
    BY <1>1, <2>1, <2>2, <2>3 DEF Genesis
<1>2. CASE StoreBegin \/ StoreFails \/ StoreCommit
  BY <1>2 DEF StoreBegin, StoreFails, StoreCommit
<1>3. CASE Callbacks
  BY <1>3 DEF Callbacks, StoreTree, StoreBlock, StoreUnlock
<1>4. ASSUME NEW r \in Reader, Proof(r) PROVE GenesisInv'
  BY <1>4 DEF Proof, ProofTree, ProofEmpty, ProofLength, ProofScan, ProofDone
<1>5. CASE Restart
  BY <1>5 DEF Restart, DiskInv
<1>6. CASE UNCHANGED vars
  BY <1>6 DEF vars
<1> QED
  BY <1>1, <1>2, <1>3, <1>4, <1>5, <1>6 DEF Next

LEMMA TreeNext ==
    ASSUME OneGenesis, Flags, Numbers, Places, StoreInv, [Next]_vars
    PROVE  TreeInv'
<1> USE DEF OneGenesis, Numbers, Places, StoreInv, TreeInv, disk, cache
<1>1. ASSUME NEW h \in Handler, Genesis(h) PROVE TreeInv'
  <2> USE DEF GenesisInv, Before
  <2>1. CASE GenesisStage(h)
    BY <2>1 DEF GenesisStage
  <2>2. CASE GenesisCommit(h)
    <3>1. diskTree' = 1
      BY <2>2 DEF GenesisCommit, Written
    <3> QED
      BY <2>2, <3>1 DEF GenesisCommit
  <2>3. CASE GenesisCache(h)
    BY <2>3 DEF GenesisCache
  <2>4. CASE GenesisPersist(h) \/ GenesisSet(h)
    BY <2>4 DEF GenesisPersist, GenesisSet
  <2>5. CASE GenesisWrite(h) \/ GenesisStart(h)
    BY <2>5 DEF GenesisWrite, GenesisStart
  <2> QED
    BY <1>1, <2>1, <2>2, <2>3, <2>4, <2>5 DEF Genesis
<1>2. CASE StoreBegin \/ StoreFails
  BY <1>2 DEF StoreBegin, StoreFails
<1>3. CASE StoreCommit
  <2>1. genesis /\ diskTree = length + 1 /\ tree = length + 1
    BY <1>3 DEF StoreCommit, GenesisInv
  <2>2. diskTree' = length + 2 /\ storing' = "tree"
    BY <1>3, <2>1 DEF StoreCommit
  <2> QED
    BY <1>3, <2>1, <2>2 DEF StoreCommit
<1>4. CASE Callbacks
  BY <1>4 DEF Callbacks, StoreTree, StoreBlock, StoreUnlock, GenesisInv, Before
<1>5. ASSUME NEW r \in Reader, Proof(r) PROVE TreeInv'
  BY <1>5 DEF Proof, ProofTree, ProofEmpty, ProofLength, ProofScan, ProofDone
<1>6. CASE Restart
  BY <1>6 DEF Restart, DiskInv, GenesisInv
<1>7. CASE UNCHANGED vars
  BY <1>7 DEF vars
<1> QED
  BY <1>1, <1>2, <1>3, <1>4, <1>5, <1>6, <1>7 DEF Next

LEMMA DiskNext ==
    ASSUME OneGenesis, Flags, Numbers, Places, StoreInv, [Next]_vars
    PROVE  DiskInv'
<1> USE DEF OneGenesis, Numbers, Places, StoreInv, DiskInv, disk, cache
<1> SUFFICES ASSUME inDisk PROVE DiskInv'
  BY KindKept
<1>1. ASSUME NEW h \in Handler, Genesis(h) PROVE DiskInv'
  <2> USE DEF GenesisInv, Before
  <2>1. CASE GenesisStage(h)
    BY <2>1 DEF GenesisStage
  <2>2. CASE GenesisCommit(h)
    <3>1. diskTree' = 1
      BY <2>2 DEF GenesisCommit, Written, TreeInv
    <3> QED
      BY <2>2, <3>1 DEF GenesisCommit
  <2>3. CASE GenesisCache(h)
    BY <2>3 DEF GenesisCache
  <2>4. CASE GenesisPersist(h)
    BY <2>4 DEF GenesisPersist, TreeInv
  <2>5. CASE GenesisSet(h)
    BY <2>5 DEF GenesisSet
  <2>6. CASE GenesisWrite(h) \/ GenesisStart(h)
    BY <2>6 DEF GenesisWrite, GenesisStart
  <2> QED
    BY <1>1, <2>1, <2>2, <2>3, <2>4, <2>5, <2>6 DEF Genesis
<1>2. CASE StoreBegin \/ StoreFails
  BY <1>2 DEF StoreBegin, StoreFails
<1>3. CASE StoreCommit
  BY <1>3 DEF StoreCommit, TreeInv, GenesisInv
<1>4. CASE Callbacks
  BY <1>4 DEF Callbacks, StoreTree, StoreBlock, StoreUnlock
<1>5. ASSUME NEW r \in Reader, Proof(r) PROVE DiskInv'
  BY <1>5 DEF Proof, ProofTree, ProofEmpty, ProofLength, ProofScan, ProofDone
<1>6. CASE Restart
  BY <1>6 DEF Restart
<1>7. CASE UNCHANGED vars
  BY <1>7 DEF vars
<1> QED
  BY <1>1, <1>2, <1>3, <1>4, <1>5, <1>6, <1>7 DEF Next

LEMMA StoreInvHolds == ASSUME OneGenesis PROVE Spec => []StoreInv
<1>1. Init => StoreInv
  BY DEF Init, StoreInv, GenesisInv, TreeInv, DiskInv, Before
<1>2. TypeOK /\ StoreInv /\ [Next]_vars => StoreInv'
  BY GenesisNext, TreeNext, DiskNext, TypeParts DEF StoreInv
<1> QED
  BY <1>1, <1>2, StoreTypes, PTL DEF Spec
-----------------------------------------------------------------------------
(* With a persistent store, one handler of the genesis block and no second *)
(* Setup, a crash at any point leaves the tree of the last block in the    *)
(* database, and blocks only on top of a genesis block (verifyFinalize,    *)
(* storeGenesis, and the loading).                                         *)
THEOREM StoreDisk == ASSUME OneGenesis PROVE Spec => []DiskConsistent
<1>1. TypeOK /\ StoreInv => DiskConsistent
  BY TypeParts DEF StoreInv, GenesisInv, TreeInv, DiskInv, DiskConsistent, Numbers
<1> QED
  BY <1>1, StoreTypes, StoreInvHolds, PTL

(* Under the same conditions, the caches show what the database has when   *)
(* no call is in progress, after failed transactions and crashes too       *)
(* (verifyFinalize and its callbacks, storeGenesis, and the loading).      *)
THEOREM StoreCaches == ASSUME OneGenesis PROVE Spec => []CacheMatchesDisk
<1>1. ASSUME TypeOK, StoreInv PROVE CacheMatchesDisk
  <2> SUFFICES ASSUME inDisk, storing = "idle", \A h \in Handler : handling[h] = "idle"
               PROVE  tree = diskTree /\ length = diskLength /\ genesis = diskGenesis
    BY DEF CacheMatchesDisk
  <2>1. tree = diskTree /\ length = diskLength /\ (genesis <=> diskGenesis)
    BY <1>1, TypeParts DEF StoreInv, TreeInv, DiskInv, Numbers
  <2>2. genesis = diskGenesis
    BY <1>1, <2>1, Zenon DEF TypeOK
  <2> QED
    BY <2>1, <2>2
<1> QED
  BY <1>1, StoreTypes, StoreInvHolds, PTL
-----------------------------------------------------------------------------
(* Whoever holds the lock of the tree cache has read the cached tree, and  *)
(* leaves that are ahead of it only while the first callback of a block    *)
(* waits for the lock.                                                     *)
ProofInv ==
    \A r \in Reader :
       /\ proving[r] # "idle" =>
             /\ read[r].root = tree
             /\ read[r].leaf = tree \/ storing = "tree" \/ length = 0
       /\ proving[r] \in {"view", "done"} => length > 0 /\ read[r].prevs = length - 1
       /\ proving[r] = "view" => inDisk
       /\ proving[r] = "done" => read[r].last = length \/ (inDisk /\ storing = "tree")

LEMMA ProofNext ==
    ASSUME OneGenesis, Flags, Numbers, Places, StoreInv, LockExclusive, ProofInv,
           [Next]_vars
    PROVE  ProofInv'
<1> USE DEF OneGenesis, Numbers, Places, StoreInv, ProofInv, disk, cache
<1>1. ASSUME NEW h \in Handler, Genesis(h) PROVE ProofInv'
  <2>1. CASE GenesisStage(h) \/ GenesisCommit(h)
    BY <2>1 DEF GenesisStage, GenesisCommit
  <2>2. CASE GenesisCache(h)
    BY <2>2 DEF GenesisCache, LockExclusive, Holds
  <2>3. CASE GenesisPersist(h) \/ GenesisSet(h)
    BY <2>3 DEF GenesisPersist, GenesisSet
  <2>4. CASE GenesisWrite(h) \/ GenesisStart(h)
    BY <2>4 DEF GenesisWrite, GenesisStart
  <2> QED
    BY <1>1, <2>1, <2>2, <2>3, <2>4 DEF Genesis
<1>2. CASE StoreBegin \/ StoreFails \/ StoreCommit
  BY <1>2 DEF StoreBegin, StoreFails, StoreCommit
<1>3. CASE Callbacks
  BY <1>3 DEF Callbacks, StoreTree, StoreBlock, StoreUnlock, LockExclusive, Holds, Holding
<1>4. ASSUME NEW r \in Reader, Proof(r) PROVE ProofInv'
  <2>1. CASE ProofTree(r)
    BY <2>1 DEF ProofTree, LockExclusive, Holds, Holding, TreeInv, GenesisInv, Before
  <2>2. CASE ProofEmpty(r) \/ ProofDone(r)
    BY <2>2 DEF ProofEmpty, ProofDone
  <2>3. CASE ProofLength(r)
    BY <2>3 DEF ProofLength
  <2>4. CASE ProofScan(r)
    BY <2>4 DEF ProofScan, DiskInv, LockExclusive, Holds, Holding
  <2> QED
    BY <1>4, <2>1, <2>2, <2>3, <2>4 DEF Proof
<1>5. CASE Restart
  BY <1>5 DEF Restart
<1>6. CASE UNCHANGED vars
  BY <1>6 DEF vars
<1> QED
  BY <1>1, <1>2, <1>3, <1>4, <1>5, <1>6 DEF Next

(* With one handler of the genesis block and no second Setup, the root,    *)
(* the leaf and the chain of every proof are of the same block, but for    *)
(* the time between the commit of a block and its first callback           *)
(* (GetProof), with any number of concurrent calls, blocks and crashes.    *)
THEOREM StoreProofs == ASSUME OneGenesis PROVE Spec => []ProofsOfOneBlock
<1>1. Init => ProofInv
  BY DEF Init, ProofInv
<1>2. TypeOK /\ StoreInv /\ LockExclusive /\ ProofInv /\ [Next]_vars => ProofInv'
  BY ProofNext, TypeParts
<1>3. TypeOK /\ StoreInv /\ LockExclusive /\ ProofInv => ProofsOfOneBlock
  BY TypeParts DEF ProofInv, ProofsOfOneBlock, OfOneBlock, RootOfLast, StoreInv, GenesisInv,
                   TreeInv, LockExclusive, Holds, Holding, Numbers, Places
<1> QED
  BY <1>1, <1>2, <1>3, StoreTypes, StoreInvHolds, StoreLock, PTL DEF Spec
=============================================================================
