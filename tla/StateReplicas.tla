--------------------------- MODULE StateReplicas ---------------------------
(***************************************************************************)
(* The state of the ledger at its participants: each one executes the      *)
(* blocks of the chain on its prefix tree, commits the tree to its disk,   *)
(* reads it, and starts again from the disk (storeGenesis of proc.go,      *)
(* Prepare, verifyPrepare, verifyFinalize of pbft.go, MerkleTree of        *)
(* binprefix.go).                                                          *)
(*                                                                         *)
(* The chain is the one that the ordering service agrees on, as the module *)
(* BlockLog promises. A block comes with the root that its leader has      *)
(* found; a participant that finds another one refuses it.                 *)
(***************************************************************************)
EXTENDS Contracts, FiniteSets, TLC

CONSTANTS
    Node,        \* participants
    Leader,      \* the participants that propose blocks
    Admin,       \* the identity that operators register with "access add"
    Disturbed,   \* bound: the participants that are read and that restart
    Batch,       \* the batches of transactions that a leader may gather
    Member,      \* the keys of the roster, granted the right to change it
    MaxBlocks    \* bound: length of the chain

VARIABLES
    disk,      \* the bucket of the tree at each participant
    tree,      \* the tree in use (blockstore.TreeCache)
    staged,    \* the tree of the block under way, or Nil
    index,     \* the keys that the value contract remembers, in memory
    jstore,    \* the file of access rights of the access contract
    height,    \* number of blocks that each participant has stored
    chain      \* the blocks

vars == <<disk, tree, staged, index, jstore, height, chain>>

RosterKey == NewPrefixedKey[<<"COSI", "roster">>]

(* storeGenesis: the members may change the roster, and the roster.        *)
Genesis ==
    LET creds == [id |-> "COSI", rule |-> "ViewChange:update"]
        empty == [root |-> Clone(NewTree), disk |-> [k \in {} |-> Nil]]
        perm  == FoldLeft(LAMBDA s, m : Grant(s, creds, <<m>>), empty, Member)
        Stored(full) == Persist(CalculateRoot(full.root), full.disk)
    IN  Stored(Set(perm, RosterKey, <<"roster", Member>>))

Init ==
    /\ disk = [n \in Node |-> Genesis.disk]
    /\ tree = [n \in Node |-> Genesis.node]
    /\ staged = [n \in Node |-> Nil]
    /\ index = [n \in Node |-> {}]
    /\ jstore = [n \in Node |-> Nil]
    /\ height = [n \in Node |-> 0]
    /\ chain = << >>
-----------------------------------------------------------------------------
(* The clients number their transactions from the state of the leader, in  *)
(* the order of the batch, but for a late one that comes again.            *)
Numbered(n, batch) ==
    LET before(i) == Cardinality({j \in 1 .. i - 1 :
                        batch[j].from = batch[i].from /\ ~ batch[j].late})
        next(i) == NonceOf(Search(tree[n], NonceKey(batch[i].from), disk[n]).value)
    IN  [i \in DOMAIN batch |->
            [nonce |-> IF batch[i].late THEN 0 ELSE next(i) + before(i)] @@ batch[i]]

StageOf(n, txs) == Validate(tree[n], disk[n], index[n], jstore[n], txs)

(* addAction of the command "access add", at one participant.              *)
AccessAdd(n) ==
    /\ jstore' = [jstore EXCEPT ![n] = Granted(@, AccessCreds, <<Admin>>)]
    /\ UNCHANGED <<disk, tree, staged, index, height, chain>>

(* prepareBlock by the leader, for a block that is agreed on.              *)
Propose(n, batch) ==
    /\ height[n] = Len(chain) /\ Len(chain) < MaxBlocks
    /\ \E txs \in {Numbered(n, batch)} : \E st \in {StageOf(n, txs)} :
           /\ st.tree # Failed
           /\ chain' = Append(chain, [txs |-> txs, results |-> st.results,
                                      root |-> st.tree.hash, jstore |-> jstore[n]])
           /\ index' = [index EXCEPT ![n] = st.index]
    /\ UNCHANGED <<disk, tree, staged, jstore, height>>

(* prepareBlock for a candidate that is never agreed on: the tree is      *)
(* dropped, what the contract wrote in memory is not.                      *)
Abandon(n, batch) ==
    /\ height[n] = Len(chain) /\ Len(chain) < MaxBlocks
    /\ index' = [index EXCEPT ![n] = StageOf(n, Numbered(n, batch)).index]
    /\ UNCHANGED <<disk, tree, staged, jstore, height, chain>>

(* The roster is read in the staged tree for the change set of the link.   *)
WithRoster(n, t) == Search(t, RosterKey, disk[n]).node

(* verifyPrepare, in the round or when the participant catches up.         *)
Verify(n) ==
    /\ height[n] < Len(chain) /\ staged[n] = Nil
    /\ \E block \in {chain[height[n] + 1]} : \E st \in {StageOf(n, block.txs)} :
           /\ index' = [index EXCEPT ![n] = st.index]
           /\ staged' = IF st.tree.hash = block.root
                        THEN [staged EXCEPT ![n] = WithRoster(n, st.tree)] ELSE staged
    /\ UNCHANGED <<disk, tree, jstore, height, chain>>

(* verifyFinalize: the tree and the block in one transaction, then the     *)
(* cache.                                                                  *)
Commit(n) ==
    /\ staged[n] # Nil
    /\ LET p == Persist(staged[n], disk[n])
       IN  /\ disk' = [disk EXCEPT ![n] = p.disk]
           /\ tree' = [tree EXCEPT ![n] = p.node]
    /\ staged' = [staged EXCEPT ![n] = Nil]
    /\ height' = [height EXCEPT ![n] = @ + 1]
    /\ UNCHANGED <<index, jstore, chain>>

(* Get or GetPath on the tree in use.                                      *)
Read(n, name) ==
    /\ tree' = [tree EXCEPT ![n] = Search(@, ValueKey(name), disk[n]).node]
    /\ UNCHANGED <<disk, staged, index, jstore, height, chain>>

(* A participant stops at any point and loads its tree again.              *)
Restart(n) ==
    /\ tree' = [tree EXCEPT ![n] = Load(disk[n])]
    /\ staged' = [staged EXCEPT ![n] = Nil]
    /\ index' = [index EXCEPT ![n] = {}]
    /\ UNCHANGED <<disk, jstore, height, chain>>

Next ==
    \E n \in Node :
        \/ AccessAdd(n) \/ Verify(n) \/ Commit(n)
        \/ \E batch \in Batch : n \in Leader /\ (Propose(n, batch) \/ Abandon(n, batch))
        \/ n \in Disturbed /\ (Restart(n) \/ \E name \in Name : Read(n, name))

Spec == Init /\ [][Next]_vars
-----------------------------------------------------------------------------
Value(n, key) == Search(tree[n], key, disk[n]).value

TypeOK ==
    /\ \A n \in Node : /\ height[n] \in 0 .. Len(chain)
                       /\ tree[n].type = "interior" /\ tree[n].hash # Nil
                       /\ \A k \in DOMAIN disk[n] : DecodeNode(disk[n][k]).type \in {"leaf", "empty"}
    /\ index \in [Node -> SUBSET Name]
    /\ Len(chain) =< MaxBlocks

(* The transactions of the first h blocks, with their results.             *)
History(h) ==
    FlattenSeq([i \in 1 .. h |->
        [j \in DOMAIN chain[i].txs |-> [tx |-> chain[i].txs[j], res |-> chain[i].results[j]]]])

(* What the accepted commands say of the key of a value: the last WRITE,   *)
(* unless a DELETE follows.                                                *)
Written(name, hist) ==
    LET on == {i \in DOMAIN hist : /\ hist[i].res = "accepted"
                                   /\ hist[i].tx.contract = "Value"
                                   /\ hist[i].tx.cmd \in {"WRITE", "DELETE"}
                                   /\ hist[i].tx.key = name}
    IN  IF on = {} \/ hist[Max(on)].tx.cmd = "DELETE" THEN Nil
        ELSE <<"value", hist[Max(on)].tx.value>>

(* The number of transactions of an identity that were executed.           *)
Executed(ident, hist) ==
    Cardinality({i \in DOMAIN hist : hist[i].tx.from = ident /\ hist[i].res # "invalid"})

(* The tree of a participant holds what the accepted transactions of its   *)
(* blocks wrote, and the count of the executed ones, whatever nodes were   *)
(* split, collapsed, left on disk, loaded by a read or restored by a       *)
(* restart on the way (Tree.Insert, Delete, Persist, FillFromBucket).      *)
ContentsExact ==
    \A n \in Node :
        LET hist == History(height[n])
        IN  /\ \A name \in Name : Value(n, ValueKey(name)) = Written(name, hist)
            /\ \A i \in Ident : NonceOf(Value(n, NonceKey(i))) = Executed(i, hist)

(* A participant that stops finds the tree it had: the records of its disk *)
(* give the same root (Tree.Persist and cleanSubtree leave one record per  *)
(* leaf, and none of an earlier shape of the tree, nor another kind of     *)
(* node: TypeOK).                                                          *)
ReloadExact == TypeOK /\ \A n \in Node : Load(disk[n]).hash = tree[n].hash

(* Execution is reproducible: a participant with the rights of the leader  *)
(* in its access file finds the root of the leader for the next block,     *)
(* whatever it has read, staged for nothing or reloaded since              *)
(* (verifyPrepare would refuse the block for ever otherwise).              *)
Reproducible ==
    \A n \in Node :
        height[n] < Len(chain) =>
            LET block == chain[height[n] + 1]
            IN  jstore[n] = block.jstore => StageOf(n, block.txs).tree.hash = block.root

(* A path proves the value of every key of the ledger against the root of  *)
(* the tree, and that a key is absent when the path ends on nothing        *)
(* (MerkleTree.GetPath, Path.computeRoot).                                 *)
PathsProve ==
    \A n \in Node : \A x \in DOMAIN NewPrefixedKey :
        LET key  == NewPrefixedKey[x]
            path == GetPath(tree[n], key, disk[n])
        IN  path.value = Value(n, key) => computeRoot(path) = tree[n].hash

(* A command of the value contract is accepted only after a grant to its   *)
(* identity alone, itself accepted from an identity that the operator of   *)
(* the leader has registered (Contract.Execute of value and access).       *)
OnlyGranted ==
    LET hist == History(Len(chain))
    IN  \A i \in DOMAIN hist :
            hist[i].res = "accepted" /\ hist[i].tx.contract = "Value" =>
                \E j \in 1 .. i - 1 :
                    /\ hist[j].res = "accepted" /\ hist[j].tx.contract = "Access"
                    /\ hist[j].tx.cred = ValueCreds
                    /\ ToSet(hist[j].tx.group) = {hist[i].tx.from}
                    /\ hist[j].tx.from = Admin
=============================================================================
