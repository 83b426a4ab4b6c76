---------------------------- MODULE Transactions ----------------------------
(***************************************************************************)
(* The life of transactions: the manager of a client that numbers them     *)
(* (core/txn/signed), the pool of every participant (core/txn/pool) with   *)
(* the gossip between them (core/txn/pool/gossip, mino/gossip), their      *)
(* validation in a block (core/validation/simple) and their removal when   *)
(* the block is stored (watchBlocks of core/ordering/cosipbft).            *)
(*                                                                         *)
(* The order of the blocks is the one that the ordering service agrees on, *)
(* as the module BlockLog promises: here it is the single sequence chain,  *)
(* of which every participant stores a prefix.                             *)
(***************************************************************************)
EXTENDS Integers, FiniteSets, Sequences, SequencesExt

CONSTANTS
    Node,        \* participants
    Leader,      \* the participants that propose blocks
    Client,      \* identities
    Limit,       \* DefaultIdentitySize: the leeway of the filter
    Refused,     \* the numbers of the transactions that their contract refuses
    Entry,       \* bound: the participants that clients talk to
    MaxTx,       \* bound: transactions that a client makes
    MaxLag       \* bound: blocks that the observer of a store may be behind

ASSUME LifeAssumption ==
    /\ IsFiniteSet(Node) /\ Leader \subseteq Node
    /\ Entry \subseteq Node
    /\ Limit \in Nat /\ MaxTx \in Nat /\ MaxLag \in Nat \ {0}

VARIABLES
    mgr,       \* TransactionManager.nonce of each client
    made,      \* number of transactions that each client has made
    sent,      \* calls of Add that did not start yet: from a client or a rumor
    adding,    \* calls of Add between the filters and the lock of the gatherer
    pool,      \* transactions that each participant holds
    gather,    \* the leader's Gather: idle, waiting or a batch
    chain,     \* the blocks, each with its results and the nonces that follow
    height,    \* number of blocks that each participant has stored
    seen       \* number of blocks that its watchBlocks has handled

vars == <<mgr, made, sent, adding, pool, gather, chain, height, seen>>

Tx == [from : Client, nonce : Nat, no : Nat]
Call == [to : Node, tx : Tx, local : BOOLEAN]
Idle == [waiting |-> FALSE, batch |-> << >>]
Waiting == [waiting |-> TRUE, batch |-> << >>]
Ready(txs) == [waiting |-> FALSE, batch |-> txs]
Result == [tx : Tx, status : {"accepted", "refused", "invalid"}]

TypeOK ==
    /\ mgr \in [Client -> Nat] /\ made \in [Client -> Nat]
    /\ sent \subseteq Call /\ adding \subseteq Call
    /\ pool \in [Node -> SUBSET Tx]
    /\ gather \in [Node -> [waiting : BOOLEAN, batch : Seq(Tx)]]
    /\ chain \in Seq([results : Seq(Result), nonces : [Client -> Nat]])
    /\ \A n \in Node : /\ seen[n] =< height[n]
                       /\ height[n] =< Len(chain)

Init ==
    /\ mgr = [c \in Client |-> 0] /\ made = [c \in Client |-> 0]
    /\ sent = {} /\ adding = {}
    /\ pool = [n \in Node |-> {}]
    /\ gather = [n \in Node |-> Idle]
    /\ chain = << >>
    /\ height = [n \in Node |-> 0] /\ seen = [n \in Node |-> 0]
-----------------------------------------------------------------------------
(* GetNonce: the next valid nonce in the tree of the block h.              *)
GetNonce(h, c) == IF h = 0 THEN 0 ELSE chain[h].nonces[c]

(* Accept: the filter of the pool, on the tree of the participant.         *)
AcceptTx(n, tx) ==
    LET nonce == GetNonce(height[n], tx.from)
    IN  tx.nonce >= nonce /\ tx.nonce =< nonce + Limit

(* Variant: a refused transaction does not use its nonce.                  *)
UsesNonceAccepted(status) == status = "accepted"

(* validateTx: the nonce is set whether or not the execution accepts.      *)
UsesNonce(status) == status # "invalid"

validateTx(acc, tx) ==
    LET status == IF tx.nonce # acc.nonces[tx.from] THEN "invalid"
                  ELSE IF tx.no \in Refused THEN "refused" ELSE "accepted"
    IN  [results |-> Append(acc.results, [tx |-> tx, status |-> status]),
         nonces  |-> IF UsesNonce(status)
                     THEN [acc.nonces EXCEPT ![tx.from] = tx.nonce + 1]
                     ELSE acc.nonces]

(* Validate: the block made of the batch txs on top of the block h.        *)
Validate(h, txs) ==
    FoldLeft(validateTx,
             [results |-> << >>, nonces |-> [c \in Client |-> GetNonce(h, c)]], txs)

(* transactions.Add: one transaction per nonce, the first one.             *)
AddTx(txs, tx) ==
    IF \E t \in txs : t.from = tx.from /\ t.nonce = tx.nonce THEN txs ELSE txs \cup {tx}

(* makeArray: identities in any order (a Go map), each sorted by nonce.    *)
makeArray(txs) ==
    {FlattenSeq([i \in DOMAIN order |->
        SetToSortSeq({t \in txs : t.from = order[i]}, LAMBDA t, u : t.nonce < u.nonce)]) :
     order \in SetToSeqs(Client)}
-----------------------------------------------------------------------------
(* TransactionManager.Make: the client c asks the participant n for its    *)
(* nonce, and submits the transaction to it.                               *)
Make(c, n) ==
    /\ made[c] < MaxTx
    /\ LET nonce == GetNonce(height[n], c)
           own   == IF nonce > mgr[c] THEN nonce ELSE mgr[c]
       IN  /\ mgr' = [mgr EXCEPT ![c] = own + 1]
           /\ sent' = sent \cup
                {[to |-> n, tx |-> [from |-> c, nonce |-> own, no |-> made[c]],
                  local |-> TRUE]}
    /\ made' = [made EXCEPT ![c] = @ + 1]
    /\ UNCHANGED <<adding, pool, gather, chain, height, seen>>

(* TransactionManager.Sync.                                                *)
Sync(c, n) ==
    /\ mgr' = [mgr EXCEPT ![c] = GetNonce(height[n], c)]
    /\ UNCHANGED <<made, sent, adding, pool, gather, chain, height, seen>>

(* simpleGatherer.Add, first half: the filters, without the lock.          *)
AddFilters(m) ==
    /\ sent' = sent \ {m}
    /\ adding' = IF AcceptTx(m.to, m.tx) THEN adding \cup {m} ELSE adding
    /\ UNCHANGED <<mgr, made, pool, gather, chain, height, seen>>

(* A rumor is lost, as is what a client sends to a stopped participant.    *)
Lose(m) ==
    /\ ~ m.local
    /\ sent' = sent \ {m}
    /\ UNCHANGED <<mgr, made, adding, pool, gather, chain, height, seen>>

(* notify: a waiting Gather gets the transactions.                         *)
notify(n, txs) ==
    IF gather[n] = Waiting
    THEN \E batch \in makeArray(txs) : gather' = [gather EXCEPT ![n] = Ready(batch)]
    ELSE UNCHANGED gather

(* Variant: nobody is notified.                                            *)
AddStoresSilently(m) ==
    /\ adding' = adding \ {m}
    /\ pool' = [pool EXCEPT ![m.to] = AddTx(@, m.tx)]
    /\ sent' = IF m.local THEN sent \cup {[m EXCEPT !.to = n, !.local = FALSE] : n \in Node}
                          ELSE sent
    /\ UNCHANGED <<mgr, made, gather, chain, height, seen>>

(* Add, second half, under the lock; a transaction of a client is then     *)
(* sent to all the participants.                                           *)
AddStores(m) ==
    /\ adding' = adding \ {m}
    /\ pool' = [pool EXCEPT ![m.to] = AddTx(@, m.tx)]
    /\ notify(m.to, AddTx(pool[m.to], m.tx))
    /\ sent' = IF m.local THEN sent \cup {[m EXCEPT !.to = n, !.local = FALSE] : n \in Node}
                          ELSE sent
    /\ UNCHANGED <<mgr, made, chain, height, seen>>

(* Wait, called by doPBFT with a minimum of one transaction.               *)
Gather(l) ==
    /\ gather[l] = Idle
    /\ IF pool[l] = {} THEN gather' = [gather EXCEPT ![l] = Waiting]
       ELSE \E batch \in makeArray(pool[l]) : gather' = [gather EXCEPT ![l] = Ready(batch)]
    /\ UNCHANGED <<mgr, made, sent, adding, pool, chain, height, seen>>

(* The context of the round is done.                                       *)
GiveUp(l) ==
    /\ gather[l] # Idle
    /\ gather' = [gather EXCEPT ![l] = Idle]
    /\ UNCHANGED <<mgr, made, sent, adding, pool, chain, height, seen>>

(* doPBFT with a batch: the block is validated on the tree of the leader   *)
(* and confirmed, which it only can be on top of the last block.           *)
Confirm(l) ==
    /\ gather[l].batch # << >>
    /\ height[l] = Len(chain)
    /\ chain' = Append(chain, Validate(height[l], gather[l].batch))
    /\ gather' = [gather EXCEPT ![l] = Idle]
    /\ UNCHANGED <<mgr, made, sent, adding, pool, height, seen>>

(* The block and the tree are stored, by Finalize or CatchUp.              *)
Store(n) ==
    /\ height[n] < Len(chain)
    /\ height[n] - seen[n] < MaxLag
    /\ height' = [height EXCEPT ![n] = @ + 1]
    /\ UNCHANGED <<mgr, made, sent, adding, pool, gather, chain, seen>>

BlockTxs(k) == {r.tx : r \in ToSet(chain[k].results)}

(* watchBlocks: the transactions of the next block leave the pool.         *)
watchBlocks(n) ==
    /\ seen[n] < height[n]
    /\ pool' = [pool EXCEPT ![n] = @ \ BlockTxs(seen[n] + 1)]
    /\ seen' = [seen EXCEPT ![n] = @ + 1]
    /\ UNCHANGED <<mgr, made, sent, adding, gather, chain, height>>

Next ==
    \/ \E c \in Client, n \in Entry : Make(c, n) \/ Sync(c, n)
    \/ \E m \in sent : AddFilters(m) \/ Lose(m)
    \/ \E m \in adding : AddStores(m)
    \/ \E n \in Node : Store(n) \/ watchBlocks(n)
    \/ \E l \in Leader : Gather(l) \/ GiveUp(l) \/ Confirm(l)

Spec == Init /\ [][Next]_vars

(* Fairness: calls return, goroutines run, and a round that is tried again *)
(* and again is not interrupted every time.                                *)
FairSpec ==
    /\ Spec
    /\ WF_vars(\E m \in adding : AddStores(m))
    /\ \A l \in Leader : WF_vars(Gather(l)) /\ SF_vars(Confirm(l))
    /\ \A n \in Node : WF_vars(Store(n)) /\ WF_vars(watchBlocks(n))
-----------------------------------------------------------------------------
(* Properties.                                                             *)

(* The transactions that are executed for an identity have the nonces 0,   *)
(* 1, 2, ... in the order of the chain: none is skipped and none executed  *)
(* twice, whatever pools, gossip and clients do (validateTx); and nobody   *)
(* handles a block that is not there (TypeOK).                             *)
ExecutedInOrder ==
    /\ TypeOK
    /\ \A c \in Client :
         LET all == FlattenSeq([k \in DOMAIN chain |-> chain[k].results])
             own == SelectSeq(all, LAMBDA r : r.tx.from = c /\ r.status # "invalid")
         IN  \A i \in DOMAIN own : own[i].tx.nonce = i - 1

(* A transaction that reaches the pool of the leader is removed from it    *)
(* again, once it is in a block: none is forgotten (Add, Wait, watchBlocks).*)
Processed ==
    \A l \in Leader : \A c \in Client, k \in 0 .. MaxTx - 1 :
       LET Pending == \E t \in pool[l] : t.from = c /\ t.no = k
       IN  Pending ~> ~ Pending /\ \E b \in DOMAIN chain :
                                     \E t \in BlockTxs(b) : t.from = c /\ t.no = k
=============================================================================
