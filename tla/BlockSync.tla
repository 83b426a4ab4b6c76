------------------------------ MODULE BlockSync ------------------------------
(***************************************************************************)
(* The synchronisation that a leader starts before every block when the    *)
(* service is made with WithBlockSync (core/ordering/cosipbft/blocksync):   *)
(* Sync of the leader, the Stream handler of the participants, and what     *)
(* runs beside them, which is Invoke on the candidate block (proc.go) and   *)
(* the end of the round.                                                   *)
(*                                                                         *)
(* The participants agree on one block per index (BlockLog), so a block is  *)
(* its index and a store is the sequence of the indices that it holds.      *)
(***************************************************************************)
EXTENDS Integers, FiniteSets, Sequences, SequencesExt

CONSTANTS
    Node,       \* participants
    Leader,     \* those that lead at some time
    MinHard,    \* Config.MinHard, which is also the quorum of a block
    Stuck,      \* participants that committed to a block that is never final
    Start,      \* bound: lengths of the stores at the beginning
    MaxBlocks,  \* bound: blocks of the chain
    MaxSync,    \* bound: rounds
    MaxFaults   \* bound: messages that are lost, late or overtaken

ASSUME SyncAssumption ==
    /\ IsFiniteSet(Node) /\ Leader \subseteq Node /\ Stuck \subseteq Node
    /\ MinHard \in 1..Cardinality(Node)
    /\ Start \subseteq [Node -> Nat] /\ MaxBlocks \in Nat /\ MaxSync \in Nat /\ MaxFaults \in Nat

VARIABLES
    store,    \* blocks of each participant
    latest,   \* defaultSync.latest
    lock,     \* catchUpLock: the round whose stream holds it, or 0
    rounds,   \* the rounds, each with its Sync and its candidate: Sync has
              \* returned with its acknowledgements, or gaveUp without them
    streams,  \* the Stream handlers of each round
    faults    \* number of messages lost, late or overtaken so far

vars == <<store, latest, lock, rounds, streams, faults>>

None == -1
Size(n) == Len(store[n])
Max2(a, b) == IF a > b THEN a ELSE b
Round == 1..Len(rounds)
Open(r) == r \in Round /\ rounds[r].open

Init ==
    /\ \E h \in Start : store = [n \in Node |-> [i \in 1..h[n] |-> i - 1]]
    /\ latest = [n \in Node |-> Size(n)]
    /\ lock = [n \in Node |-> 0]
    /\ rounds = << >> /\ streams = << >> /\ faults = 0
-----------------------------------------------------------------------------
(* The handler of the participant n for the round r moves to pc.           *)
Goes(r, n, pc) == streams' = [streams EXCEPT ![r][n] = [pc |-> pc, in |-> {}]]

Unlock(r, n) == IF lock[n] = r THEN [lock EXCEPT ![n] = 0] ELSE lock

(* Sender.Send of messages to the leader of the round r.                   *)
Sent(r, msgs) == IF rounds[r].open THEN [rounds EXCEPT ![r].back = @ \cup msgs] ELSE rounds

(* Sync: the streams are open and the chain is announced, which does not   *)
(* reach everyone. With an empty store there is nothing to do.             *)
Sync(l, reached) ==
    /\ Len(rounds) < MaxSync
    /\ \A r \in Round : rounds[r].leader = l => ~ rounds[r].open
    /\ LET empty == Size(l) = 0
           miss  == IF empty THEN {} ELSE Node \ reached
       IN  /\ empty => reached = Node
           /\ faults + Cardinality(miss) =< MaxFaults
           /\ faults' = faults + Cardinality(miss)
           /\ rounds' = Append(rounds,
                [leader |-> l, last |-> Size(l) - 1, open |-> TRUE, returned |-> empty,
                 gaveUp |-> FALSE, soft |-> {}, hard |-> {}, task |-> [n \in Node |-> None], back |-> {},
                 cand |-> None, final |-> FALSE, ask |-> [n \in Node |-> "none"],
                 until |-> [n \in Node |-> 0]])
           /\ streams' = Append(streams, [n \in Node |->
                [pc |-> IF empty THEN "none" ELSE IF n \in miss THEN "deaf" ELSE "announced",
                 in |-> {}]])
    /\ UNCHANGED <<store, latest, lock>>

(* A message of either kind shows that the sender knows the latest index.  *)
Soft(r, m) == rounds[r].soft \cup {m.from}

(* The receiving loop of Sync: a request starts a syncNode, and enough     *)
(* acknowledgements let Sync return. A duplicate skips that test.          *)
New(r, m) == m.type = "request" /\ m.from \notin rounds[r].soft

Hard(r, m) == IF m.type = "ack" THEN rounds[r].hard \cup {m.from} ELSE rounds[r].hard

Returns(r, m) == (New(r, m) \/ m.type = "ack") /\ Cardinality(Hard(r, m)) >= MinHard

Received(r, m) ==
    [rounds[r] EXCEPT
       !.back = @ \ {m},
       !.soft = Soft(r, m),
       !.hard = Hard(r, m),
       !.task = IF New(r, m) THEN [@ EXCEPT ![m.from] = m.index] ELSE @,
       !.returned = @ \/ Returns(r, m)]

Receive(r) ==
    /\ rounds[r].open /\ ~ rounds[r].gaveUp
    /\ \E m \in rounds[r].back : rounds' = [rounds EXCEPT ![r] = Received(r, m)]
    /\ UNCHANGED <<store, latest, lock, streams, faults>>

(* Recv returns an error that is not the one of the context, for a message *)
(* that it cannot read: the loop ends, and Sync returns without an error   *)
(* whatever acknowledgements it has.                                       *)
ReceiveFails(r) ==
    /\ rounds[r].open /\ ~ rounds[r].gaveUp /\ rounds[r].last >= 0
    /\ faults < MaxFaults /\ faults' = faults + 1
    /\ rounds' = [rounds EXCEPT ![r].gaveUp = TRUE]
    /\ UNCHANGED <<store, latest, lock, streams>>

(* Variant: the last block is not sent.                                    *)
ToSendButLast(r) == Size(rounds[r].leader) - 1

(* The test of the loop of syncNode: the store is read again each time.    *)
ToSend(r) == Size(rounds[r].leader)

(* One turn of syncNode: the next block is sent, or the loop is over.      *)
syncNode(r, n) ==
    LET i == rounds[r].task[n] IN
    /\ i # None
    /\ \/ /\ i < ToSend(r)
          /\ streams' = [streams EXCEPT ![r][n].in = IF streams[r][n].pc = "catching" THEN @ \cup {i} ELSE @]
          /\ rounds' = [rounds EXCEPT ![r].task[n] = i + 1]
          /\ UNCHANGED faults
       \/ /\ i < ToSend(r) /\ faults < MaxFaults
          /\ faults' = faults + 1
          /\ rounds' = [rounds EXCEPT ![r].task[n] = None]
          /\ UNCHANGED streams
       \/ /\ i >= ToSend(r)
          /\ rounds' = [rounds EXCEPT ![r].task[n] = None]
          /\ UNCHANGED <<streams, faults>>
    /\ UNCHANGED <<store, latest, lock>>
-----------------------------------------------------------------------------
(* Chain.Verify from the link before the last block of the participant: a  *)
(* chain that does not have this link is refused.                          *)
VerifyChain(r, n) == Size(n) =< rounds[r].last + 1

Stream(r, n) ==
    /\ streams[r][n].pc = "announced"
    /\ Goes(r, n, IF VerifyChain(r, n) THEN "verified" ELSE "failed")
    /\ UNCHANGED <<store, latest, lock, rounds, faults>>

(* ack: the handler ends, with an error when it cannot send.               *)
ack(r, n, msgs) ==
    \/ /\ rounds' = Sent(r, msgs \cup {[type |-> "ack", from |-> n]})
       /\ UNCHANGED faults
    \/ /\ faults < MaxFaults /\ faults' = faults + 1
       /\ rounds' = Sent(r, msgs)

(* The participant has all the blocks, or has to catch up.                 *)
Compare(r, n) ==
    /\ streams[r][n].pc = "verified"
    /\ IF rounds[r].last < Size(n)
       THEN Goes(r, n, "done") /\ ack(r, n, {})
       ELSE Goes(r, n, "waiting") /\ UNCHANGED <<rounds, faults>>
    /\ UNCHANGED <<store, latest, lock>>

(* The lock is taken, the latest index updated and the blocks requested.   *)
(* Blocks that were stored in the meantime can make the loop empty.        *)
Request(r, n) ==
    LET request == [type |-> "request", from |-> n, index |-> Size(n)] IN
    /\ streams[r][n].pc = "waiting" /\ lock[n] = 0
    /\ latest' = [latest EXCEPT ![n] = Max2(@, rounds[r].last)]
    /\ \/ /\ Size(n) =< rounds[r].last
          /\ Goes(r, n, "catching") /\ lock' = [lock EXCEPT ![n] = r]
          /\ rounds' = Sent(r, {request})
          /\ UNCHANGED faults
       \/ /\ Size(n) > rounds[r].last
          /\ Goes(r, n, "done") /\ UNCHANGED lock
          /\ ack(r, n, {request})
       \/ /\ faults < MaxFaults /\ faults' = faults + 1
          /\ Goes(r, n, "failed") /\ UNCHANGED <<lock, rounds>>
    /\ UNCHANGED store

(* Variant: the index of the block is not verified.                        *)
AcceptsAny(n, i) == n \notin Stuck

(* pbftsm.CatchUp: the block has to be the next one, and the participant   *)
(* not committed to another one.                                           *)
Accepts(n, i) == i = Size(n) /\ n \notin Stuck

(* Variant: the loop ends one block too early.                             *)
CaughtUpEarly(r, size) == size >= rounds[r].last

(* The test of the loop of the handler.                                    *)
CaughtUp(r, size) == size > rounds[r].last

(* One turn of the loop: a block arrives and is caught up. The queue of    *)
(* the receiver may let it overtake others.                                *)
CatchUp(r, n) ==
    /\ streams[r][n].pc = "catching"
    /\ \E i \in streams[r][n].in :
         LET next == \A j \in streams[r][n].in : i =< j
             over == CaughtUp(r, Size(n) + 1)
             pc   == IF ~ Accepts(n, i) THEN "failed" ELSE IF over THEN "done" ELSE "catching"
         IN  /\ streams' = [streams EXCEPT ![r][n] = [pc |-> pc, in |-> IF pc = "catching" THEN @.in \ {i} ELSE {}]]
             /\ store' = IF Accepts(n, i) THEN [store EXCEPT ![n] = Append(@, i)] ELSE store
             /\ lock' = IF pc = "catching" THEN lock ELSE Unlock(r, n)
             /\ \/ next /\ pc = "done" /\ ack(r, n, {})
                \/ next /\ pc # "done" /\ UNCHANGED <<rounds, faults>>
                \/ ~ next /\ pc # "done" /\ UNCHANGED rounds
                   /\ faults < MaxFaults /\ faults' = faults + 1
    /\ UNCHANGED latest

(* Variant: the error of the receiver leaves the lock taken.               *)
StreamClosedLocked(r, n) ==
    /\ ~ rounds[r].open /\ streams[r][n].pc \in {"deaf", "catching"}
    /\ Goes(r, n, "failed")
    /\ UNCHANGED <<store, latest, lock, rounds, faults>>

(* The receiver of a handler returns an error when the stream is closed.   *)
StreamClosed(r, n) ==
    /\ ~ rounds[r].open /\ streams[r][n].pc \in {"deaf", "catching"}
    /\ Goes(r, n, "failed") /\ lock' = Unlock(r, n)
    /\ UNCHANGED <<store, latest, rounds, faults>>
-----------------------------------------------------------------------------
(* doPBFT of the leader: the candidate block is sent for signature.        *)
Propose(r) ==
    /\ rounds[r].open /\ (rounds[r].returned \/ rounds[r].gaveUp) /\ rounds[r].cand = None
    /\ Size(rounds[r].leader) < MaxBlocks
    /\ rounds' = [rounds EXCEPT ![r] = [@ EXCEPT
         !.cand = Size(rounds[r].leader), !.ask = [n \in Node |-> "latest"]]]
    /\ UNCHANGED <<store, latest, lock, streams, faults>>

Prepare(r, n) == IF rounds[r].cand = Size(n) /\ n \notin Stuck THEN "signed" ELSE "refused"

(* Invoke: the index is read under the lock that a catch up holds, and a   *)
(* participant that is behind waits for its store.                         *)
Invoke(r, n) ==
    /\ rounds[r].ask[n] = "latest" /\ lock[n] = 0
    /\ rounds' = [rounds EXCEPT ![r] = [@ EXCEPT
         !.ask[n] = IF latest[n] > Size(n) THEN "watch" ELSE Prepare(r, n),
         !.until[n] = latest[n]]]
    /\ UNCHANGED <<store, latest, lock, streams, faults>>

InvokeWatched(r, n) ==
    /\ rounds[r].ask[n] = "watch" /\ Size(n) > rounds[r].until[n]
    /\ rounds' = [rounds EXCEPT ![r].ask[n] = Prepare(r, n)]
    /\ UNCHANGED <<store, latest, lock, streams, faults>>

(* The block has its signatures. Only the next one of the chain can get    *)
(* them, and one candidate for it (BlockLog).                              *)
Finalize(r) ==
    /\ rounds[r].open /\ ~ rounds[r].final
    /\ Cardinality({n \in Node : rounds[r].ask[n] = "signed"}) >= MinHard
    /\ \A q \in Round : rounds[q].final => rounds[q].cand # rounds[r].cand
    /\ \A n \in Node : Size(n) =< rounds[r].cand
    /\ rounds' = [rounds EXCEPT ![r].final = TRUE]
    /\ UNCHANGED <<store, latest, lock, streams, faults>>

(* The propagation of the block reaches a participant that signed it. To   *)
(* arrive after the round is a fault: it can make a catch up fail.         *)
Store(r, n) ==
    /\ rounds[r].final /\ rounds[r].ask[n] = "signed"
    /\ faults' = IF rounds[r].open THEN faults ELSE faults + 1
    /\ faults' =< MaxFaults
    /\ rounds' = [rounds EXCEPT ![r].ask[n] = "stored"]
    /\ store' = IF Size(n) = rounds[r].cand
                THEN [store EXCEPT ![n] = Append(@, rounds[r].cand)] ELSE store
    /\ UNCHANGED <<latest, lock, streams>>

(* The round is over or its timeout expires: a Sync that waits returns,    *)
(* and the streams are closed. What it did not receive is dropped, the     *)
(* Send of each syncNode fails, and the signatures are of no use unless    *)
(* the block is final.                                                     *)
RoundEnds(r) ==
    /\ rounds[r].open
    /\ rounds' = [rounds EXCEPT ![r] = [@ EXCEPT
         !.open = FALSE, !.returned = TRUE, !.back = {},
         !.task = [n \in Node |-> None],
         !.ask = IF rounds[r].final THEN rounds[r].ask ELSE [n \in Node |-> "none"]]]
    /\ UNCHANGED <<store, latest, lock, streams, faults>>

Handler(r, n) ==
    \/ syncNode(r, n) \/ Stream(r, n) \/ Compare(r, n) \/ Request(r, n)
    \/ CatchUp(r, n) \/ StreamClosed(r, n)
    \/ Invoke(r, n) \/ InvokeWatched(r, n) \/ Store(r, n)

Next ==
    \/ \E l \in Leader, reached \in SUBSET Node : Sync(l, reached)
    \/ \E r \in Round :
         \/ Receive(r) \/ ReceiveFails(r) \/ Propose(r) \/ Finalize(r) \/ RoundEnds(r)
         \/ \E n \in Node : Handler(r, n)

(* Every goroutine goes on. A leader may stop starting rounds, a candidate *)
(* may not be made, and nothing is said of when a round ends.              *)
Fairness ==
    \A r \in 1..MaxSync :
      /\ WF_vars(r \in Round /\ Receive(r))
      /\ \A n \in Node :
           /\ WF_vars(r \in Round /\ syncNode(r, n))
           /\ WF_vars(r \in Round /\ (\/ Stream(r, n) \/ Compare(r, n)
                                     \/ CatchUp(r, n) \/ StreamClosed(r, n)))
           /\ SF_vars(r \in Round /\ Request(r, n))

Spec == Init /\ [][Next]_vars /\ Fairness
-----------------------------------------------------------------------------
(* Whatever is requested twice, delivered out of order or finalised while  *)
(* a catch up is on its way, a store never holds a block at a place that   *)
(* is not its index.                                                       *)
StoresPrefix == \A n \in Node : \A i \in DOMAIN store[n] : store[n][i] = i - 1

(* A Sync that returns before the round ends has MinHard participants that *)
(* hold every block announced: each hard acknowledgement is of one.  A     *)
(* Sync whose receiver failed (gaveUp) returns too and promises nothing.   *)
HardHolds ==
    \A r \in Round :
      /\ \A n \in rounds[r].hard : Size(n) > rounds[r].last
      /\ (rounds[r].open /\ rounds[r].returned /\ rounds[r].last >= 0) =>
           Cardinality({n \in Node : Size(n) > rounds[r].last}) >= MinHard

(* As long as the round lasts and no message is lost or late, every        *)
(* participant gets the blocks announced to it, behind other rounds that   *)
(* hold its lock and although the store of the leader grows meanwhile.     *)
Synchronised ==
    \A r \in 1..MaxSync :
      Open(r) ~> (~ Open(r) \/ faults > 0
                            \/ \A n \in Node \ Stuck : Size(n) > rounds[r].last)

(* The lock that delays GetLatest, hence every Invoke, belongs to a stream *)
(* that is catching up, and no two streams of a participant catch up: no   *)
(* path through the handler keeps it.                                      *)
LockHeld ==
    \A r \in Round, n \in Node : (lock[n] = r) <=> (streams[r][n].pc = "catching")
=============================================================================
