-------------------------- MODULE BlockSyncProofs --------------------------
(***************************************************************************)
(* Proofs about BlockSync, for any number of participants, rounds, blocks  *)
(* and lost messages: the stores stay in order, the lock of the catch up   *)
(* is given back on every path, and an acknowledgement is truthful.        *)
(***************************************************************************)
EXTENDS BlockSync, FiniteSetTheorems, TLAPS

(* The types.                                                              *)
Message == [type : {"ack"}, from : Node] \cup [type : {"request"}, from : Node, index : Nat]

Answer == {"none", "latest", "watch", "signed", "refused", "stored"}

RoundRecord ==
    [leader : Leader, last : Int, open : BOOLEAN, returned : BOOLEAN,
     gaveUp : BOOLEAN, soft : SUBSET Node, hard : SUBSET Node, task : [Node -> Int], back : SUBSET Message,
     cand : Int, final : BOOLEAN, ask : [Node -> Answer], until : [Node -> Nat]]

Pc == {"none", "deaf", "announced", "verified", "waiting", "catching", "done", "failed"}

Handlers == [Node -> [pc : Pc, in : SUBSET Int]]

Types ==
    /\ store \in [Node -> Seq(Nat)] /\ latest \in [Node -> Nat]
    /\ lock \in [Node -> Nat] /\ faults \in Nat
    /\ rounds \in Seq(RoundRecord) /\ streams \in Seq(Handlers)
    /\ Len(streams) = Len(rounds)

LEMMA TypesInit == Init => Types
<1> SUFFICES ASSUME Init PROVE Types
  OBVIOUS
<1>1. PICK h \in Start : store = [n \in Node |-> [i \in 1..h[n] |-> i - 1]]
  BY DEF Init
<1>2. h \in [Node -> Nat]
  BY SyncAssumption
<1>3. \A n \in Node : store[n] \in Seq(Nat)
  <2> SUFFICES ASSUME NEW n \in Node PROVE [i \in 1..h[n] |-> i - 1] \in Seq(Nat)
    BY <1>1
  <2>1. h[n] \in Nat
    BY <1>2
  <2> QED
    BY <2>1
<1>4. store \in [Node -> Seq(Nat)]
  BY <1>1, <1>3
<1>5. latest \in [Node -> Nat]
  <2>1. \A n \in Node : Len(store[n]) \in Nat
    BY <1>3
  <2>2. latest = [n \in Node |-> Len(store[n])]
    BY DEF Init, Size
  <2> QED
    BY <2>1, <2>2
<1> QED
  BY <1>4, <1>5 DEF Init, Types

(* What the update of one round, or of one handler, keeps.                 *)
LEMMA RoundPut ==
  ASSUME NEW s \in Seq(RoundRecord), NEW r \in 1..Len(s), NEW x \in RoundRecord
  PROVE  /\ [s EXCEPT ![r] = x] \in Seq(RoundRecord)
         /\ Len([s EXCEPT ![r] = x]) = Len(s)
  OBVIOUS

(* The steps of a leader change one round.                                 *)
LEMMA RoundStep ==
  ASSUME Types, NEW r \in Round, NEW x \in RoundRecord, rounds' = [rounds EXCEPT ![r] = x]
  PROVE  /\ rounds' \in Seq(RoundRecord) /\ Len(rounds') = Len(rounds)
         /\ rounds'[r] = x /\ \A q \in Round : q # r => rounds'[q] = rounds[q]
  BY RoundPut DEF Types, Round

LEMMA RoundType == ASSUME Types, NEW r \in Round PROVE rounds[r] \in RoundRecord
  BY DEF Types, Round

(* One record per way of changing a round.                                 *)
LEMMA PutReceived ==
  ASSUME NEW x \in RoundRecord, NEW back \in SUBSET Message, NEW soft \in SUBSET Node,
         NEW hard \in SUBSET Node, NEW task \in [Node -> Int], NEW returned \in BOOLEAN
  PROVE  [x EXCEPT !.back = back, !.soft = soft, !.hard = hard, !.task = task,
                   !.returned = returned] \in RoundRecord
  BY DEF RoundRecord

LEMMA ReceiveTypes ==
  ASSUME Types, NEW r \in Round, NEW m \in rounds[r].back
  PROVE  Received(r, m) \in RoundRecord
<1> DEFINE task == IF New(r, m) THEN [rounds[r].task EXCEPT ![m.from] = m.index]
                                ELSE rounds[r].task
           ret  == rounds[r].returned \/ Returns(r, m)
<1>2. rounds[r] \in RoundRecord
  BY RoundType
<1>3. m \in Message /\ rounds[r].back \ {m} \in SUBSET Message
  BY <1>2 DEF RoundRecord
<1>4. m.from \in Node /\ (m.type = "request" => m.index \in Nat)
  BY <1>3 DEF Message
<1>5. Soft(r, m) \in SUBSET Node /\ Hard(r, m) \in SUBSET Node
  BY <1>2, <1>4 DEF RoundRecord, Soft, Hard
<1>6. task \in [Node -> Int]
  BY <1>2, <1>4 DEF RoundRecord, New
<1>7. ret \in BOOLEAN
  BY Zenon
<1>8. Received(r, m) = [rounds[r] EXCEPT !.back = rounds[r].back \ {m}, !.soft = Soft(r, m),
                            !.hard = Hard(r, m), !.task = task, !.returned = ret]
  BY Zenon DEF Received
<1> HIDE DEF task, ret
<1>9. [rounds[r] EXCEPT !.back = rounds[r].back \ {m}, !.soft = Soft(r, m),
                        !.hard = Hard(r, m), !.task = task, !.returned = ret] \in RoundRecord
  BY <1>2, <1>3, <1>5, <1>6, <1>7, PutReceived, Zenon
<1> QED
  BY <1>8, <1>9, Zenon

(* What a step may do to the rounds without making an acknowledgement or   *)
(* the return of a Sync untrue: hard and last are kept, no Sync returns,   *)
(* and an acknowledgement that is sent is one of all the blocks announced. *)
RoundsKeep ==
    /\ rounds' \in Seq(RoundRecord) /\ Len(rounds') = Len(rounds)
    /\ \A q \in Round :
         /\ rounds'[q].last = rounds[q].last /\ rounds'[q].hard = rounds[q].hard
         /\ rounds'[q].open /\ rounds'[q].returned => rounds[q].open /\ rounds[q].returned
         /\ \A m \in rounds'[q].back :
              m \in rounds[q].back \/ m.type = "request" \/ Len(store'[m.from]) > rounds[q].last

LEMMA KeepUnchanged == ASSUME Types, rounds' = rounds PROVE RoundsKeep
  BY DEF Types, RoundsKeep, Round

LEMMA KeepOne ==
  ASSUME Types, NEW r \in Round, NEW x \in RoundRecord, rounds' = [rounds EXCEPT ![r] = x],
         x.last = rounds[r].last, x.hard = rounds[r].hard,
         x.open /\ x.returned => rounds[r].open /\ rounds[r].returned,
         \A m \in x.back : m \in rounds[r].back \/ m.type = "request"
                           \/ Len(store'[m.from]) > rounds[r].last
  PROVE  RoundsKeep
<1>1. /\ rounds' \in Seq(RoundRecord) /\ Len(rounds') = Len(rounds)
      /\ rounds'[r] = x /\ \A q \in Round : q # r => rounds'[q] = rounds[q]
  BY RoundStep
<1>2. ASSUME NEW q \in Round
      PROVE  /\ rounds'[q].last = rounds[q].last /\ rounds'[q].hard = rounds[q].hard
             /\ rounds'[q].open /\ rounds'[q].returned => rounds[q].open /\ rounds[q].returned
             /\ \A m \in rounds'[q].back :
                  m \in rounds[q].back \/ m.type = "request"
                  \/ Len(store'[m.from]) > rounds[q].last
  <2>1. CASE q = r
    BY <1>1, <2>1, Zenon
  <2>2. CASE q # r
    BY <1>1, <2>2, Zenon
  <2> QED
    BY <2>1, <2>2
<1> QED
  BY <1>1, <1>2 DEF RoundsKeep

LEMMA SentKeeps ==
  ASSUME Types, NEW r \in Round, NEW msgs \in SUBSET Message, rounds' = Sent(r, msgs),
         \A m \in msgs : m.type = "request" \/ Len(store'[m.from]) > rounds[r].last
  PROVE  RoundsKeep
<1>1. CASE rounds[r].open
  <2> DEFINE x == [rounds[r] EXCEPT !.back = rounds[r].back \cup msgs]
  <2>1. rounds[r] \in RoundRecord
    BY RoundType
  <2>2. x \in RoundRecord
    BY <2>1 DEF RoundRecord
  <2>3. rounds' = [rounds EXCEPT ![r] = x]
    BY <1>1 DEF Sent
  <2>4. x.last = rounds[r].last /\ x.hard = rounds[r].hard /\ x.open = rounds[r].open
        /\ x.returned = rounds[r].returned /\ x.back = rounds[r].back \cup msgs
    BY <2>1 DEF RoundRecord
  <2> HIDE DEF x
  <2> QED
    BY <2>2, <2>3, <2>4, KeepOne
<1>2. CASE ~ rounds[r].open
  BY <1>2, KeepUnchanged DEF Sent
<1> QED
  BY <1>1, <1>2

LEMMA AckKeeps ==
  ASSUME Types, NEW r \in Round, NEW n \in Node, NEW msgs \in SUBSET Message, ack(r, n, msgs),
         \A m \in msgs : m.type = "request", Len(store'[n]) > rounds[r].last
  PROVE  RoundsKeep
<1> DEFINE a == [type |-> "ack", from |-> n]
<1>1. a \in Message /\ a.from = n
  BY DEF Message
<1>2. CASE rounds' = Sent(r, msgs \cup {a})
  <2>1. msgs \cup {a} \in SUBSET Message
    BY <1>1
  <2>2. \A m \in msgs \cup {a} : m.type = "request" \/ Len(store'[m.from]) > rounds[r].last
    BY <1>1
  <2> HIDE DEF a
  <2> QED
    BY <1>2, <2>1, <2>2, SentKeeps
<1>3. CASE rounds' = Sent(r, msgs)
  BY <1>3, SentKeeps
<1> QED
  BY <1>2, <1>3 DEF ack

(* The lock, as an inductive invariant.                                    *)
LockInv == LockHeld /\ \A n \in Node : lock[n] =< Len(rounds)

StoresGrow ==
    \/ store' = store
    \/ \E n \in Node : store' = [store EXCEPT ![n] = Append(@, Len(store[n]))]

StepOK == Types' /\ LockInv' /\ StoresGrow /\ RoundsKeep

Puts(r, n, y) == streams' = [streams EXCEPT ![r][n] = y]

LEMMA HandlerStep ==
  ASSUME Types, NEW r \in Round, NEW n \in Node, NEW y \in [pc : Pc, in : SUBSET Int],
         Puts(r, n, y)
  PROVE  /\ streams' \in Seq(Handlers) /\ Len(streams') = Len(streams)
         /\ streams'[r][n] = y
         /\ \A q \in Round, m \in Node : q # r \/ m # n => streams'[q][m] = streams[q][m]
<1>1. streams \in Seq(Handlers) /\ Round = 1..Len(streams)
  BY DEF Types, Round
<1>2. streams[r] \in Handlers
  BY <1>1
<1>3. [streams[r] EXCEPT ![n] = y] \in Handlers
  BY <1>2 DEF Handlers
<1>4. streams' = [streams EXCEPT ![r] = [streams[r] EXCEPT ![n] = y]]
  BY DEF Puts
<1>5. \A q \in Round : streams[q] \in Handlers
  BY <1>1
<1> QED
  BY <1>1, <1>3, <1>4, <1>5 DEF Handlers

LEMMA HandlerType ==
  ASSUME Types, NEW r \in Round, NEW n \in Node
  PROVE  streams[r][n] \in [pc : Pc, in : SUBSET Int]
  BY DEF Types, Round, Handlers

(* A step of the leader only: rounds and, when a block is stored, stores.  *)
LEMMA LeaderStep ==
  ASSUME Types, LockInv, RoundsKeep, lock' = lock, streams' = streams, latest' = latest,
         faults' \in Nat, store' \in [Node -> Seq(Nat)]
  PROVE  Types' /\ LockInv'
<1>1. Types'
  BY DEF Types, RoundsKeep
<1>2. LockInv'
  BY DEF LockInv, LockHeld, Round, RoundsKeep
<1> QED
  BY <1>1, <1>2

(* A handler that goes on without the lock.                                *)
LEMMA HandlerGoes ==
  ASSUME Types, LockInv, RoundsKeep, NEW r \in Round, NEW n \in Node,
         NEW y \in [pc : Pc, in : SUBSET Int], Puts(r, n, y),
         (y.pc = "catching") <=> (streams[r][n].pc = "catching"),
         lock' = lock, latest' \in [Node -> Nat], faults' \in Nat, store' \in [Node -> Seq(Nat)]
  PROVE  Types' /\ LockInv'
<1>1. /\ streams' \in Seq(Handlers) /\ Len(streams') = Len(streams)
      /\ streams'[r][n] = y
      /\ \A q \in Round, m \in Node : q # r \/ m # n => streams'[q][m] = streams[q][m]
  BY HandlerStep
<1>2. Types'
  BY <1>1 DEF Types, RoundsKeep
<1>3. Round' = Round /\ Len(rounds') = Len(rounds)
  BY DEF RoundsKeep, Round
<1>4. LockHeld'
  <2> SUFFICES ASSUME NEW q \in Round, NEW m \in Node
               PROVE  (lock'[m] = q) <=> (streams'[q][m].pc = "catching")
    BY <1>3, Zenon DEF LockHeld
  <2>1. (lock[m] = q) <=> (streams[q][m].pc = "catching")
    BY Zenon DEF LockInv, LockHeld
  <2>2. CASE q = r /\ m = n
    BY <1>1, <2>1, <2>2
  <2>3. CASE q # r \/ m # n
    BY <1>1, <2>1, <2>3
  <2> QED
    BY <2>2, <2>3
<1> QED
  BY <1>2, <1>3, <1>4 DEF LockInv

(* The lock is taken, and given back.                                      *)
LEMMA HandlerLocks ==
  ASSUME Types, LockInv, RoundsKeep, NEW r \in Round, NEW n \in Node,
         NEW y \in [pc : Pc, in : SUBSET Int], Puts(r, n, y),
         y.pc = "catching", lock[n] = 0, lock' = [lock EXCEPT ![n] = r],
         latest' \in [Node -> Nat], faults' \in Nat, store' \in [Node -> Seq(Nat)]
  PROVE  Types' /\ LockInv'
<1>1. /\ streams' \in Seq(Handlers) /\ Len(streams') = Len(streams)
      /\ streams'[r][n] = y
      /\ \A q \in Round, m \in Node : q # r \/ m # n => streams'[q][m] = streams[q][m]
  BY HandlerStep
<1>2. lock' \in [Node -> Nat] /\ r \in Nat /\ r =< Len(rounds) /\ r # 0
  BY DEF Types, Round
<1>3. Types'
  BY <1>1, <1>2 DEF Types, RoundsKeep
<1>4. Round' = Round /\ Len(rounds') = Len(rounds)
  BY DEF RoundsKeep, Round
<1>5. \A q \in Round : q # 0
  BY DEF Round
<1>6. LockHeld'
  <2> SUFFICES ASSUME NEW q \in Round, NEW m \in Node
               PROVE  (lock'[m] = q) <=> (streams'[q][m].pc = "catching")
    BY <1>4, Zenon DEF LockHeld
  <2>1. (lock[m] = q) <=> (streams[q][m].pc = "catching")
    BY Zenon DEF LockInv, LockHeld
  <2>2. CASE q = r /\ m = n
    BY <1>1, <1>2, <2>2 DEF Types
  <2>3. CASE q # r /\ m = n
    BY <1>1, <1>5, <2>1, <2>3 DEF Types
  <2>4. CASE m # n
    BY <1>1, <2>1, <2>4 DEF Types
  <2> QED
    BY <2>2, <2>3, <2>4
<1>7. \A m \in Node : lock'[m] =< Len(rounds')
  BY <1>2, <1>4 DEF LockInv, Types
<1> QED
  BY <1>3, <1>6, <1>7 DEF LockInv

LEMMA HandlerUnlocks ==
  ASSUME Types, LockInv, RoundsKeep, NEW r \in Round, NEW n \in Node,
         NEW y \in [pc : Pc, in : SUBSET Int], Puts(r, n, y),
         y.pc # "catching", lock' = Unlock(r, n),
         latest' \in [Node -> Nat], faults' \in Nat, store' \in [Node -> Seq(Nat)]
  PROVE  Types' /\ LockInv'
<1>1. /\ streams' \in Seq(Handlers) /\ Len(streams') = Len(streams)
      /\ streams'[r][n] = y
      /\ \A q \in Round, m \in Node : q # r \/ m # n => streams'[q][m] = streams[q][m]
  BY HandlerStep
<1>2. lock' \in [Node -> Nat]
  BY DEF Types, Unlock
<1>3. Types'
  BY <1>1, <1>2 DEF Types, RoundsKeep
<1>4. Round' = Round /\ Len(rounds') = Len(rounds)
  BY DEF RoundsKeep, Round
<1>5. \A q \in Round : q # 0
  BY DEF Round
<1>6. LockHeld'
  <2> SUFFICES ASSUME NEW q \in Round, NEW m \in Node
               PROVE  (lock'[m] = q) <=> (streams'[q][m].pc = "catching")
    BY <1>4, Zenon DEF LockHeld
  <2>1. (lock[m] = q) <=> (streams[q][m].pc = "catching")
    BY Zenon DEF LockInv, LockHeld
  <2>2. CASE q = r /\ m = n
    BY <1>1, <1>5, <2>2 DEF Types, Unlock
  <2>3. CASE q # r /\ m = n
    BY <1>1, <1>5, <2>1, <2>3 DEF Types, Unlock
  <2>4. CASE m # n
    BY <1>1, <2>1, <2>4 DEF Types, Unlock
  <2> QED
    BY <2>2, <2>3, <2>4
<1>7. \A m \in Node : lock'[m] =< Len(rounds')
  BY <1>2, <1>4 DEF LockInv, Types, Unlock
<1> QED
  BY <1>3, <1>6, <1>7 DEF LockInv
-----------------------------------------------------------------------------
(* One lemma per action: each is a StepOK, except Sync and Receive, which   *)
(* add a round and change who is hard.                                     *)
LEMMA GoesPuts ==
  ASSUME NEW r, NEW n, NEW pc \in Pc, Goes(r, n, pc)
  PROVE  /\ [pc |-> pc, in |-> {}] \in [pc : Pc, in : SUBSET Int]
         /\ Puts(r, n, [pc |-> pc, in |-> {}])
  BY DEF Goes, Puts

LEMMA TaskKeeps ==
  ASSUME Types, NEW r \in Round, NEW n \in Node, NEW v \in Int,
         rounds' = [rounds EXCEPT ![r].task[n] = v]
  PROVE  RoundsKeep
<1> DEFINE x == [rounds[r] EXCEPT !.task = [rounds[r].task EXCEPT ![n] = v]]
<1>1. rounds[r] \in RoundRecord
  BY RoundType
<1>2. x \in RoundRecord
  BY <1>1 DEF RoundRecord
<1>3. rounds' = [rounds EXCEPT ![r] = x]
  OBVIOUS
<1>4. x.last = rounds[r].last /\ x.hard = rounds[r].hard /\ x.open = rounds[r].open
      /\ x.returned = rounds[r].returned /\ x.back = rounds[r].back
  BY <1>1 DEF RoundRecord
<1> HIDE DEF x
<1> QED
  BY <1>2, <1>3, <1>4, KeepOne

LEMMA AskKeeps ==
  ASSUME Types, NEW r \in Round, NEW n \in Node, NEW v \in Answer,
         rounds' = [rounds EXCEPT ![r].ask[n] = v]
  PROVE  RoundsKeep
<1> DEFINE x == [rounds[r] EXCEPT !.ask = [rounds[r].ask EXCEPT ![n] = v]]
<1>1. rounds[r] \in RoundRecord
  BY RoundType
<1>2. x \in RoundRecord
  BY <1>1 DEF RoundRecord
<1>3. rounds' = [rounds EXCEPT ![r] = x]
  OBVIOUS
<1>4. x.last = rounds[r].last /\ x.hard = rounds[r].hard /\ x.open = rounds[r].open
      /\ x.returned = rounds[r].returned /\ x.back = rounds[r].back
  BY <1>1 DEF RoundRecord
<1> HIDE DEF x
<1> QED
  BY <1>2, <1>3, <1>4, KeepOne

LEMMA TaskType ==
  ASSUME Types, NEW r \in Round, NEW n \in Node PROVE rounds[r].task[n] \in Int
  BY RoundType DEF RoundRecord

LEMMA SyncNodeOK ==
  ASSUME Types, LockInv, NEW r \in Round, NEW n \in Node, syncNode(r, n)
  PROVE  StepOK
<1> DEFINE i == rounds[r].task[n]
<1>1. i \in Int /\ i + 1 \in Int /\ None \in Int
  BY TaskType DEF None
<1>2. store' = store /\ latest' = latest /\ lock' = lock
  BY DEF syncNode
<1>3. store' \in [Node -> Seq(Nat)] /\ latest' \in [Node -> Nat] /\ StoresGrow
  BY <1>2 DEF Types, StoresGrow
<1>4. RoundsKeep
  <2>1. rounds' = [rounds EXCEPT ![r].task[n] = i + 1] \/ rounds' = [rounds EXCEPT ![r].task[n] = None]
    BY DEF syncNode
  <2> HIDE DEF i
  <2> QED
    BY <1>1, <2>1, TaskKeeps
<1>5. faults' \in Nat
  BY DEF syncNode, Types
<1>6. CASE streams' = streams
  BY <1>2, <1>3, <1>4, <1>5, <1>6, LeaderStep DEF StepOK
<1>7. CASE streams' = [streams EXCEPT ![r][n].in = IF streams[r][n].pc = "catching" THEN @ \cup {i} ELSE @]
  <2> DEFINE y == [streams[r][n] EXCEPT !.in = IF streams[r][n].pc = "catching" THEN @ \cup {i} ELSE @]
  <2>1. streams[r][n] \in [pc : Pc, in : SUBSET Int]
    BY HandlerType
  <2>2. y \in [pc : Pc, in : SUBSET Int] /\ y.pc = streams[r][n].pc
    BY <1>1, <2>1
  <2>3. Puts(r, n, y)
    BY <1>7 DEF Puts
  <2> HIDE DEF y
  <2> QED
    BY <1>2, <1>3, <1>4, <1>5, <2>2, <2>3, HandlerGoes DEF StepOK
<1> QED
  BY <1>6, <1>7 DEF syncNode

LEMMA StreamOK ==
  ASSUME Types, LockInv, NEW r \in Round, NEW n \in Node, Stream(r, n)
  PROVE  StepOK
<1> DEFINE pc == IF VerifyChain(r, n) THEN "verified" ELSE "failed"
           y  == [pc |-> pc, in |-> {}]
<1>1. pc \in Pc /\ pc # "catching" /\ streams[r][n].pc # "catching"
  BY DEF Stream, Pc
<1>2. Goes(r, n, pc)
  BY DEF Stream
<1> HIDE DEF pc
<1>3. y \in [pc : Pc, in : SUBSET Int] /\ Puts(r, n, y) /\ y.pc = pc
  BY <1>1, <1>2, GoesPuts
<1> HIDE DEF y
<1>4. store' = store /\ latest' = latest /\ lock' = lock /\ rounds' = rounds /\ faults' = faults
  BY DEF Stream
<1>5. store' \in [Node -> Seq(Nat)] /\ latest' \in [Node -> Nat] /\ faults' \in Nat /\ StoresGrow
  BY <1>4 DEF Types, StoresGrow
<1>6. RoundsKeep
  BY <1>4, KeepUnchanged
<1> QED
  BY <1>1, <1>3, <1>4, <1>5, <1>6, HandlerGoes DEF StepOK

LEMMA AckFaults ==
  ASSUME Types, NEW r, NEW n, NEW msgs, ack(r, n, msgs) PROVE faults' \in Nat
  BY DEF ack, Types

LEMMA CompareOK ==
  ASSUME Types, LockInv, NEW r \in Round, NEW n \in Node, Compare(r, n)
  PROVE  StepOK
<1>1. streams[r][n].pc # "catching"
  BY DEF Compare
<1>2. store' = store /\ latest' = latest /\ lock' = lock
  BY DEF Compare
<1>3. store' \in [Node -> Seq(Nat)] /\ latest' \in [Node -> Nat] /\ StoresGrow
  BY <1>2 DEF Types, StoresGrow
<1>4. RoundsKeep /\ faults' \in Nat
  <2>1. CASE rounds[r].last < Size(n)
    <3>1. ack(r, n, {})
      BY <2>1 DEF Compare
    <3>2. Len(store'[n]) > rounds[r].last
      BY <1>2, <2>1, RoundType DEF Size, Types, RoundRecord
    <3> QED
      BY <3>1, <3>2, AckKeeps, AckFaults
  <2>2. CASE ~ (rounds[r].last < Size(n))
    <3>1. rounds' = rounds /\ faults' = faults
      BY <2>2 DEF Compare
    <3> QED
      BY <3>1, KeepUnchanged DEF Types
  <2> QED
    BY <2>1, <2>2
<1>5. ASSUME NEW pc \in Pc, pc # "catching", Goes(r, n, pc) PROVE StepOK
  <2> DEFINE y == [pc |-> pc, in |-> {}]
  <2>1. y \in [pc : Pc, in : SUBSET Int] /\ Puts(r, n, y) /\ y.pc = pc
    BY <1>5, GoesPuts
  <2> HIDE DEF y
  <2> QED
    BY <1>1, <1>2, <1>3, <1>4, <1>5, <2>1, HandlerGoes DEF StepOK
<1>6. Goes(r, n, "done") \/ Goes(r, n, "waiting")
  BY DEF Compare
<1>7. "done" \in Pc /\ "waiting" \in Pc
  BY DEF Pc
<1> QED
  BY <1>5, <1>6, <1>7

LEMMA RequestOK ==
  ASSUME Types, LockInv, NEW r \in Round, NEW n \in Node, Request(r, n)
  PROVE  StepOK
<1> DEFINE m == [type |-> "request", from |-> n, index |-> Size(n)]
           y(pc) == [pc |-> pc, in |-> {}]
<1>1. /\ streams[r][n].pc # "catching" /\ lock[n] = 0 /\ store' = store
      /\ latest' = [latest EXCEPT ![n] = Max2(@, rounds[r].last)]
  BY DEF Request
<1>2. Size(n) \in Nat /\ rounds[r].last \in Int
  BY RoundType DEF Size, Types, RoundRecord
<1>3. store' \in [Node -> Seq(Nat)] /\ latest' \in [Node -> Nat] /\ StoresGrow
  <2>1. Max2(latest[n], rounds[r].last) \in Nat
    BY <1>2 DEF Max2, Types
  <2> QED
    BY <1>1, <2>1 DEF Types, StoresGrow
<1>4. {m} \in SUBSET Message /\ m.type = "request"
  BY <1>2 DEF Message
<1>5. CASE Goes(r, n, "catching") /\ lock' = [lock EXCEPT ![n] = r] /\ rounds' = Sent(r, {m})
           /\ faults' = faults
  <2>1. RoundsKeep /\ faults' \in Nat
    <3> HIDE DEF m
    <3> QED
      BY <1>4, <1>5, SentKeeps DEF Types
  <2>2. "catching" \in Pc
    BY DEF Pc
  <2>3. y("catching") \in [pc : Pc, in : SUBSET Int] /\ Puts(r, n, y("catching"))
        /\ y("catching").pc = "catching"
    BY <1>5, <2>2, GoesPuts
  <2> HIDE DEF y
  <2> QED
    BY <1>1, <1>3, <1>5, <2>1, <2>3, HandlerLocks DEF StepOK
<1>6. CASE Size(n) > rounds[r].last /\ Goes(r, n, "done") /\ lock' = lock /\ ack(r, n, {m})
  <2>1. RoundsKeep /\ faults' \in Nat
    <3>1. Len(store'[n]) > rounds[r].last
      BY <1>1, <1>6 DEF Size
    <3> HIDE DEF m
    <3> QED
      BY <1>4, <1>6, <3>1, AckKeeps, AckFaults
  <2>2. "done" \in Pc
    BY DEF Pc
  <2>3. y("done") \in [pc : Pc, in : SUBSET Int] /\ Puts(r, n, y("done")) /\ y("done").pc = "done"
    BY <1>6, <2>2, GoesPuts
  <2> HIDE DEF y
  <2> QED
    BY <1>1, <1>3, <1>6, <2>1, <2>3, HandlerGoes DEF StepOK
<1>7. CASE faults' = faults + 1 /\ Goes(r, n, "failed") /\ lock' = lock /\ rounds' = rounds
  <2>1. RoundsKeep /\ faults' \in Nat
    BY <1>7, KeepUnchanged DEF Types
  <2>2. "failed" \in Pc
    BY DEF Pc
  <2>3. y("failed") \in [pc : Pc, in : SUBSET Int] /\ Puts(r, n, y("failed"))
        /\ y("failed").pc = "failed"
    BY <1>7, <2>2, GoesPuts
  <2> HIDE DEF y
  <2> QED
    BY <1>1, <1>3, <1>7, <2>1, <2>3, HandlerGoes DEF StepOK
<1> QED
  BY <1>5, <1>6, <1>7, Zenon DEF Request

LEMMA Stored ==
  ASSUME Types, NEW n \in Node, store' = [store EXCEPT ![n] = Append(@, Len(store[n]))]
  PROVE  store' \in [Node -> Seq(Nat)] /\ StoresGrow /\ Len(store'[n]) = Len(store[n]) + 1
<1>1. store[n] \in Seq(Nat) /\ Len(store[n]) \in Nat
  BY DEF Types
<1>2. Append(store[n], Len(store[n])) \in Seq(Nat)
      /\ Len(Append(store[n], Len(store[n]))) = Len(store[n]) + 1
  BY <1>1
<1> QED
  BY <1>2 DEF Types, StoresGrow

LEMMA CatchUpOK ==
  ASSUME Types, LockInv, NEW r \in Round, NEW n \in Node, CatchUp(r, n)
  PROVE  StepOK
<1> PICK i \in streams[r][n].in :
      LET next == \A j \in streams[r][n].in : i =< j
          over == CaughtUp(r, Size(n) + 1)
          pc   == IF ~ Accepts(n, i) THEN "failed" ELSE IF over THEN "done" ELSE "catching"
      IN  /\ streams' = [streams EXCEPT ![r][n] = [pc |-> pc, in |-> IF pc = "catching" THEN @.in \ {i} ELSE {}]]
          /\ store' = IF Accepts(n, i) THEN [store EXCEPT ![n] = Append(@, i)] ELSE store
          /\ lock' = IF pc = "catching" THEN lock ELSE Unlock(r, n)
          /\ \/ next /\ pc = "done" /\ ack(r, n, {})
             \/ next /\ pc # "done" /\ UNCHANGED <<rounds, faults>>
             \/ ~ next /\ pc # "done" /\ UNCHANGED rounds
                /\ faults < MaxFaults /\ faults' = faults + 1
  BY Zenon DEF CatchUp
<1> DEFINE pc == IF ~ Accepts(n, i) THEN "failed"
                 ELSE IF CaughtUp(r, Size(n) + 1) THEN "done" ELSE "catching"
           y  == [pc |-> pc, in |-> IF pc = "catching" THEN streams[r][n].in \ {i} ELSE {}]
<1>1. streams[r][n].pc = "catching" /\ latest' = latest
  BY DEF CatchUp
<1>2. Puts(r, n, y)
  BY DEF Puts
<1>3. pc \in Pc /\ (pc = "done" => Accepts(n, i) /\ CaughtUp(r, Size(n) + 1))
  BY DEF Pc
<1>4. \/ pc = "done" /\ ack(r, n, {})
      \/ pc # "done" /\ rounds' = rounds /\ (faults' = faults \/ faults' = faults + 1)
  BY Zenon
<1>5. lock' = IF pc = "catching" THEN lock ELSE Unlock(r, n)
  BY Zenon
<1>6. store' = IF Accepts(n, i) THEN [store EXCEPT ![n] = Append(@, i)] ELSE store
  BY Zenon
<1> HIDE DEF pc
<1>7. /\ store' \in [Node -> Seq(Nat)] /\ StoresGrow
      /\ Accepts(n, i) => Len(store'[n]) = Size(n) + 1
  <2>1. CASE Accepts(n, i)
    <3>1. store' = [store EXCEPT ![n] = Append(@, Len(store[n]))]
      BY <1>6, <2>1 DEF Accepts, Size
    <3> QED
      BY <3>1, Stored DEF Size
  <2>2. CASE ~ Accepts(n, i)
    BY <1>6, <2>2 DEF Types, StoresGrow
  <2> QED
    BY <2>1, <2>2
<1>8. RoundsKeep /\ faults' \in Nat
  <2>1. CASE pc = "done" /\ ack(r, n, {})
    <3>1. Len(store'[n]) > rounds[r].last
      BY <1>3, <1>7, <2>1 DEF CaughtUp
    <3> QED
      BY <2>1, <3>1, AckKeeps, AckFaults
  <2>2. CASE rounds' = rounds /\ (faults' = faults \/ faults' = faults + 1)
    BY <2>2, KeepUnchanged DEF Types
  <2> QED
    BY <1>4, <2>1, <2>2
<1>9. y \in [pc : Pc, in : SUBSET Int] /\ y.pc = pc
  BY <1>3, HandlerType
<1>10. latest' \in [Node -> Nat]
  BY <1>1 DEF Types
<1> HIDE DEF y
<1>11. CASE pc = "catching"
  BY <1>1, <1>2, <1>5, <1>7, <1>8, <1>9, <1>10, <1>11, HandlerGoes DEF StepOK
<1>12. CASE pc # "catching"
  BY <1>2, <1>5, <1>7, <1>8, <1>9, <1>10, <1>12, HandlerUnlocks DEF StepOK
<1> QED
  BY <1>11, <1>12

LEMMA StreamClosedOK ==
  ASSUME Types, LockInv, NEW r \in Round, NEW n \in Node, StreamClosed(r, n)
  PROVE  StepOK
<1> DEFINE y == [pc |-> "failed", in |-> {}]
<1>1. "failed" \in Pc /\ Goes(r, n, "failed")
  BY DEF StreamClosed, Pc
<1>2. y \in [pc : Pc, in : SUBSET Int] /\ Puts(r, n, y) /\ y.pc = "failed"
  BY <1>1, GoesPuts
<1> HIDE DEF y
<1>3. store' = store /\ latest' = latest /\ lock' = Unlock(r, n) /\ rounds' = rounds /\ faults' = faults
  BY DEF StreamClosed
<1>4. store' \in [Node -> Seq(Nat)] /\ latest' \in [Node -> Nat] /\ faults' \in Nat /\ StoresGrow
  BY <1>3 DEF Types, StoresGrow
<1>5. RoundsKeep
  BY <1>3, KeepUnchanged
<1> QED
  BY <1>2, <1>3, <1>4, <1>5, HandlerUnlocks DEF StepOK

(* The steps that only change a round, and keep the stores.                *)
LEMMA RoundOnly ==
  ASSUME Types, LockInv, RoundsKeep, UNCHANGED <<store, latest, lock, streams, faults>>
  PROVE  StepOK
<1>1. store' \in [Node -> Seq(Nat)] /\ faults' \in Nat /\ StoresGrow
  BY DEF Types, StoresGrow
<1> QED
  BY <1>1, LeaderStep DEF StepOK

LEMMA ProposeOK ==
  ASSUME Types, LockInv, NEW r \in Round, Propose(r) PROVE StepOK
<1> DEFINE c == Size(rounds[r].leader)
           a == [n \in Node |-> "latest"]
           x == [rounds[r] EXCEPT !.cand = c, !.ask = a]
<1>1. rounds[r] \in RoundRecord
  BY RoundType
<1>2. c \in Int /\ a \in [Node -> Answer]
  BY <1>1, SyncAssumption DEF RoundRecord, Size, Types, Answer
<1>3. rounds' = [rounds EXCEPT ![r] = x]
  BY DEF Propose
<1> HIDE DEF c, a
<1>4. x \in RoundRecord /\ x.last = rounds[r].last /\ x.hard = rounds[r].hard
      /\ x.open = rounds[r].open /\ x.returned = rounds[r].returned /\ x.back = rounds[r].back
  BY <1>1, <1>2 DEF RoundRecord
<1> HIDE DEF x
<1>5. RoundsKeep
  BY <1>3, <1>4, KeepOne
<1> QED
  BY <1>5, RoundOnly DEF Propose

LEMMA ReceiveFailsOK ==
  ASSUME Types, LockInv, NEW r \in Round, ReceiveFails(r) PROVE StepOK
<1> DEFINE x == [rounds[r] EXCEPT !.gaveUp = TRUE]
<1>1. rounds[r] \in RoundRecord
  BY RoundType
<1>2. rounds' = [rounds EXCEPT ![r] = x]
  BY DEF ReceiveFails
<1>3. x \in RoundRecord /\ x.last = rounds[r].last /\ x.hard = rounds[r].hard
      /\ x.open = rounds[r].open /\ x.returned = rounds[r].returned /\ x.back = rounds[r].back
  BY <1>1 DEF RoundRecord
<1> HIDE DEF x
<1>4. RoundsKeep
  BY <1>2, <1>3, KeepOne
<1>5. faults' \in Nat /\ UNCHANGED <<store, latest, lock, streams>>
  BY DEF ReceiveFails, Types
<1>6. store' \in [Node -> Seq(Nat)] /\ StoresGrow
  BY <1>5 DEF Types, StoresGrow
<1> QED
  BY <1>4, <1>5, <1>6, LeaderStep DEF StepOK

LEMMA InvokeOK ==
  ASSUME Types, LockInv, NEW r \in Round, NEW n \in Node, Invoke(r, n) PROVE StepOK
<1> DEFINE v == IF latest[n] > Size(n) THEN "watch" ELSE Prepare(r, n)
           a == [rounds[r].ask EXCEPT ![n] = v]
           u == [rounds[r].until EXCEPT ![n] = latest[n]]
           x == [rounds[r] EXCEPT !.ask = a, !.until = u]
<1>1. rounds[r] \in RoundRecord
  BY RoundType
<1>2. v \in Answer
  BY DEF Prepare, Answer
<1>3. rounds' = [rounds EXCEPT ![r] = x]
  BY DEF Invoke
<1> HIDE DEF v
<1>4. a \in [Node -> Answer] /\ u \in [Node -> Nat]
  BY <1>1, <1>2 DEF RoundRecord, Types
<1> HIDE DEF a, u
<1>5. x \in RoundRecord /\ x.last = rounds[r].last /\ x.hard = rounds[r].hard
      /\ x.open = rounds[r].open /\ x.returned = rounds[r].returned /\ x.back = rounds[r].back
  BY <1>1, <1>4 DEF RoundRecord
<1> HIDE DEF x
<1>6. RoundsKeep
  BY <1>3, <1>5, KeepOne
<1> QED
  BY <1>6, RoundOnly DEF Invoke

LEMMA InvokeWatchedOK ==
  ASSUME Types, LockInv, NEW r \in Round, NEW n \in Node, InvokeWatched(r, n) PROVE StepOK
<1>1. Prepare(r, n) \in Answer
  BY DEF Prepare, Answer
<1>2. RoundsKeep
  BY <1>1, AskKeeps DEF InvokeWatched
<1> QED
  BY <1>2, RoundOnly DEF InvokeWatched

LEMMA FinalizeOK ==
  ASSUME Types, LockInv, NEW r \in Round, Finalize(r) PROVE StepOK
<1> DEFINE x == [rounds[r] EXCEPT !.final = TRUE]
<1>1. rounds[r] \in RoundRecord
  BY RoundType
<1>2. rounds' = [rounds EXCEPT ![r] = x]
  BY DEF Finalize
<1>3. x \in RoundRecord /\ x.last = rounds[r].last /\ x.hard = rounds[r].hard
      /\ x.open = rounds[r].open /\ x.returned = rounds[r].returned /\ x.back = rounds[r].back
  BY <1>1 DEF RoundRecord
<1> HIDE DEF x
<1>4. RoundsKeep
  BY <1>2, <1>3, KeepOne
<1> QED
  BY <1>4, RoundOnly DEF Finalize

LEMMA StoreOK ==
  ASSUME Types, LockInv, NEW r \in Round, NEW n \in Node, Store(r, n) PROVE StepOK
<1>1. RoundsKeep
  <2>1. "stored" \in Answer
    BY DEF Answer
  <2> QED
    BY <2>1, AskKeeps DEF Store
<1>2. store' \in [Node -> Seq(Nat)] /\ StoresGrow
  <2>1. CASE Size(n) = rounds[r].cand
    <3>1. store' = [store EXCEPT ![n] = Append(@, Len(store[n]))]
      BY <2>1 DEF Store, Size
    <3> QED
      BY <3>1, Stored
  <2>2. CASE Size(n) # rounds[r].cand
    BY <2>2 DEF Store, Types, StoresGrow
  <2> QED
    BY <2>1, <2>2
<1>3. faults' \in Nat
  BY DEF Store, Types
<1> QED
  BY <1>1, <1>2, <1>3, LeaderStep DEF Store, StepOK

LEMMA RoundEndsOK ==
  ASSUME Types, LockInv, NEW r \in Round, RoundEnds(r) PROVE StepOK
<1> DEFINE t == [n \in Node |-> None]
           a == IF rounds[r].final THEN rounds[r].ask ELSE [n \in Node |-> "none"]
           x == [rounds[r] EXCEPT !.open = FALSE, !.returned = TRUE, !.back = {}, !.task = t, !.ask = a]
<1>1. rounds[r] \in RoundRecord
  BY RoundType
<1>2. t \in [Node -> Int] /\ a \in [Node -> Answer]
  BY <1>1 DEF RoundRecord, None, Answer
<1>3. rounds' = [rounds EXCEPT ![r] = x]
  BY Zenon DEF RoundEnds
<1> HIDE DEF t, a
<1>4. x \in RoundRecord /\ x.last = rounds[r].last /\ x.hard = rounds[r].hard /\ ~ x.open /\ x.back = {}
  BY <1>1, <1>2 DEF RoundRecord
<1> HIDE DEF x
<1>5. RoundsKeep
  BY <1>3, <1>4, KeepOne
<1> QED
  BY <1>5, RoundOnly DEF RoundEnds

-----------------------------------------------------------------------------
(* The acknowledgements, on the way and counted, as an inductive           *)
(* invariant: what HardHolds says of a set of participants is said here of *)
(* the ones that Sync counts, and of the ones that it will count.          *)
Truthful(rs, st) ==
    \A r \in 1..Len(rs) :
      /\ \A n \in rs[r].hard : Len(st[n]) > rs[r].last
      /\ \A m \in rs[r].back : m.type = "ack" => Len(st[m.from]) > rs[r].last
      /\ (rs[r].open /\ rs[r].returned /\ rs[r].last >= 0) => Cardinality(rs[r].hard) >= MinHard

HardInv == Truthful(rounds, store)

LEMMA StoresGrowLen ==
  ASSUME Types, StoresGrow, NEW n \in Node
  PROVE  Len(store'[n]) \in Nat /\ Len(store[n]) \in Nat /\ Len(store'[n]) >= Len(store[n])
<1>1. \A m \in Node : store[m] \in Seq(Nat) /\ Len(store[m]) \in Nat
  BY DEF Types
<1>2. CASE store' = store
  BY <1>1, <1>2
<1>3. ASSUME NEW m \in Node, store' = [store EXCEPT ![m] = Append(@, Len(store[m]))]
      PROVE  Len(store'[n]) \in Nat /\ Len(store'[n]) >= Len(store[n])
  <2>1. Len(Append(store[m], Len(store[m]))) = Len(store[m]) + 1
    BY <1>1
  <2>2. CASE m = n
    BY <1>1, <1>3, <2>1, <2>2 DEF Types
  <2>3. CASE m # n
    BY <1>1, <1>3, <2>3 DEF Types
  <2> QED
    BY <2>2, <2>3
<1> QED
  BY <1>1, <1>2, <1>3 DEF StoresGrow

LEMMA StepHard ==
  ASSUME Types, HardInv, StepOK PROVE HardInv'
<1>1. RoundsKeep /\ StoresGrow /\ rounds' \in Seq(RoundRecord) /\ Len(rounds') = Len(rounds)
  BY DEF StepOK, RoundsKeep
<1> SUFFICES ASSUME NEW q \in Round
             PROVE  /\ \A n \in rounds'[q].hard : Len(store'[n]) > rounds'[q].last
                    /\ \A m \in rounds'[q].back : m.type = "ack" => Len(store'[m.from]) > rounds'[q].last
                    /\ (rounds'[q].open /\ rounds'[q].returned /\ rounds'[q].last >= 0)
                         => Cardinality(rounds'[q].hard) >= MinHard
  BY <1>1 DEF HardInv, Truthful, Round
<1>2. rounds[q] \in RoundRecord
  BY RoundType
<1>3. rounds[q].hard \subseteq Node /\ rounds[q].back \subseteq Message /\ rounds[q].last \in Int
  BY <1>2 DEF RoundRecord
<1>4. /\ rounds'[q].last = rounds[q].last /\ rounds'[q].hard = rounds[q].hard
      /\ rounds'[q].open /\ rounds'[q].returned => rounds[q].open /\ rounds[q].returned
      /\ \A m \in rounds'[q].back :
           m \in rounds[q].back \/ m.type = "request" \/ Len(store'[m.from]) > rounds[q].last
  BY <1>1 DEF RoundsKeep
<1>5. /\ \A n \in rounds[q].hard : Len(store[n]) > rounds[q].last
      /\ \A m \in rounds[q].back : m.type = "ack" => Len(store[m.from]) > rounds[q].last
      /\ (rounds[q].open /\ rounds[q].returned /\ rounds[q].last >= 0)
           => Cardinality(rounds[q].hard) >= MinHard
  BY DEF HardInv, Truthful, Round
<1>6. \A n \in Node : Len(store'[n]) \in Nat /\ Len(store[n]) \in Nat /\ Len(store'[n]) >= Len(store[n])
  BY <1>1, StoresGrowLen
<1>7. \A n \in rounds'[q].hard : Len(store'[n]) > rounds'[q].last
  BY <1>3, <1>4, <1>5, <1>6
<1>8. ASSUME NEW m \in rounds'[q].back, m.type = "ack" PROVE Len(store'[m.from]) > rounds'[q].last
  <2>1. CASE m \in rounds[q].back
    <3>1. m.from \in Node
      BY <1>3, <2>1 DEF Message
    <3> QED
      BY <1>3, <1>4, <1>5, <1>6, <1>8, <2>1, <3>1
  <2>2. CASE Len(store'[m.from]) > rounds[q].last
    BY <1>4, <2>2
  <2> QED
    BY <1>4, <1>8, <2>1, <2>2
<1> QED
  BY <1>4, <1>5, <1>7, <1>8

LEMMA ReceiveOK ==
  ASSUME Types, LockInv, HardInv, NEW r \in Round, Receive(r)
  PROVE  Types' /\ LockInv' /\ StoresGrow /\ HardInv'
<1> PICK m \in rounds[r].back : rounds' = [rounds EXCEPT ![r] = Received(r, m)]
  BY DEF Receive
<1> DEFINE z == Received(r, m)
<1>1. rounds[r] \in RoundRecord /\ z \in RoundRecord
  BY RoundType, ReceiveTypes
<1>2. /\ z.last = rounds[r].last /\ z.hard = Hard(r, m) /\ z.back = rounds[r].back \ {m}
      /\ z.open = rounds[r].open /\ z.returned = (rounds[r].returned \/ Returns(r, m))
  <2> DEFINE task == IF New(r, m) THEN [rounds[r].task EXCEPT ![m.from] = m.index]
                                  ELSE rounds[r].task
             ret == rounds[r].returned \/ Returns(r, m)
  <2>1. z = [rounds[r] EXCEPT !.back = rounds[r].back \ {m}, !.soft = Soft(r, m),
                              !.hard = Hard(r, m), !.task = task, !.returned = ret]
    BY Zenon DEF Received
  <2> HIDE DEF task, ret, z
  <2>2. z.returned = ret /\ z.last = rounds[r].last /\ z.hard = Hard(r, m)
        /\ z.back = rounds[r].back \ {m} /\ z.open = rounds[r].open
    BY <1>1, <2>1 DEF RoundRecord
  <2> QED
    BY <2>2, Zenon DEF ret
<1>3. UNCHANGED <<store, latest, lock, streams, faults>> /\ StoresGrow
  BY DEF Receive, StoresGrow
<1> HIDE DEF z
<1>4. /\ rounds' \in Seq(RoundRecord) /\ Len(rounds') = Len(rounds)
      /\ rounds'[r] = z /\ \A q \in Round : q # r => rounds'[q] = rounds[q]
  BY <1>1, RoundStep DEF z
<1>5. Types'
  BY <1>3, <1>4 DEF Types
<1>6. LockInv'
  BY <1>3, <1>4 DEF LockInv, LockHeld, Round
<1>7. /\ \A n \in rounds[r].hard : Len(store[n]) > rounds[r].last
      /\ \A k \in rounds[r].back : k.type = "ack" => Len(store[k.from]) > rounds[r].last
      /\ (rounds[r].open /\ rounds[r].returned /\ rounds[r].last >= 0)
           => Cardinality(rounds[r].hard) >= MinHard
  BY DEF HardInv, Truthful, Round
<1>8. \A n \in Hard(r, m) : Len(store[n]) > rounds[r].last
  BY <1>7 DEF Hard
<1>9. (rounds[r].open /\ (rounds[r].returned \/ Returns(r, m)) /\ rounds[r].last >= 0)
        => Cardinality(Hard(r, m)) >= MinHard
  <2>1. m \in Message /\ rounds[r].hard \subseteq Node
    BY <1>1 DEF RoundRecord
  <2>2. m.from \in Node
    BY <2>1 DEF Message
  <2>3. rounds[r].hard \subseteq Hard(r, m) /\ Hard(r, m) \subseteq Node
    BY <2>1, <2>2 DEF Hard
  <2>4. IsFiniteSet(Hard(r, m)) /\ IsFiniteSet(rounds[r].hard)
    BY <2>3, SyncAssumption, FS_Subset
  <2>5. /\ Cardinality(rounds[r].hard) =< Cardinality(Hard(r, m))
        /\ Cardinality(rounds[r].hard) \in Nat /\ Cardinality(Hard(r, m)) \in Nat
    BY <2>3, <2>4, FS_Subset, FS_CardinalityType
  <2>6. Returns(r, m) => Cardinality(Hard(r, m)) >= MinHard
    BY DEF Returns
  <2>7. MinHard \in Int
    BY SyncAssumption
  <2> QED
    BY <1>7, <2>5, <2>6, <2>7
<1>10. HardInv'
  <2> SUFFICES ASSUME NEW q \in Round
               PROVE  /\ \A n \in rounds'[q].hard : Len(store[n]) > rounds'[q].last
                      /\ \A k \in rounds'[q].back : k.type = "ack" => Len(store[k.from]) > rounds'[q].last
                      /\ (rounds'[q].open /\ rounds'[q].returned /\ rounds'[q].last >= 0)
                           => Cardinality(rounds'[q].hard) >= MinHard
    BY <1>3, <1>4 DEF HardInv, Truthful, Round
  <2>1. CASE q = r
    BY <1>2, <1>4, <1>7, <1>8, <1>9, <2>1
  <2>2. CASE q # r
    <3>1. rounds'[q] = rounds[q]
      BY <1>4, <2>2
    <3> QED
      BY <3>1 DEF HardInv, Truthful, Round
  <2> QED
    BY <2>1, <2>2
<1> QED
  BY <1>3, <1>5, <1>6, <1>10

LEMMA SyncOK ==
  ASSUME Types, LockInv, HardInv, NEW l \in Leader, NEW reached \in SUBSET Node, Sync(l, reached)
  PROVE  Types' /\ LockInv' /\ StoresGrow /\ HardInv'
<1> DEFINE empty == Size(l) = 0
           miss == IF empty THEN {} ELSE Node \ reached
           t == [n \in Node |-> None]
           a == [n \in Node |-> "none"]
           u == [n \in Node |-> 0]
           x == [leader |-> l, last |-> Size(l) - 1, open |-> TRUE, returned |-> empty,
                 gaveUp |-> FALSE, soft |-> {}, hard |-> {}, task |-> t, back |-> {},
                 cand |-> None, final |-> FALSE, ask |-> a, until |-> u]
           h == [n \in Node |->
                  [pc |-> IF empty THEN "none" ELSE IF n \in miss THEN "deaf" ELSE "announced",
                   in |-> {}]]
<1>1. rounds' = Append(rounds, x) /\ streams' = Append(streams, h)
  BY Zenon DEF Sync
<1>2. faults' = faults + Cardinality(miss) /\ UNCHANGED <<store, latest, lock>>
  BY Zenon DEF Sync
<1>3. Size(l) \in Nat
  BY SyncAssumption DEF Size, Types
<1>4. t \in [Node -> Int] /\ a \in [Node -> Answer] /\ u \in [Node -> Nat] /\ None \in Int
  BY DEF None, Answer
<1>5. empty \in BOOLEAN
  BY Zenon
<1>6. h \in Handlers /\ \A n \in Node : h[n].pc # "catching"
  BY DEF Handlers, Pc
<1>7. faults' \in Nat
  <2>1. IsFiniteSet(miss)
    BY SyncAssumption, FS_Subset, FS_EmptySet
  <2>2. Cardinality(miss) \in Nat
    BY <2>1, FS_CardinalityType
  <2> QED
    BY <1>2, <2>2 DEF Types
<1>8. empty => Size(l) - 1 < 0
  BY <1>3
<1> HIDE DEF empty, t, a, u, h
<1>9. x \in RoundRecord
  BY <1>3, <1>4, <1>5 DEF RoundRecord
<1>10. x.hard = {} /\ x.back = {} /\ (x.returned => x.last < 0) /\ x.last \in Int
  BY <1>3, <1>8
<1> HIDE DEF x
<1>11. /\ rounds' \in Seq(RoundRecord) /\ Len(rounds') = Len(rounds) + 1
       /\ rounds'[Len(rounds) + 1] = x /\ \A q \in Round : rounds'[q] = rounds[q]
  BY <1>1, <1>9 DEF Types, Round
<1>12. /\ streams' \in Seq(Handlers) /\ Len(streams') = Len(rounds) + 1
       /\ streams'[Len(rounds) + 1] = h /\ \A q \in Round : streams'[q] = streams[q]
  BY <1>1, <1>6 DEF Types, Round
<1>13. Round' = Round \cup {Len(rounds) + 1} /\ Len(rounds) \in Nat
  BY <1>11 DEF Types, Round
<1>14. Types' /\ StoresGrow
  BY <1>2, <1>7, <1>11, <1>12 DEF Types, StoresGrow
<1>15. LockInv'
  <2>1. \A n \in Node : lock'[n] \in Nat /\ lock'[n] =< Len(rounds) /\ lock'[n] = lock[n]
    BY <1>2 DEF LockInv, Types
  <2>2. \A n \in Node : lock'[n] =< Len(rounds')
    BY <1>11, <1>13, <2>1
  <2>3. ASSUME NEW q \in Round', NEW n \in Node
        PROVE  (lock'[n] = q) <=> (streams'[q][n].pc = "catching")
    <3>1. CASE q \in Round
      BY <1>12, <2>1, <3>1 DEF LockInv, LockHeld
    <3>2. CASE q = Len(rounds) + 1
      BY <1>6, <1>12, <1>13, <2>1, <3>2
    <3> QED
      BY <1>13, <3>1, <3>2
  <2> QED
    BY <2>2, <2>3, Zenon DEF LockInv, LockHeld
<1>16. HardInv'
  <2> SUFFICES ASSUME NEW q \in Round'
               PROVE  /\ \A n \in rounds'[q].hard : Len(store[n]) > rounds'[q].last
                      /\ \A k \in rounds'[q].back : k.type = "ack" => Len(store[k.from]) > rounds'[q].last
                      /\ (rounds'[q].open /\ rounds'[q].returned /\ rounds'[q].last >= 0)
                           => Cardinality(rounds'[q].hard) >= MinHard
    BY <1>2 DEF HardInv, Truthful, Round
  <2>1. CASE q \in Round
    <3>1. rounds'[q] = rounds[q]
      BY <1>11, <2>1
    <3> QED
      BY <2>1, <3>1 DEF HardInv, Truthful, Round
  <2>2. CASE q = Len(rounds) + 1
    BY <1>10, <1>11, <2>2
  <2> QED
    BY <1>13, <2>1, <2>2
<1> QED
  BY <1>14, <1>15, <1>16
-----------------------------------------------------------------------------
IInv == Types /\ LockInv /\ HardInv /\ StoresPrefix

LEMMA InitIInv == Init => IInv
<1> SUFFICES ASSUME Init PROVE IInv
  OBVIOUS
<1>1. Types
  BY TypesInit
<1>2. Round = {} /\ Len(rounds) = 0
  BY DEF Init, Round
<1>3. LockInv
  BY <1>2 DEF Init, LockInv, LockHeld
<1>4. HardInv
  BY <1>2 DEF HardInv, Truthful
<1>5. StoresPrefix
  <2>1. PICK h \in Start : store = [n \in Node |-> [i \in 1..h[n] |-> i - 1]]
    BY DEF Init
  <2> QED
    BY <2>1 DEF StoresPrefix
<1> QED
  BY <1>1, <1>3, <1>4, <1>5 DEF IInv

LEMMA GrowPrefix == ASSUME Types, StoresPrefix, StoresGrow PROVE StoresPrefix'
<1>1. CASE store' = store
  BY <1>1 DEF StoresPrefix
<1>2. ASSUME NEW m \in Node, store' = [store EXCEPT ![m] = Append(@, Len(store[m]))]
      PROVE  StoresPrefix'
  <2> SUFFICES ASSUME NEW n \in Node, NEW i \in DOMAIN store'[n] PROVE store'[n][i] = i - 1
    BY DEF StoresPrefix
  <2>1. store[n] \in Seq(Nat) /\ \A j \in 1..Len(store[n]) : store[n][j] = j - 1
    BY DEF Types, StoresPrefix
  <2>2. CASE n = m
    <3>1. store'[n] = Append(store[n], Len(store[n]))
      BY <1>2, <2>2 DEF Types
    <3>2. i \in 1..(Len(store[n]) + 1) /\ Len(store[n]) \in Nat
      BY <2>1, <3>1
    <3>3. CASE i = Len(store[n]) + 1
      BY <2>1, <3>1, <3>2, <3>3
    <3>4. CASE i \in 1..Len(store[n])
      BY <2>1, <3>1, <3>4
    <3> QED
      BY <3>2, <3>3, <3>4
  <2>3. CASE n # m
    BY <1>2, <2>3 DEF Types, StoresPrefix
  <2> QED
    BY <2>2, <2>3
<1> QED
  BY <1>1, <1>2 DEF StoresGrow

LEMMA NextIInv == IInv /\ [Next]_vars => IInv'
<1> SUFFICES ASSUME Types, LockInv, HardInv, StoresPrefix, [Next]_vars PROVE IInv'
  BY Zenon DEF IInv
<1>1. ASSUME StepOK PROVE IInv'
  BY <1>1, StepHard, GrowPrefix DEF StepOK, IInv
<1>2. ASSUME NEW l \in Leader, NEW reached \in SUBSET Node, Sync(l, reached) PROVE IInv'
  BY <1>2, SyncOK, GrowPrefix DEF IInv
<1>3. ASSUME NEW r \in Round, Receive(r) PROVE IInv'
  BY <1>3, ReceiveOK, GrowPrefix DEF IInv
<1>4. ASSUME NEW r \in Round, ReceiveFails(r) \/ Propose(r) \/ Finalize(r) \/ RoundEnds(r)
      PROVE  StepOK
  BY <1>4, ReceiveFailsOK, ProposeOK, FinalizeOK, RoundEndsOK
<1>5. ASSUME NEW r \in Round, NEW n \in Node, Handler(r, n) PROVE StepOK
  <2>1. CASE syncNode(r, n) \/ Stream(r, n) \/ Compare(r, n)
    BY <2>1, SyncNodeOK, StreamOK, CompareOK
  <2>2. CASE Request(r, n) \/ CatchUp(r, n) \/ StreamClosed(r, n)
    BY <2>2, RequestOK, CatchUpOK, StreamClosedOK
  <2>3. CASE Invoke(r, n) \/ InvokeWatched(r, n) \/ Store(r, n)
    BY <2>3, InvokeOK, InvokeWatchedOK, StoreOK
  <2> QED
    BY <1>5, <2>1, <2>2, <2>3, Zenon DEF Handler
<1>6. CASE UNCHANGED vars
  BY <1>6 DEF vars, IInv, Types, LockInv, LockHeld, HardInv, Truthful, StoresPrefix, Round
<1> QED
  BY <1>1, <1>2, <1>3, <1>4, <1>5, <1>6, Zenon DEF Next

LEMMA AlwaysIInv == Spec => []IInv
  BY InitIInv, NextIInv, PTL DEF Spec

(* No request repeated, block overtaken, round that ends in the middle of a  *)
(* catch up or block stored beside it puts a block at a place that is not    *)
(* its index: the check of the index in CatchUp and in the propagation is    *)
(* enough, although neither holds the lock of the other.                     *)
THEOREM StoresInOrder == Spec => []StoresPrefix
<1>1. IInv => StoresPrefix
  BY Zenon DEF IInv
<1> QED
  BY <1>1, AlwaysIInv, PTL

(* catchUpLock is held by a stream that catches up and by no other: every    *)
(* path through the handler, the failed ones and the end of the round        *)
(* included, gives it back.                                                  *)
THEOREM LockOfCatchingUp == Spec => []LockHeld
<1>1. IInv => LockHeld
  BY Zenon DEF IInv, LockInv
<1> QED
  BY <1>1, AlwaysIInv, PTL

(* A Sync that returns in time tells the truth: MinHard participants hold    *)
(* all the blocks announced. It needs that an acknowledgement is true when   *)
(* it is sent, on the three paths that send one, and that stores never       *)
(* shrink while it travels.                                                  *)
THEOREM HardAcksHold == Spec => []HardHolds
<1>1. IInv => HardHolds
  <2> SUFFICES ASSUME Types, HardInv, NEW r \in Round
               PROVE  /\ \A n \in rounds[r].hard : Size(n) > rounds[r].last
                      /\ (rounds[r].open /\ rounds[r].returned /\ rounds[r].last >= 0) =>
                           Cardinality({n \in Node : Size(n) > rounds[r].last}) >= MinHard
    BY Zenon DEF IInv, HardHolds
  <2> DEFINE H == {n \in Node : Size(n) > rounds[r].last}
  <2>1. \A n \in rounds[r].hard : Size(n) > rounds[r].last
    BY DEF HardInv, Truthful, Round, Size
  <2>2. rounds[r].hard \subseteq Node
    BY RoundType DEF RoundRecord
  <2>3. rounds[r].hard \subseteq H /\ H \subseteq Node
    BY <2>1, <2>2
  <2>4. IsFiniteSet(H) /\ IsFiniteSet(rounds[r].hard)
    BY <2>2, <2>3, SyncAssumption, FS_Subset
  <2>5. /\ Cardinality(rounds[r].hard) =< Cardinality(H)
        /\ Cardinality(rounds[r].hard) \in Nat /\ Cardinality(H) \in Nat
    BY <2>3, <2>4, FS_Subset, FS_CardinalityType
  <2>6. (rounds[r].open /\ rounds[r].returned /\ rounds[r].last >= 0)
          => Cardinality(rounds[r].hard) >= MinHard
    BY DEF HardInv, Truthful, Round
  <2>7. MinHard \in Int
    BY SyncAssumption
  <2> QED
    BY <2>1, <2>5, <2>6, <2>7
<1> QED
  BY <1>1, AlwaysIInv, PTL
=============================================================================
