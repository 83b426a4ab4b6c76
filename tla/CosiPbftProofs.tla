--------------------------- MODULE CosiPbftProofs ---------------------------
(* Proofs about CosiPbft, for every roster, every pool, every partition    *)
(* and without the bounds of the model-checking runs.                      *)
EXTENDS CosiPbft, TLAPS, FiniteSetTheorems, SequenceTheorems

(* What typing needs to be inductive: an identifier in use is a block, and *)
(* a leader past its prepare phase holds a signature.                      *)
MachineInUse ==
    \A n \in Node : state[n] \in {PrepareState, CommitState} \/ committed[n]
                    => id[n] # NoDigest
RoundInUse ==
    \A n \in Node : /\ step[n] \in {"prepare", "commit"} => prop[n] # NoDigest
                    /\ step[n] = "commit" => sig[n] # NoSig

TypeInv == TypeOK /\ MachineInUse /\ RoundInUse

-----------------------------------------------------------------------------
(* Facts about sequences and blocks.                                       *)

(* A prefix of a chain is a chain with the same first elements.            *)
LEMMA PrefixFacts ==
    ASSUME NEW c \in Seq(Val), NEW k \in 0 .. Len(c)
    PROVE  /\ SubSeq(c, 1, k) \in Seq(Val)
           /\ Len(SubSeq(c, 1, k)) = k
           /\ \A i \in 1 .. k : SubSeq(c, 1, k)[i] = c[i]
  <1>1. Len(c) \in Nat BY LenProperties
  <1>2. \A i \in 1 .. k : c[i] \in Val BY <1>1, ElementOfSeq
  <1> QED BY <1>1, <1>2, SubSeqProperties

(* A block is its parent chain with one more value.                        *)
LEMMA BlockFacts ==
    ASSUME NEW b \in Block
    PROVE  /\ b \in Seq(Val)
           /\ Len(b) \in Nat \ {0}
           /\ Parent(b) \in Seq(Val)
           /\ Len(Parent(b)) = Len(b) - 1
           /\ b[Len(b)] \in Val
           /\ b = Append(Parent(b), b[Len(b)])
  <1>1. b \in Seq(Val) /\ b # << >> BY DEF Block, NoDigest
  <1>2. Len(b) \in Nat \ {0} BY <1>1, EmptySeq
  <1>3. b[Len(b)] \in Val BY <1>1, <1>2, ElementOfSeq
  <1>4. /\ Parent(b) \in Seq(Val)
        /\ Len(Parent(b)) = Len(b) - 1
        /\ \A i \in 1 .. Len(b) - 1 : Parent(b)[i] = b[i]
    <2>1. Len(b) - 1 \in 0 .. Len(b) BY <1>2
    <2> QED BY <1>1, <2>1, PrefixFacts DEF Parent
  <1>5. b = Append(Parent(b), b[Len(b)])
    <2> DEFINE t == Append(Parent(b), b[Len(b)])
    <2>1. t \in Seq(Val) /\ Len(t) = Len(b) BY <1>2, <1>3, <1>4, AppendProperties
    <2>2. \A i \in 1 .. Len(b) : b[i] = t[i]
      <3>1. \A i \in 1 .. Len(b) - 1 : t[i] = b[i] BY <1>3, <1>4, AppendProperties
      <3>2. t[Len(b)] = b[Len(b)] BY <1>2, <1>3, <1>4, AppendProperties
      <3> HIDE DEF t
      <3> QED BY <1>2, <3>1, <3>2
    <2> QED BY <1>1, <2>1, <2>2, SeqEqual
  <1> QED BY <1>1, <1>2, <1>3, <1>4, <1>5

(* Appending to a chain gives a block whose parent is that chain.          *)
LEMMA AppendFacts ==
    ASSUME NEW c \in Seq(Val), NEW v \in Val
    PROVE  /\ Append(c, v) \in Block
           /\ Len(Append(c, v)) = Len(c) + 1
           /\ Parent(Append(c, v)) = c
  <1>1. Append(c, v) \in Block BY AppendProperties DEF Block, NoDigest
  <1>2. Append(c, v) = Append(Parent(Append(c, v)), Append(c, v)[Len(Append(c, v))])
    BY <1>1, BlockFacts
  <1>3. Parent(Append(c, v)) = c BY <1>1, <1>2, BlockFacts, AppendInjective
  <1> QED BY <1>1, <1>3, AppendProperties
-----------------------------------------------------------------------------
(* Type correctness.                                                       *)

LEMMA TypeInit == Init => TypeInv
  <1> SUFFICES ASSUME Init PROVE TypeInv OBVIOUS
  <1>1. 0 \in Node /\ << >> \in Seq(Val)
    BY RosterAssumption, EmptySeq DEF Node
  <1>2. TypeOK
    BY <1>1 DEF Init, TypeOK, MachineOK, RoundOK, NetOK, State, NoneState, NoDigest, NoSig, newRound
  <1>3. MachineInUse /\ RoundInUse
    BY DEF Init, MachineInUse, RoundInUse, newRound, NoneState, PrepareState, CommitState
  <1> QED BY <1>2, <1>3 DEF TypeInv

(* Facts about one participant that every action needs.                    *)
LEMMA TypeFacts ==
    ASSUME TypeInv, NEW n \in Node
    PROVE  /\ initThreshold(n) \in Nat
           /\ initState(n) \in State
           /\ nextLeader(n) \in Node
           /\ calculateThreshold(N) \in Nat
           /\ chain[n] \in Seq(Val)
           /\ Len(chain[n]) \in Nat
  <1>1. calculateThreshold(N) \in Nat
    BY RosterAssumption DEF calculateThreshold
  <1>2. initThreshold(n) \in Nat /\ initState(n) \in State
    BY <1>1 DEF TypeInv, TypeOK, MachineOK, initThreshold, initState, State
  <1>3. nextLeader(n) \in Node
    <2>1. leader[n] \in 0 .. N - 1 BY DEF TypeInv, TypeOK, MachineOK, Node
    <2> QED BY <2>1, RosterAssumption DEF nextLeader, Node
  <1>4. chain[n] \in Seq(Val) BY DEF TypeInv, TypeOK, RoundOK
  <1> QED BY <1>1, <1>2, <1>3, <1>4, LenProperties

(* The operations of the state machine preserve the types of its fields.   *)
LEMMA ViewChangeType ==
    ASSUME TypeInv, NEW n \in Node, NEW st \in State, NEW th \in Nat,
           NEW vs \in SUBSET Node, NEW l \in Node,
           st \in {PrepareState, CommitState} => id[n] # NoDigest,
           checkViewChange(n, st, th, vs, l),
           UNCHANGED <<id, prepareSig, committed, tentative>>
    PROVE  MachineOK' /\ MachineInUse'
  <1> USE DEF TypeInv, TypeOK, MachineOK
  <1>1. CASE st = ViewChangeState /\ Cardinality(vs) > th
    <2>1. /\ threshold' = [threshold EXCEPT ![n] = th]
          /\ prevViews' = [prevViews EXCEPT ![n] = vs]
          /\ views' = [views EXCEPT ![n] = {}]
          /\ leader' = [leader EXCEPT ![n] = l]
          /\ state' = [state EXCEPT ![n] = stateAfterViews(n)]
      BY <1>1 DEF checkViewChange
    <2>2. stateAfterViews(n) \in State
      BY DEF stateAfterViews, State
    <2>3. MachineOK' BY <2>1, <2>2
    <2>4. MachineInUse'
      BY <2>1 DEF MachineInUse, stateAfterViews, State, NoneState, InitialState, PrepareState, CommitState,
       ViewChangeState
    <2> QED BY <2>3, <2>4
  <1>2. CASE ~ (st = ViewChangeState /\ Cardinality(vs) > th)
    <2>1. /\ threshold' = [threshold EXCEPT ![n] = th]
          /\ views' = [views EXCEPT ![n] = vs]
          /\ state' = [state EXCEPT ![n] = st]
          /\ UNCHANGED <<prevViews, leader>>
      BY <1>2 DEF checkViewChange
    <2> QED BY <2>1 DEF MachineInUse
  <1> QED BY <1>1, <1>2

LEMMA InitMachineType ==
    ASSUME TypeInv, NEW n \in Node,
           threshold' = [threshold EXCEPT ![n] = initThreshold(n)],
           state' = [state EXCEPT ![n] = initState(n)],
           UNCHANGED <<leader, views, prevViews, id, prepareSig, committed, tentative>>
    PROVE  MachineOK' /\ MachineInUse'
  <1>1. MachineOK' BY TypeFacts DEF TypeInv, TypeOK, MachineOK
  <1>2. MachineInUse'
    BY DEF TypeInv, TypeOK, MachineOK, MachineInUse, initState,
       State, NoneState, InitialState, PrepareState, CommitState,
       ViewChangeState
  <1> QED BY <1>1, <1>2

LEMMA PrepareType ==
    ASSUME TypeInv, NEW n \in Node, NEW l \in Node, NEW b \in Block,
           Prepare(n, l, b)
    PROVE  /\ MachineOK' /\ MachineInUse'
           /\ PrepareAccepts(n, l, b) => id'[n] \in Block
  <1> USE DEF TypeInv, TypeOK, MachineOK
  <1>0. /\ b \in Seq(Val) /\ b # NoDigest
        /\ calculateThreshold(N) \in Nat
    BY BlockFacts, TypeFacts DEF Block
  <1>1. CASE l # leader[n]
    <2>1. /\ tentative' = [tentative EXCEPT ![n] = [round |-> b, leader |-> l]]
          /\ UNCHANGED <<state, threshold, id, leader, prepareSig, committed, views,
                         prevViews>>
      BY <1>1 DEF Prepare
    <2>2. [round |-> b, leader |-> l] \in [round : Seq(Val), leader : Node] BY <1>0
    <2>3. MachineOK' BY <2>1, <2>2
    <2> QED BY <1>1, <2>1, <2>3 DEF MachineInUse, PrepareAccepts
  <1>2. CASE l = leader[n] /\ state[n] \in {PrepareState, CommitState}
    BY <1>2 DEF MachineInUse, Block, Prepare
  <1>3. CASE l = leader[n] /\ state[n] \notin {PrepareState, CommitState}
    <2>1. /\ threshold' = [threshold EXCEPT ![n] = calculateThreshold(N)]
          /\ id' = [id EXCEPT ![n] = IF verifyPrepare(n, b) THEN b ELSE @]
          /\ state' = [state EXCEPT ![n] = IF verifyPrepare(n, b)
                                           THEN PrepareState ELSE @]
          /\ UNCHANGED <<tentative, leader, prepareSig, committed, views, prevViews>>
      BY <1>3 DEF Prepare
    <2>2. MachineOK' BY <1>0, <2>1 DEF State
    <2>3. MachineInUse' BY <1>0, <2>1 DEF MachineInUse
    <2>4. PrepareAccepts(n, l, b) => id'[n] \in Block
      BY <1>3, <2>1 DEF PrepareAccepts
    <2> QED BY <2>2, <2>3, <2>4
  <1> QED BY <1>1, <1>2, <1>3

LEMMA CommitType ==
    ASSUME TypeInv, NEW n \in Node, NEW c \in PrepareCert, c.id = id[n],
           Commit(n, c)
    PROVE  MachineOK' /\ MachineInUse'
  <1>1. MachineOK' BY DEF TypeInv, TypeOK, MachineOK, Commit, State
  <1>2. id[n] # NoDigest BY DEF PrepareCert, Block
  <1>3. MachineInUse' BY <1>2 DEF TypeInv, TypeOK, MachineOK, MachineInUse, Commit
  <1> QED BY <1>1, <1>3

(* Every step preserves the types.                                         *)
LEMMA TypeNext == TypeInv /\ [Next]_vars => TypeInv'
  <1> SUFFICES ASSUME TypeInv, [Next]_vars PROVE TypeInv' OBVIOUS
  <1> USE DEF TypeInv, TypeOK, smVars, leaderVars, netVars
  <1>1. ASSUME NEW n \in Node, NEW m \in blockMsgs, InvokeBlockBehind(n, m)
        PROVE  TypeInv'
    BY <1>1 DEF InvokeBlockBehind, MachineOK, RoundOK, NetOK, MachineInUse, RoundInUse
  <1>2. ASSUME NEW n \in Node, NEW m \in blockMsgs, InvokeBlockViews(n, m)
        PROVE  TypeInv'
    <2>1. m \in BlockMessage BY DEF NetOK
    <2>2. m.views \in SUBSET Node /\ m.leader \in Node BY <2>1 DEF BlockMessage
    <2>3. MachineOK' /\ MachineInUse'
      <3>1. CASE ViewsAccepted(n, m) /\ m.leader # leader[n]
        BY <1>2, <2>2, <3>1, TypeFacts, ViewChangeType
           DEF InvokeBlockViews, AcceptAll, State, PrepareState, CommitState,
               ViewChangeState
      <3>2. CASE ~ (ViewsAccepted(n, m) /\ m.leader # leader[n])
        BY <1>2, <3>2, InitMachineType DEF InvokeBlockViews, AcceptAll
      <3> QED BY <3>1, <3>2
    <2>4. RoundOK' /\ RoundInUse' BY <1>2 DEF InvokeBlockViews, RoundOK, RoundInUse
    <2>5. NetOK' BY <1>2, <2>1 DEF InvokeBlockViews, NetOK
    <2> QED BY <2>3, <2>4, <2>5
  <1>3. ASSUME NEW n \in Node, NEW m \in blockMsgs, InvokeBlockPrepare(n, m)
        PROVE  TypeInv'
    <2>1. m.src \in Node /\ m.block \in Block BY DEF NetOK, BlockMessage
    <2>2. /\ MachineOK' /\ MachineInUse'
          /\ PrepareAccepts(n, m.src, m.block) => id'[n] \in Block
      BY <1>3, <2>1, PrepareType DEF InvokeBlockPrepare
    <2>3. RoundOK' /\ RoundInUse' BY <1>3 DEF InvokeBlockPrepare, RoundOK, RoundInUse
    <2>4. prepShares' \subseteq [src : Node, to : Node, id : Block]
      BY <1>3, <2>1, <2>2 DEF InvokeBlockPrepare, NetOK
    <2>5. NetOK' BY <1>3, <2>4 DEF InvokeBlockPrepare, NetOK
    <2> QED BY <2>2, <2>3, <2>5
  <1>4. ASSUME NEW n \in Node, NEW m \in commitMsgs, InvokeCommit(n, m)
        PROVE  TypeInv'
    <2>1. m.src \in Node /\ m.cert \in PrepareCert BY DEF NetOK, CommitMessage
    <2>2. MachineOK' /\ MachineInUse'
      BY <1>4, <2>1, CommitType DEF InvokeCommit, CanCommit
    <2>3. RoundOK' /\ RoundInUse' BY <1>4 DEF InvokeCommit, RoundOK, RoundInUse
    <2>4. NetOK' BY <1>4, <2>1 DEF InvokeCommit, NetOK
    <2> QED BY <2>2, <2>3, <2>4
  <1>5. ASSUME NEW n \in Node, NEW d \in doneMsgs, ProcessDone(n, d)
        PROVE  TypeInv'
    <2>1. CASE state[n] = InitialState
      BY <1>5, <2>1 DEF ProcessDone, MachineOK, RoundOK, NetOK, MachineInUse, RoundInUse
    <2>2. CASE state[n] # InitialState
      <3>1. Finalize(n, d) /\ UNCHANGED <<catchup, leaderVars, netVars>>
        BY <1>5, <2>2 DEF ProcessDone
      <3>2. id[n] \in Block
        BY <3>1 DEF Finalize, MachineInUse, MachineOK, Block
      <3>3. Append(chain[n], id[n][Len(id[n])]) \in Seq(Val)
        BY <3>2, BlockFacts, TypeFacts, AppendProperties
      <3>4. MachineOK' BY <3>1 DEF Finalize, MachineOK, State
      <3>5. MachineInUse'
        BY <3>1 DEF Finalize, MachineOK, MachineInUse, State, InitialState,
                    PrepareState, CommitState
      <3>6. RoundOK' /\ RoundInUse' BY <3>1, <3>3 DEF Finalize, RoundOK, RoundInUse
      <3>7. NetOK' BY <3>1 DEF NetOK
      <3> QED BY <3>4, <3>5, <3>6, <3>7
    <2> QED BY <2>1, <2>2
  <1>6. ASSUME NEW n \in Node, NEW w \in viewMsgs, ProcessView(n, w)
        PROVE  TypeInv'
    <2>1. w.src \in Node /\ w.leader \in Node BY DEF NetOK, ViewMessage
    <2>2. MachineOK' /\ MachineInUse'
      <3> DEFINE valid == w.leader = nextLeader(n) /\ w.leader # leader[n]
                          /\ w.last = chain[n]
      <3>1. CASE valid
        <4>1. initState(n) \in {PrepareState, CommitState} => id[n] # NoDigest
          BY DEF initState, MachineInUse, InitialState, PrepareState, CommitState
        <4>2. views[n] \cup {w.src} \in SUBSET Node BY <2>1 DEF MachineOK
        <4>3. /\ checkViewChange(n, initState(n), initThreshold(n),
                                 views[n] \cup {w.src}, w.leader)
              /\ UNCHANGED <<id, prepareSig, committed, tentative>>
          BY <1>6, <3>1 DEF ProcessView, Accept
        <4> QED BY <2>1, <4>1, <4>2, <4>3, TypeFacts, ViewChangeType
      <3>2. CASE ~ valid
        BY <1>6, <3>2, InitMachineType DEF ProcessView, Accept
      <3> QED BY <3>1, <3>2
    <2>3. RoundOK' /\ RoundInUse' BY <1>6 DEF ProcessView, RoundOK, RoundInUse
    <2>4. NetOK' BY <1>6 DEF ProcessView, NetOK
    <2> QED BY <2>2, <2>3, <2>4
  <1>7. ASSUME NEW n \in Node, NEW p \in Node, SyncBlock(n, p)
        PROVE  TypeInv'
    <2> DEFINE b == SubSeq(chain[p], 1, Len(chain[n]) + 1)
    <2>1. b \in Seq(Val)
      <3>1. Len(chain[n]) + 1 \in 0 .. Len(chain[p]) BY <1>7, TypeFacts DEF SyncBlock
      <3> QED BY <3>1, TypeFacts, PrefixFacts
    <2>2. CatchUp(n, b) /\ UNCHANGED <<leaderVars, netVars>> BY <1>7 DEF SyncBlock
    <2> HIDE DEF b
    <2>3. MachineOK' BY <2>2 DEF CatchUp, MachineOK, State
    <2>4. MachineInUse'
      BY <2>2 DEF CatchUp, MachineOK, MachineInUse, InitialState, PrepareState, CommitState
    <2>5. chain' \in [Node -> Seq(Val)] BY <2>1, <2>2 DEF CatchUp, RoundOK
    <2>6. RoundOK' /\ RoundInUse'
      <3> DEFINE more == Len(chain[p]) > Len(chain[n]) + 1
      <3>1. more \in BOOLEAN OBVIOUS
      <3>2. catchup' = [catchup EXCEPT ![n] = more] BY <1>7 DEF SyncBlock
      <3> HIDE DEF more
      <3>3. catchup' \in [Node -> BOOLEAN] BY <3>1, <3>2 DEF RoundOK
      <3> QED BY <2>2, <2>5, <3>3 DEF RoundOK, RoundInUse
    <2>7. NetOK' BY <2>2 DEF NetOK
    <2> QED BY <2>3, <2>4, <2>6, <2>7
  <1>8. ASSUME NEW n \in Node, SyncEnd(n)
        PROVE  TypeInv'
    BY <1>8 DEF SyncEnd, MachineOK, RoundOK, NetOK, MachineInUse, RoundInUse
  <1>9. ASSUME NEW n \in Node, Expire(n)
        PROVE  TypeInv'
    <2>1. views[n] \cup {n} \in SUBSET Node BY DEF MachineOK
    <2>2. /\ checkViewChange(n, ViewChangeState, initThreshold(n), views[n] \cup {n},
                             nextLeader(n))
          /\ UNCHANGED <<id, prepareSig, committed, tentative>>
      BY <1>9 DEF Expire
    <2>3. MachineOK' /\ MachineInUse'
      BY <2>1, <2>2, TypeFacts, ViewChangeType
         DEF State, PrepareState, CommitState, ViewChangeState
    <2>4. RoundOK' /\ RoundInUse' BY <1>9 DEF Expire, RoundOK, RoundInUse, newRound
    <2>5. [src |-> n, leader |-> nextLeader(n), last |-> chain[n]] \in ViewMessage
      BY TypeFacts DEF ViewMessage
    <2>6. NetOK' BY <1>9, <2>5 DEF Expire, NetOK
    <2> QED BY <2>3, <2>4, <2>6
  <1>10. ASSUME NEW n \in Node, doLeaderRound(n)
         PROVE  TypeInv'
    BY <1>10 DEF doLeaderRound, MachineOK, RoundOK, NetOK, MachineInUse, RoundInUse
  <1>11. ASSUME NEW n \in Node, NEW v \in Val, doPBFT(n, v)
         PROVE  TypeInv'
    <2> DEFINE b == IF state[n] = CommitState THEN id[n] ELSE Append(chain[n], v)
               sends == /\ leader[n] = n
                        /\ prevViews[n] = {} \/ Cardinality(prevViews[n]) > threshold'[n]
               msg == [src |-> n, block |-> b, views |-> prevViews[n],
                       leader |-> leader[n], last |-> chain[n]]
    <2>1. b \in Block
      <3>1. v \in Val OBVIOUS
      <3>2. state[n] = CommitState => id[n] \in Block
        BY DEF MachineOK, MachineInUse, Block
      <3>3. Append(chain[n], v) \in Block BY <3>1, TypeFacts, AppendFacts
      <3> QED BY <3>2, <3>3
    <2>2. /\ Prepare(n, n, b)
          /\ UNCHANGED <<chain, catchup, sig, commitMsgs, doneMsgs, viewMsgs, viewed,
                         prepShares, commitShares>>
          /\ IF sends
             THEN /\ blockMsgs' = blockMsgs \cup {msg}
                  /\ step' = [step EXCEPT ![n] = "prepare"]
                  /\ prop' = [prop EXCEPT ![n] = id'[n]]
             ELSE /\ step' = [step EXCEPT ![n] = newRound(n, leader[n])]
                  /\ UNCHANGED <<blockMsgs, prop>>
      BY <1>11 DEF doPBFT
    <2>3. /\ MachineOK' /\ MachineInUse'
          /\ PrepareAccepts(n, n, b) => id'[n] \in Block
      BY <2>1, <2>2, PrepareType
    <2>4. sends => PrepareAccepts(n, n, b)
      <3>1. state[n] # CommitState => verifyPrepare(n, b)
        <4>1. v \in Val OBVIOUS
        <4> QED BY <4>1, TypeFacts, AppendFacts DEF verifyPrepare
      <3> HIDE DEF b
      <3> QED BY <2>2, <3>1 DEF PrepareAccepts, Prepare
    <2>5. msg \in BlockMessage
      <3>1. prevViews[n] \in SUBSET Node /\ leader[n] \in Node BY DEF MachineOK
      <3> HIDE DEF b
      <3> QED BY <2>1, <3>1, TypeFacts DEF BlockMessage
    <2> HIDE DEF b, msg
    <2>6. RoundOK' /\ RoundInUse'
      <3>1. CASE sends
        <4>1. id'[n] \in Block BY <2>3, <2>4, <3>1
        <4>2. id'[n] \in Seq(Val) /\ id'[n] # NoDigest BY <4>1 DEF Block
        <4> QED BY <2>2, <3>1, <4>2 DEF RoundOK, RoundInUse
      <3>2. CASE ~ sends
        BY <2>2, <3>2 DEF RoundOK, RoundInUse, newRound
      <3> QED BY <3>1, <3>2
    <2>7. NetOK' BY <2>2, <2>5 DEF NetOK
    <2> QED BY <2>3, <2>6, <2>7
  <1>12. ASSUME NEW n \in Node, NEW Q \in Quorums(PrepareSigners(n)), doPBFTCommit(n, Q)
         PROVE  TypeInv'
    <2> DEFINE c == [id |-> prop[n], mask |-> Q]
    <2>1. c \in PrepareCert
      <3>1. prop[n] \in Block BY <1>12 DEF doPBFTCommit, RoundOK, RoundInUse, Block
      <3>2. Q \in SUBSET Node BY DEF Quorums, PrepareSigners
      <3> QED BY <3>1, <3>2 DEF PrepareCert
    <2>2. c # NoSig /\ c.id = prop[n] BY <2>1 DEF PrepareCert, NoSig, Block
    <2>3. CASE CanCommit(n, c)
      <3>1. /\ Commit(n, c)
            /\ commitMsgs' = commitMsgs \cup {[src |-> n, cert |-> c]}
            /\ step' = [step EXCEPT ![n] = "commit"]
            /\ sig' = [sig EXCEPT ![n] = c]
            /\ UNCHANGED <<chain, catchup, prop, blockMsgs, doneMsgs, viewMsgs, viewed,
                           prepShares, commitShares>>
        BY <1>12, <2>3 DEF doPBFTCommit
      <3> HIDE DEF c
      <3>2. MachineOK' /\ MachineInUse' BY <2>1, <2>3, <3>1, CommitType DEF CanCommit
      <3>3. RoundOK' /\ RoundInUse'
        BY <1>12, <2>1, <2>2, <3>1 DEF RoundOK, RoundInUse, doPBFTCommit
      <3>4. [src |-> n, cert |-> c] \in CommitMessage BY <2>1 DEF CommitMessage
      <3>5. NetOK' BY <3>1, <3>4 DEF NetOK
      <3> QED BY <3>2, <3>3, <3>5
    <2>4. CASE ~ CanCommit(n, c)
      <3>1. /\ step' = [step EXCEPT ![n] = newRound(n, leader[n])]
            /\ UNCHANGED <<smVars, chain, catchup, prop, sig, netVars>>
        BY <1>12, <2>4 DEF doPBFTCommit
      <3> QED BY <3>1 DEF MachineOK, RoundOK, NetOK, MachineInUse, RoundInUse, newRound
    <2> QED BY <2>3, <2>4
  <1>13. ASSUME NEW n \in Node, NEW Q \in Quorums(CommitSigners(n)), doPBFTDone(n, Q)
         PROVE  TypeInv'
    <2>1. sig[n] \in PrepareCert BY <1>13 DEF doPBFTDone, RoundOK, RoundInUse
    <2>2. [src |-> n, prep |-> sig[n]] \in DoneMessage BY <2>1 DEF DoneMessage
    <2>3. NetOK' BY <1>13, <2>2 DEF doPBFTDone, NetOK
    <2>4. MachineOK' /\ MachineInUse' BY <1>13 DEF doPBFTDone, MachineOK, MachineInUse
    <2>5. RoundOK' /\ RoundInUse' BY <1>13 DEF doPBFTDone, RoundOK, RoundInUse, newRound
    <2> QED BY <2>3, <2>4, <2>5
  <1>14. ASSUME NEW n \in Node, roundFails(n)
         PROVE  TypeInv'
    BY <1>14 DEF roundFails, MachineOK, RoundOK, NetOK, MachineInUse, RoundInUse, newRound
  <1>15. ASSUME NEW n \in Node, Restart(n)
         PROVE  TypeInv'
    <2>1. 0 \in Node /\ << >> \in Seq(Val) BY RosterAssumption, EmptySeq DEF Node
    <2>2. [round |-> NoDigest, leader |-> 0] \in [round : Seq(Val), leader : Node]
      BY <2>1 DEF NoDigest
    <2>3. MachineOK' BY <1>15, <2>1, <2>2 DEF Restart, MachineOK, State, NoDigest
    <2>4. MachineInUse'
      BY <1>15 DEF Restart, MachineOK, MachineInUse, NoneState, PrepareState, CommitState
    <2>5. RoundOK' /\ RoundInUse'
      BY <1>15, <2>1 DEF Restart, RoundOK, RoundInUse, newRound, NoDigest
    <2>6. NetOK' BY <1>15 DEF Restart, NetOK
    <2> QED BY <2>3, <2>4, <2>5, <2>6
  <1>16. CASE UNCHANGED vars
    BY <1>16 DEF vars, MachineOK, RoundOK, NetOK, MachineInUse, RoundInUse
  <1> QED BY <1>1, <1>2, <1>3, <1>4, <1>5, <1>6, <1>7, <1>8, <1>9, <1>10, <1>11, <1>12,
             <1>13, <1>14, <1>15, <1>16 DEF Next

(* The fields of every machine, every round and every message keep their   *)
(* types; no request or signature ever carries the zero digest.            *)
THEOREM TypeCorrect == Spec => []TypeOK
  <1>1. TypeInv => TypeOK BY DEF TypeInv
  <1> QED BY <1>1, TypeInit, TypeNext, PTL DEF Spec
=============================================================================
