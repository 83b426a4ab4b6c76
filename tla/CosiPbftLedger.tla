--------------------------- MODULE CosiPbftLedger ---------------------------
(* Proofs that a committed participant keeps its candidate and that the    *)
(* service implements the append-only log of BlockLog.                     *)
EXTENDS CosiPbftChains

(* A participant that is committed but idle has stored that block.         *)
Released == \A n \in Node : committed[n] /\ Idle(n) => Len(id[n]) =< Len(chain[n])

(* A proposal, and so a vote, is on top of a confirmed chain.              *)
OnTop(b) == Parent(b) \in Certified \cup {NoDigest}
ProposalsOnTop == \A n \in Node : id[n] # NoDigest => OnTop(id[n])
VotesOnTop == \A n \in Node : \A b \in Voted(n) : OnTop(b)

(* One of the confirmed chains is the longest.                             *)
HasLongest == \E b \in Certified \cup {NoDigest} : \A c \in Certified : Len(c) =< Len(b)

LogInv == ChainInv /\ Released /\ ProposalsOnTop /\ VotesOnTop /\ HasLongest

LEMMA LogInit == Init => LogInv
  <1> SUFFICES ASSUME Init PROVE LogInv OBVIOUS
  <1>1. ChainInv BY ChainInit
  <1>2. Released BY DEF Init, Released
  <1>3. ProposalsOnTop BY DEF Init, ProposalsOnTop
  <1>4. VotesOnTop BY DEF Init, VotesOnTop, Voted
  <1>5. HasLongest BY DEF Init, HasLongest, Certified
  <1> QED BY <1>1, <1>2, <1>3, <1>4, <1>5 DEF LogInv

LEMMA ReleasedNext == LogInv /\ [Next]_vars => Released'
  <1> SUFFICES ASSUME LogInv, [Next]_vars, NEW n \in Node, committed'[n], Idle(n)'
               PROVE  Len(id'[n]) =< Len(chain'[n])
    BY DEF Released
  <1>1. TypeInv BY DEF LogInv, ChainInv, VoteInv
  <1>2. Effect(n) BY <1>1, Effects
  <1>3. id[n] \in Seq(Val) /\ chain[n] \in Seq(Val)
    BY <1>1 DEF TypeInv, TypeOK, MachineOK, RoundOK
  <1>4. Len(id[n]) \in Nat /\ Len(chain[n]) \in Nat BY <1>3, LenProperties
  <1>5. CASE Quiet(n) BY <1>5 DEF Quiet, LogInv, Released
  <1>6. CASE Stores(n)
    <2>1. Len(id[n]) =< Len(chain[n]) \/ Parent(id[n]) = chain[n]
      BY DEF LogInv, ChainInv, NextBlock
    <2>2. id[n] # << >> => id[n] \in Block BY <1>3 DEF Block, NoDigest
    <2>3. Len(id[n]) =< Len(chain[n]) + 1 BY <1>4, <2>1, <2>2, BlockFacts, EmptySeq
    <2> QED BY <1>4, <1>6, <2>3 DEF Stores
  <1>7. ~ Proposes(n) /\ ~ Commits(n) /\ ~ Forgets(n)
    BY DEF Idle, Proposes, Commits, Forgets, NoneState, InitialState, PrepareState,
           CommitState
  <1> QED BY <1>2, <1>5, <1>6, <1>7 DEF Effect

LEMMA OnTopNext == LogInv /\ [Next]_vars => ProposalsOnTop' /\ VotesOnTop'
  <1> SUFFICES ASSUME LogInv, [Next]_vars PROVE ProposalsOnTop' /\ VotesOnTop' OBVIOUS
  <1>1. TypeInv BY DEF LogInv, ChainInv, VoteInv
  <1>2. Certified \subseteq Certified' BY CertifiedGrows
  <1>3. ProposalsOnTop'
    <2> SUFFICES ASSUME NEW n \in Node, id'[n] # NoDigest
                 PROVE  Parent(id'[n]) \in Certified' \cup {NoDigest}
      BY DEF ProposalsOnTop, OnTop
    <2>1. Effect(n) BY <1>1, Effects
    <2>2. CASE id'[n] = id[n] BY <1>2, <2>2 DEF LogInv, ProposalsOnTop, OnTop
    <2>3. CASE Proposes(n)
      <3>1. chain[n] \in Seq(Val) /\ Len(chain[n]) \in Nat BY <1>1, TypeFacts
      <3>2. chain[n] # << >> => chain[n] \in Certified
        <4> SUFFICES ASSUME chain[n] # << >> PROVE chain[n] \in Certified OBVIOUS
        <4>1. Len(chain[n]) \in 1 .. Len(chain[n]) BY <3>1, EmptySeq
        <4>2. SubSeq(chain[n], 1, Len(chain[n])) \in Certified
          BY <4>1 DEF LogInv, ChainInv, StoredCertified
        <4> QED BY <3>1, <4>2, SubSeqFull
      <3>3. Parent(id'[n]) \in Certified \cup {NoDigest}
        BY <2>3, <3>2 DEF Proposes, NoDigest
      <3> QED BY <1>2, <3>3
    <2> QED BY <2>1, <2>2, <2>3 DEF Effect, Quiet, Commits, Stores, Forgets
  <1>4. VotesOnTop'
    <2> SUFFICES ASSUME NEW n \in Node, NEW b \in Voted(n)'
                 PROVE  Parent(b) \in Certified' \cup {NoDigest}
      BY DEF VotesOnTop, OnTop
    <2>1. Votes(n) BY <1>1, Effects
    <2>2. CASE b \in Voted(n) BY <1>2, <2>2 DEF LogInv, VotesOnTop, OnTop
    <2>3. CASE Commits(n) /\ b = id[n]
      <3>1. id[n] # NoDigest BY <2>3 DEF Commits, Block
      <3>2. OnTop(b) BY <2>3, <3>1 DEF LogInv, ProposalsOnTop
      <3> QED BY <1>2, <3>2 DEF OnTop
    <2> QED BY <2>1, <2>2, <2>3 DEF Votes
  <1> QED BY <1>3, <1>4

(* A step confirms nothing new, or one block on top of a confirmed chain.  *)
LEMMA Confirms ==
    ASSUME LogInv, [Next]_vars
    PROVE  \/ Certified' = Certified
           \/ \E b \in Block : Certified' = Certified \cup {b} /\ OnTop(b)
  <1>1. CASE UNCHANGED doneMsgs BY <1>1 DEF Certified
  <1>2. ASSUME NEW l \in Node, NEW Q \in Quorums(CommitSigners(l)), doPBFTDone(l, Q)
        PROVE  \E b \in Block : Certified' = Certified \cup {b} /\ OnTop(b)
    <2> DEFINE d == [src |-> l, prep |-> sig[l]]
               b == sig[l].id
    <2>1. Q # {}
      <3>1. Cardinality(Q) = ByzantineThreshold BY DEF Quorums
      <3>2. ByzantineThreshold # 0 BY RosterAssumption DEF ByzantineThreshold, F
      <3> QED BY <3>1, <3>2, FS_EmptySet
    <2>2. PICK q \in Q : TRUE BY <2>1
    <2>3. q \in Node /\ b \in Voted(q)
      <3> DEFINE s == [src |-> q, to |-> l, cert |-> sig[l]]
      <3>1. s \in commitShares /\ q \in Node BY DEF Quorums, CommitSigners
      <3>2. s.src = q /\ s.cert.id = sig[l].id OBVIOUS
      <3> HIDE DEF s
      <3> QED BY <3>1, <3>2 DEF Voted
    <2>4. b \in Block /\ OnTop(b)
      BY <2>3, VotedType DEF LogInv, ChainInv, VoteInv, VotesOnTop
    <2>5. doneMsgs' = doneMsgs \cup {d} /\ d.prep.id = b BY <1>2 DEF doPBFTDone
    <2> HIDE DEF d, b
    <2>6. Certified' = Certified \cup {b} BY <2>5 DEF Certified
    <2> QED BY <2>4, <2>6
  <1> QED BY <1>1, <1>2, NetSteps

(* Facts about the longest of a set of chains with one chain per height.   *)
LEMMA LongestFacts ==
    ASSUME NEW C \in SUBSET Block, \A x, y \in C : Len(x) = Len(y) => x = y,
           NEW t \in C \cup {NoDigest}, \A c \in C : Len(c) =< Len(t)
    PROVE  Longest(C) = t
  <1> DEFINE l == Longest(C)
  <1>1. l \in C \cup {NoDigest} /\ \A c \in C : Len(c) =< Len(l) BY DEF Longest
  <1> HIDE DEF l
  <1>2. \A x \in C \cup {NoDigest} : Len(x) \in Nat /\ (Len(x) = 0 <=> x = NoDigest)
    BY BlockFacts, EmptySeq DEF NoDigest, Block
  <1>3. Len(l) =< Len(t) /\ Len(t) =< Len(l)
    BY <1>1, <1>2 DEF NoDigest
  <1>4. Len(l) = Len(t) BY <1>1, <1>2, <1>3
  <1>5. l = t BY <1>1, <1>2, <1>4
  <1> QED BY <1>5 DEF l

LEMMA LogNext ==
    ASSUME ~ LateDone
    PROVE  LogInv /\ [Next]_vars
              => LogInv' /\ (UNCHANGED Log \/ \E v \in Val : Log' = Append(Log, v))
  <1> SUFFICES ASSUME LogInv, [Next]_vars
               PROVE  /\ LogInv'
                      /\ UNCHANGED Log \/ \E v \in Val : Log' = Append(Log, v)
    OBVIOUS
  <1>1. ChainInv' BY ChainNext DEF LogInv
  <1>2. Released' /\ ProposalsOnTop' /\ VotesOnTop' BY ReleasedNext, OnTopNext
  <1>3. /\ Certified \in SUBSET Block
        /\ \A x, y \in Certified : Len(x) = Len(y) => x = y
    BY CertifiedType, VoteAgreement DEF LogInv, ChainInv, VoteInv, CertAgreement
  <1>4. VoteInv' BY <1>1 DEF ChainInv
  <1>5. CertAgreement' BY <1>4, VoteAgreement, PTL
  <1>6. PICK t \in Certified \cup {NoDigest} : \A c \in Certified : Len(c) =< Len(t)
    BY DEF LogInv, HasLongest
  <1>7. Log = t BY <1>3, <1>6, LongestFacts DEF Log
  <1>8. \A x \in Certified \cup {NoDigest} :
           Len(x) \in Nat /\ (Len(x) = 0 <=> x = NoDigest)
    BY <1>3, BlockFacts, EmptySeq DEF NoDigest, Block
  <1>9. CASE Certified' = Certified
    <2>1. HasLongest' BY <1>6, <1>9 DEF HasLongest
    <2>2. UNCHANGED Log BY <1>9 DEF Log
    <2> QED BY <1>1, <1>2, <2>1, <2>2 DEF LogInv
  <1>10. ASSUME NEW b \in Block, Certified' = Certified \cup {b}, OnTop(b)
         PROVE  /\ HasLongest'
                /\ UNCHANGED Log \/ \E v \in Val : Log' = Append(Log, v)
    <2>1. /\ Certified' \in SUBSET Block
          /\ \A x, y \in Certified' : Len(x) = Len(y) => x = y
      BY <1>3, <1>5, <1>10 DEF CertAgreement
    <2>2. /\ Len(b) \in Nat /\ Len(Parent(b)) = Len(b) - 1 /\ Len(t) \in Nat
          /\ b[Len(b)] \in Val /\ b = Append(Parent(b), b[Len(b)])
      BY <1>8, BlockFacts
    <2>3. CASE Len(b) =< Len(t)
      <3>1. t \in Certified' \cup {NoDigest} /\ \A c \in Certified' : Len(c) =< Len(t)
        BY <1>6, <1>10, <2>3
      <3>2. Log' = t BY <2>1, <3>1, LongestFacts DEF Log
      <3> QED BY <1>7, <3>1, <3>2 DEF HasLongest
    <2>4. CASE Len(t) < Len(b)
      <3>1. \A c \in Certified' : Len(c) =< Len(b)
        BY <1>6, <1>8, <1>10, <2>2, <2>4
      <3>2. b \in Certified' \cup {NoDigest} BY <1>10
      <3>3. Log' = b BY <2>1, <3>1, <3>2, LongestFacts DEF Log
      <3>4. Parent(b) = t
        <4>1. Parent(b) \in Certified \cup {NoDigest} BY <1>10 DEF OnTop
        <4>2. Len(Parent(b)) =< Len(t) BY <1>6, <1>8, <4>1 DEF NoDigest
        <4>3. Len(Parent(b)) = Len(t) BY <2>2, <2>4, <4>2
        <4> QED BY <1>3, <1>6, <1>8, <4>1, <4>3
      <3>5. Log' = Append(Log, b[Len(b)]) BY <1>7, <2>2, <3>3, <3>4
      <3> QED BY <2>2, <3>1, <3>2, <3>5 DEF HasLongest
    <2> QED BY <2>2, <2>3, <2>4
  <1> QED BY <1>1, <1>2, <1>9, <1>10, Confirms DEF LogInv

(* The service implements the abstract log: the longest confirmed chain    *)
(* only grows, by one block at a time.                                     *)
THEOREM LedgerRefinement == ASSUME ~ LateDone PROVE Spec => ImplementsLedger
  <1>1. LogInv /\ [Next]_vars => LogInv' /\ [OneLog!ConfirmBlock]_Log
    BY LogNext DEF OneLog!ConfirmBlock
  <1>2. Init => OneLog!Genesis
    <2> SUFFICES ASSUME Init PROVE Log = << >> BY DEF OneLog!Genesis
    <2>1. Certified = {} BY DEF Init, Certified
    <2>2. Longest({}) = NoDigest BY LongestFacts
    <2> QED BY <2>1, <2>2 DEF Log, NoDigest
  <1> QED BY <1>1, <1>2, LogInit, PTL DEF Spec, ImplementsLedger, OneLog!OneChain

(* A committed participant signs no other candidate for the next block.    *)
LEMMA LockStep ==
    ASSUME LogInv, [Next]_vars, NEW n \in Node, NEW s \in prepShares' \ prepShares,
           s.src = n, committed[n], Parent(id[n]) = chain[n]
    PROVE  s.id = id[n]
  <1>1. TypeInv BY DEF LogInv, ChainInv, VoteInv
  <1>2. PICK k \in Node, m \in blockMsgs : InvokeBlockPrepare(k, m)
    <2>1. prepShares' # prepShares OBVIOUS
    <2>2. /\ \A k, m : ~ InvokeBlockBehind(k, m) /\ ~ InvokeBlockViews(k, m)
          /\ \A k, m : ~ InvokeCommit(k, m)
      BY <2>1 DEF InvokeBlockBehind, InvokeBlockViews, InvokeCommit, netVars
    <2>3. /\ \A k, m : ~ ProcessDone(k, m) /\ ~ ProcessView(k, m)
          /\ \A k, p : ~ SyncBlock(k, p)
      BY <2>1 DEF ProcessDone, ProcessView, SyncBlock, netVars
    <2>4. \A k : ~ SyncEnd(k) /\ ~ Expire(k) /\ ~ doLeaderRound(k) /\ ~ roundFails(k)
      BY <2>1 DEF SyncEnd, Expire, doLeaderRound, roundFails, netVars
    <2>5. /\ \A k, v : ~ doPBFT(k, v)
          /\ \A k, Q : ~ doPBFTCommit(k, Q) /\ ~ doPBFTDone(k, Q)
          /\ \A k : ~ Restart(k)
      BY <2>1 DEF doPBFT, doPBFTCommit, doPBFTDone, Restart
    <2>6. Next BY <2>1 DEF vars, netVars
    <2> QED BY <2>2, <2>3, <2>4, <2>5, <2>6 DEF Next
  <1>3. s = [src |-> k, to |-> m.src, id |-> id'[k]] BY <1>2 DEF InvokeBlockPrepare
  <1>4. k = n /\ s.id = id'[n] BY <1>3
  <1>5. ~ Idle(n)
    <2>1. id[n] \in Block
      BY <1>1 DEF TypeInv, TypeOK, MachineOK, MachineInUse, Block
    <2>2. Len(id[n]) = Len(chain[n]) + 1 /\ Len(chain[n]) \in Nat
      BY <1>1, <2>1, BlockFacts, TypeFacts
    <2> QED BY <2>2 DEF LogInv, Released
  <1>6. state[n] \in {PrepareState, CommitState, ViewChangeState}
    BY <1>1, <1>5 DEF TypeInv, TypeOK, MachineOK, State, Idle
  <1>7. id'[n] = id[n]
    BY <1>1, <1>2, <1>4, <1>6 DEF InvokeBlockPrepare, Prepare, TypeInv, TypeOK, MachineOK
  <1> QED BY <1>4, <1>7

(* The lock of a committed participant, for every roster.                  *)
THEOREM LocksKept == ASSUME ~ LateDone PROVE Spec => LockKept
  <1>1. LogInv /\ [Next]_vars => LogInv' BY LogNext
  <1>2. LogInv /\ [Next]_vars
        => [\A n \in Node : \A s \in prepShares' \ prepShares :
              /\ s.src = n
              /\ committed[n]
              /\ Parent(id[n]) = chain[n]
              => s.id = id[n]]_vars
    BY LockStep
  <1> QED BY <1>1, <1>2, LogInit, PTL DEF Spec, LockKept
=============================================================================
