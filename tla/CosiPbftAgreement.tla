------------------------- MODULE CosiPbftAgreement -------------------------
(* Proof that at most one block of each height is ever confirmed, and that *)
(* the participants therefore store the same chain.                        *)
EXTENDS CosiPbftProofs

(* What a step does to the machine of one participant, as far as its       *)
(* proposal, its promise and its chain go.                                 *)
Locked(n) == committed[n] /\ state[n] \in {CommitState, ViewChangeState}
Idle(n) == state[n] \in {NoneState, InitialState}

Quiet(n) ==
    /\ id'[n] = id[n] /\ chain'[n] = chain[n] /\ prepareSig'[n] = prepareSig[n]
    /\ committed'[n] = committed[n]
    /\ Locked(n) => state'[n] \in {CommitState, ViewChangeState}
    /\ committed[n] /\ Idle(n)' => Idle(n)
Proposes(n) ==
    /\ ~ Locked(n) /\ state'[n] = PrepareState
    /\ id'[n] \in Block /\ Parent(id'[n]) = chain[n]
    /\ chain'[n] = chain[n] /\ prepareSig'[n] = prepareSig[n]
Commits(n) ==
    /\ id'[n] = id[n] /\ chain'[n] = chain[n]
    /\ id[n] \in Block /\ prepareSig'[n].id = id[n]
    /\ committed'[n] /\ state'[n] = CommitState
StoresDone(n, d) ==
    /\ d.prep = prepareSig[n]
    /\ LateDone \/ Len(d.prep.id) > Len(chain[n])
    /\ chain'[n] = Append(chain[n], id[n][Len(id[n])])
StoresLink(n) ==
    /\ chain'[n] \in Certified
    /\ Parent(chain'[n]) = chain[n]
Stores(n) ==
    /\ id'[n] = id[n] /\ prepareSig'[n] = prepareSig[n]
    /\ Len(chain'[n]) = Len(chain[n]) + 1
    /\ StoresLink(n) \/ \E d \in doneMsgs : StoresDone(n, d)
Forgets(n) ==
    /\ n \in Amnesiac
    /\ id'[n] = NoDigest /\ prepareSig'[n] = NoSig /\ chain'[n] = chain[n]
    /\ ~ committed'[n]

Effect(n) == Quiet(n) \/ Proposes(n) \/ Commits(n) \/ Stores(n) \/ Forgets(n)

(* Only a participant that commits to its proposal gives a commit share.   *)
Votes(n) ==
    \A b \in Voted(n)' : b \in Voted(n) \/ (Commits(n) /\ b = id[n])

(* The operations of the state machine have one of these effects.          *)
LEMMA ViewChangeEffect ==
    ASSUME TypeInv, NEW n \in Node, NEW st, NEW th, NEW vs, NEW l,
           Locked(n) => st \in {CommitState, ViewChangeState},
           st \in {NoneState, InitialState} => Idle(n),
           checkViewChange(n, st, th, vs, l),
           UNCHANGED <<id, prepareSig, committed, chain>>
    PROVE  \A m \in Node : Quiet(m)
  <1>1. state' = [state EXCEPT ![n] = stateAfterViews(n)]
        \/ state' = [state EXCEPT ![n] = st]
    BY DEF checkViewChange
  <1>2. committed[n] => stateAfterViews(n) = CommitState BY DEF stateAfterViews
  <1> QED BY <1>1, <1>2 DEF TypeInv, TypeOK, MachineOK, Quiet, Locked, Idle, NoneState,
                            InitialState, CommitState

LEMMA InitEffect ==
    ASSUME TypeInv, NEW n \in Node,
           state' = [state EXCEPT ![n] = initState(n)],
           UNCHANGED <<id, prepareSig, committed, chain>>
    PROVE  \A m \in Node : Quiet(m)
  BY DEF TypeInv, TypeOK, MachineOK, Quiet, Locked, Idle, initState, NoneState,
         CommitState, ViewChangeState

LEMMA PrepareEffect ==
    ASSUME TypeInv, NEW n \in Node, NEW l, NEW b \in Block, Prepare(n, l, b),
           UNCHANGED chain
    PROVE  \A m \in Node : Quiet(m) \/ Proposes(m)
  <1> USE DEF TypeInv, TypeOK, MachineOK
  <1>1. CASE UNCHANGED <<state, id>> BY <1>1 DEF Prepare, Quiet, Locked, Idle
  <1>2. CASE /\ state[n] \notin {PrepareState, CommitState, ViewChangeState}
             /\ id' = [id EXCEPT ![n] = IF verifyPrepare(n, b) THEN b ELSE @]
             /\ state' = [state EXCEPT ![n] = IF verifyPrepare(n, b)
                                              THEN PrepareState ELSE @]
    <2>1. CASE verifyPrepare(n, b)
      BY <1>2, <2>1 DEF Prepare, Quiet, Proposes, Locked, Idle, verifyPrepare
    <2>2. CASE ~ verifyPrepare(n, b)
      BY <1>2, <2>2 DEF Prepare, Quiet, Locked, Idle
    <2> QED BY <2>1, <2>2
  <1> QED BY <1>1, <1>2 DEF Prepare

LEMMA CommitEffect ==
    ASSUME TypeInv, NEW n \in Node, NEW c \in PrepareCert, c.id = id[n], Commit(n, c),
           UNCHANGED chain
    PROVE  Commits(n) /\ \A m \in Node \ {n} : Quiet(m)
  BY DEF TypeInv, TypeOK, MachineOK, Commit, Commits, Quiet, Locked, Idle, PrepareCert

(* Every step has one of the effects on every participant.                 *)
LEMMA Effects ==
    ASSUME TypeInv, [Next]_vars
    PROVE  \A m \in Node : Effect(m) /\ Votes(m)
  <1> USE DEF TypeInv, TypeOK, smVars, leaderVars, netVars
  <1>0. UNCHANGED commitShares => \A m \in Node : Votes(m) BY DEF Votes, Voted
  <1>a. UNCHANGED <<smVars, chain>> => \A m \in Node : Quiet(m) BY DEF Quiet, Locked, Idle
  <1>1. ASSUME NEW n \in Node, NEW m \in blockMsgs, InvokeBlockViews(n, m)
        PROVE  \A k \in Node : Quiet(k) /\ Votes(k)
    <2>1. UNCHANGED <<id, prepareSig, committed, chain, commitShares>>
      BY <1>1 DEF InvokeBlockViews, AcceptAll
    <2>2. CASE ViewsAccepted(n, m) /\ m.leader # leader[n]
      BY <1>0, <1>1, <2>1, <2>2, ViewChangeEffect
         DEF InvokeBlockViews, AcceptAll, NoneState, InitialState, ViewChangeState
    <2>3. CASE ~ (ViewsAccepted(n, m) /\ m.leader # leader[n])
      BY <1>0, <1>1, <2>1, <2>3, InitEffect DEF InvokeBlockViews, AcceptAll
    <2> QED BY <2>2, <2>3
  <1>2. ASSUME NEW n \in Node, NEW m \in blockMsgs, InvokeBlockPrepare(n, m)
        PROVE  \A k \in Node : (Quiet(k) \/ Proposes(k)) /\ Votes(k)
    <2>1. m.block \in Block BY DEF NetOK, BlockMessage
    <2> QED BY <1>0, <1>2, <2>1, PrepareEffect DEF InvokeBlockPrepare
  <1>3. ASSUME NEW n \in Node, NEW m \in commitMsgs, InvokeCommit(n, m)
        PROVE  \A k \in Node : Effect(k) /\ Votes(k)
    <2>1. m.cert \in PrepareCert /\ m.cert.id = id[n]
      BY <1>3 DEF InvokeCommit, CanCommit, NetOK, CommitMessage
    <2>2. Commits(n) /\ \A k \in Node \ {n} : Quiet(k)
      BY <1>3, <2>1, CommitEffect DEF InvokeCommit
    <2>3. \A k \in Node : Votes(k)
      BY <1>3, <2>1, <2>2 DEF InvokeCommit, Votes, Voted
    <2> QED BY <2>2, <2>3 DEF Effect
  <1>4. ASSUME NEW n \in Node, NEW d \in doneMsgs, ProcessDone(n, d)
        PROVE  \A k \in Node : Effect(k) /\ Votes(k)
    <2>1. CASE state[n] = InitialState
      BY <1>0, <1>a, <1>4, <2>1 DEF ProcessDone, Effect
    <2>2. CASE state[n] # InitialState
      <3>1. Finalize(n, d) /\ UNCHANGED commitShares BY <1>4, <2>2 DEF ProcessDone
      <3>2. id[n] \in Block BY <3>1 DEF Finalize, MachineInUse, MachineOK, Block
      <3>3. Len(Append(chain[n], id[n][Len(id[n])])) = Len(chain[n]) + 1
        BY <3>2, BlockFacts, TypeFacts, AppendProperties
      <3>4. StoresDone(n, d) BY <1>4, <3>1 DEF ProcessDone, Finalize, StoresDone, RoundOK
      <3>5. \A k \in Node \ {n} : Quiet(k)
        BY <3>1 DEF Finalize, Quiet, Locked, Idle, RoundOK, MachineOK
      <3>6. Stores(n) BY <3>1, <3>3, <3>4 DEF Finalize, Stores, StoresDone
      <3> QED BY <1>0, <3>1, <3>5, <3>6 DEF Effect
    <2> QED BY <2>1, <2>2
  <1>5. ASSUME NEW n \in Node, NEW w \in viewMsgs, ProcessView(n, w)
        PROVE  \A k \in Node : Quiet(k) /\ Votes(k)
    <2>1. UNCHANGED <<id, prepareSig, committed, chain, commitShares>>
      BY <1>5 DEF ProcessView, Accept
    <2>2. Locked(n) => initState(n) \in {CommitState, ViewChangeState}
      BY DEF Locked, initState, NoneState, CommitState, ViewChangeState
    <2>4. initState(n) \in {NoneState, InitialState} => Idle(n)
      BY DEF Idle, initState
    <2>3. \/ checkViewChange(n, initState(n), initThreshold(n),
                             views[n] \cup {w.src}, w.leader)
          \/ state' = [state EXCEPT ![n] = initState(n)]
      BY <1>5 DEF ProcessView, Accept
    <2> QED BY <1>0, <2>1, <2>2, <2>3, <2>4, ViewChangeEffect, InitEffect
  <1>6. ASSUME NEW n \in Node, NEW p \in Node, SyncBlock(n, p)
        PROVE  \A k \in Node : Effect(k) /\ Votes(k)
    <2> DEFINE b == SubSeq(chain[p], 1, Len(chain[n]) + 1)
    <2>1. Len(b) = Len(chain[n]) + 1
      <3>1. Len(chain[n]) + 1 \in 0 .. Len(chain[p]) BY <1>6, TypeFacts DEF SyncBlock
      <3> QED BY <3>1, TypeFacts, PrefixFacts
    <2>2. CatchUp(n, b) /\ UNCHANGED commitShares BY <1>6 DEF SyncBlock
    <2> HIDE DEF b
    <2>3. Stores(n)
      BY <2>1, <2>2 DEF CatchUp, Stores, StoresLink, Certified, verifyPrepare, RoundOK
    <2>4. \A k \in Node \ {n} : Quiet(k)
      BY <2>2 DEF CatchUp, Quiet, Locked, Idle, RoundOK, MachineOK
    <2> QED BY <1>0, <2>2, <2>3, <2>4 DEF Effect
  <1>7. ASSUME NEW n \in Node, Expire(n)
        PROVE  \A k \in Node : Quiet(k) /\ Votes(k)
    BY <1>0, <1>7, ViewChangeEffect
       DEF Expire, NoneState, InitialState, ViewChangeState
  <1>8. ASSUME NEW n \in Node, NEW v \in Val, doPBFT(n, v)
        PROVE  \A k \in Node : (Quiet(k) \/ Proposes(k)) /\ Votes(k)
    <2> DEFINE b == IF state[n] = CommitState THEN id[n] ELSE Append(chain[n], v)
    <2>1. b \in Block
      <3>1. v \in Val OBVIOUS
      <3>2. state[n] = CommitState => id[n] \in Block
        BY DEF MachineOK, MachineInUse, Block
      <3>3. Append(chain[n], v) \in Block BY <3>1, TypeFacts, AppendFacts
      <3> QED BY <3>2, <3>3
    <2>2. Prepare(n, n, b) /\ UNCHANGED <<chain, commitShares>> BY <1>8 DEF doPBFT
    <2> HIDE DEF b
    <2> QED BY <1>0, <2>1, <2>2, PrepareEffect
  <1>9. ASSUME NEW n \in Node, NEW Q \in Quorums(PrepareSigners(n)), doPBFTCommit(n, Q)
        PROVE  \A k \in Node : Effect(k) /\ Votes(k)
    <2> DEFINE c == [id |-> prop[n], mask |-> Q]
    <2>1. UNCHANGED <<chain, commitShares>> BY <1>9 DEF doPBFTCommit
    <2>2. (Commit(n, c) /\ CanCommit(n, c)) \/ UNCHANGED smVars BY <1>9 DEF doPBFTCommit
    <2>3. c \in PrepareCert
      <3>1. prop[n] \in Block BY <1>9 DEF doPBFTCommit, RoundOK, RoundInUse, Block
      <3>2. Q \in SUBSET Node BY DEF Quorums, PrepareSigners
      <3> QED BY <3>1, <3>2 DEF PrepareCert
    <2> HIDE DEF c
    <2> QED BY <1>0, <1>a, <2>1, <2>2, <2>3, CommitEffect DEF Effect, CanCommit
  <1>10. ASSUME NEW n \in Node, Restart(n)
         PROVE  \A k \in Node : Effect(k) /\ Votes(k)
    <2>1. UNCHANGED commitShares /\ Forgets(n) BY <1>10 DEF Restart, Forgets, MachineOK
    <2>2. \A k \in Node \ {n} : Quiet(k)
      BY <1>10 DEF Restart, Quiet, Locked, Idle, MachineOK
    <2> QED BY <1>0, <2>1, <2>2 DEF Effect
  <1>11. ASSUME UNCHANGED <<smVars, chain, commitShares>>
         PROVE  \A k \in Node : Effect(k) /\ Votes(k)
    BY <1>0, <1>a, <1>11 DEF Effect
  <1>12. ASSUME NEW n \in Node,
                \/ \E m \in blockMsgs : InvokeBlockBehind(n, m)
                \/ SyncEnd(n)
                \/ doLeaderRound(n)
                \/ \E Q \in Quorums(CommitSigners(n)) : doPBFTDone(n, Q)
                \/ roundFails(n)
         PROVE  UNCHANGED <<smVars, chain, commitShares>>
    BY <1>12 DEF InvokeBlockBehind, SyncEnd, doLeaderRound, doPBFTDone, roundFails
  <1>13. CASE UNCHANGED vars BY <1>11, <1>13 DEF vars
  <1> QED BY <1>1, <1>2, <1>3, <1>4, <1>5, <1>6, <1>7, <1>8, <1>9, <1>10, <1>11, <1>12,
             <1>13 DEF Next, Effect
-----------------------------------------------------------------------------
(* The inductive invariant.                                                *)

(* A proposal is at most one block ahead of the chain.                     *)
Ahead == \A n \in Node \ Amnesiac : Len(id[n]) =< Len(chain[n]) + 1

(* Every commit signature has a quorum of commit shares.                   *)
Backed(b) == \E Q \in SUBSET Node : /\ Cardinality(Q) = ByzantineThreshold
                                     /\ \A q \in Q : b \in Voted(q)
DoneBacked == \A b \in Certified : Backed(b)

VoteInv == TypeInv /\ Ahead /\ VotesKept /\ DoneBacked

LEMMA VotedType ==
    ASSUME TypeInv, NEW n \in Node
    PROVE  \A b \in Voted(n) : b \in Block /\ Len(b) \in Nat \ {0}
  BY BlockFacts DEF TypeInv, TypeOK, NetOK, Voted, PrepareCert

LEMMA VoteInit == Init => VoteInv
  <1> SUFFICES ASSUME Init PROVE VoteInv OBVIOUS
  <1>1. TypeInv BY TypeInit
  <1>2. Ahead BY EmptySeq DEF Init, Ahead, NoDigest
  <1>3. VotesKept BY DEF Init, VotesKept, Voted
  <1>4. DoneBacked BY DEF Init, DoneBacked, Certified
  <1> QED BY <1>1, <1>2, <1>3, <1>4 DEF VoteInv

LEMMA AheadNext == VoteInv /\ [Next]_vars => Ahead'
  <1> SUFFICES ASSUME VoteInv, [Next]_vars, NEW n \in Node \ Amnesiac
               PROVE  Len(id'[n]) =< Len(chain'[n]) + 1
    BY DEF Ahead
  <1>1. Len(id[n]) \in Nat /\ Len(chain[n]) \in Nat
    BY LenProperties DEF VoteInv, TypeInv, TypeOK, MachineOK, RoundOK
  <1>2. Effect(n) BY Effects DEF VoteInv
  <1>3. Len(id[n]) =< Len(chain[n]) + 1 BY DEF VoteInv, Ahead
  <1>4. CASE Proposes(n) BY <1>4, <1>1, BlockFacts DEF Proposes
  <1>5. CASE ~ Proposes(n)
    BY <1>1, <1>2, <1>3, <1>5 DEF Effect, Quiet, Commits, Stores, Forgets
  <1> QED BY <1>4, <1>5

LEMMA VotesKeptNext == VoteInv /\ [Next]_vars => VotesKept'
  <1> SUFFICES ASSUME VoteInv, [Next]_vars, NEW n \in Node \ Amnesiac
               PROVE  \A b \in Voted(n)' :
                        /\ \/ Len(b) =< Len(chain'[n])
                           \/ b = id'[n] /\ Locked(n)'
                        /\ Len(b) = Len(id'[n]) => b = id'[n]
                        /\ \A c \in Voted(n)' : Len(b) = Len(c) => b = c
    BY DEF VotesKept, Locked
  <1>1. Len(id[n]) \in Nat /\ Len(chain[n]) \in Nat
    BY LenProperties DEF VoteInv, TypeInv, TypeOK, MachineOK, RoundOK
  <1>2. Effect(n) /\ Votes(n) BY Effects DEF VoteInv
  <1>3. \A b \in Voted(n) :
           /\ Len(b) \in Nat
           /\ Len(b) =< Len(chain[n]) \/ (b = id[n] /\ Locked(n))
           /\ Len(b) = Len(id[n]) => b = id[n]
           /\ \A c \in Voted(n) : Len(b) = Len(c) => b = c
    BY VotedType DEF VoteInv, VotesKept, Locked
  <1>4. Len(id[n]) =< Len(chain[n]) + 1 BY DEF VoteInv, Ahead
  <1>5. CASE Commits(n)
    <2>1. Locked(n)' BY <1>5 DEF Commits, Locked
    <2> QED BY <1>2, <1>3, <1>5, <2>1 DEF Commits, Votes
  <1>6. CASE ~ Commits(n)
    <2>1. \A b \in Voted(n)' : b \in Voted(n) BY <1>2, <1>6 DEF Votes
    <2>2. CASE Quiet(n)
      <3>1. Locked(n) => Locked(n)' BY <2>2 DEF Quiet, Locked, Idle
      <3> QED BY <1>3, <2>1, <2>2, <3>1 DEF Quiet
    <2>3. CASE Proposes(n)
      <3>1. Len(id'[n]) = Len(chain[n]) + 1 BY <2>3, BlockFacts DEF Proposes
      <3> QED BY <1>1, <1>3, <2>1, <2>3, <3>1 DEF Proposes
    <2>4. CASE Stores(n)
      BY <1>1, <1>3, <1>4, <2>1, <2>4 DEF Stores
    <2> QED BY <1>2, <1>6, <2>2, <2>3, <2>4 DEF Effect, Forgets
  <1> QED BY <1>5, <1>6

(* Commit shares are never taken back, and only doPBFTDone confirms.       *)
LEMMA NetSteps ==
    ASSUME [Next]_vars
    PROVE  /\ commitShares \subseteq commitShares'
           /\ \/ UNCHANGED doneMsgs
              \/ \E l \in Node : \E Q \in Quorums(CommitSigners(l)) : doPBFTDone(l, Q)
  <1> USE DEF netVars
  <1> DEFINE Shares == commitShares \subseteq commitShares'
             Same == Shares /\ UNCHANGED doneMsgs
  <1>1. ASSUME NEW n \in Node, NEW m \in blockMsgs, InvokeBlockBehind(n, m)
        PROVE  Same
    BY <1>1 DEF InvokeBlockBehind
  <1>2. ASSUME NEW n \in Node, NEW m \in blockMsgs, InvokeBlockViews(n, m)
        PROVE  Same
    BY <1>2 DEF InvokeBlockViews
  <1>3. ASSUME NEW n \in Node, NEW m \in blockMsgs, InvokeBlockPrepare(n, m)
        PROVE  Same
    BY <1>3 DEF InvokeBlockPrepare
  <1>4. ASSUME NEW n \in Node, NEW m \in commitMsgs, InvokeCommit(n, m)
        PROVE  Same
    BY <1>4 DEF InvokeCommit
  <1>5. ASSUME NEW n \in Node, NEW d \in doneMsgs, ProcessDone(n, d)
        PROVE  Same
    BY <1>5 DEF ProcessDone
  <1>6. ASSUME NEW n \in Node, NEW w \in viewMsgs, ProcessView(n, w)
        PROVE  Same
    BY <1>6 DEF ProcessView
  <1>7. ASSUME NEW n \in Node, NEW p \in Node, SyncBlock(n, p)
        PROVE  Same
    BY <1>7 DEF SyncBlock
  <1>8. ASSUME NEW n \in Node, SyncEnd(n)
        PROVE  Same
    BY <1>8 DEF SyncEnd
  <1>9. ASSUME NEW n \in Node, Expire(n)
        PROVE  Same
    BY <1>9 DEF Expire
  <1>10. ASSUME NEW n \in Node, doLeaderRound(n)
        PROVE  Same
    BY <1>10 DEF doLeaderRound
  <1>11. ASSUME NEW n \in Node, NEW v \in Val, doPBFT(n, v)
        PROVE  Same
    BY <1>11 DEF doPBFT
  <1>12. ASSUME NEW n \in Node, NEW Q \in Quorums(PrepareSigners(n)), doPBFTCommit(n, Q)
        PROVE  Same
    BY <1>12 DEF doPBFTCommit
  <1>13. ASSUME NEW n \in Node, roundFails(n)
        PROVE  Same
    BY <1>13 DEF roundFails
  <1>14. ASSUME NEW n \in Node, Restart(n)
        PROVE  Same
    BY <1>14 DEF Restart
  <1>15. ASSUME NEW n \in Node, NEW Q \in Quorums(CommitSigners(n)), doPBFTDone(n, Q)
        PROVE  Shares
    BY <1>15 DEF doPBFTDone
  <1>16. ASSUME UNCHANGED vars PROVE Same BY <1>16 DEF vars
  <1> HIDE DEF Shares, Same
  <1>17. Same => Shares /\ UNCHANGED doneMsgs BY DEF Same
  <1>18. \/ Same
         \/ \E l \in Node : \E Q \in Quorums(CommitSigners(l)) : doPBFTDone(l, Q)
    BY <1>1, <1>2, <1>3, <1>4, <1>5, <1>6, <1>7, <1>8, <1>9, <1>10, <1>11, <1>12,
       <1>13, <1>14, <1>16 DEF Next
  <1> QED BY <1>15, <1>17, <1>18 DEF Shares

LEMMA DoneBackedNext == VoteInv /\ [Next]_vars => DoneBacked'
  <1> SUFFICES ASSUME VoteInv, [Next]_vars PROVE DoneBacked' OBVIOUS
  <1>1. \A n \in Node : Voted(n) \subseteq Voted(n)'
    <2>1. commitShares \subseteq commitShares' BY NetSteps
    <2> QED BY <2>1 DEF Voted
  <1>2. \A b : Backed(b) => Backed(b)' BY <1>1 DEF Backed
  <1>3. CASE UNCHANGED doneMsgs
    BY <1>2, <1>3 DEF VoteInv, DoneBacked, Certified
  <1>4. ASSUME NEW l \in Node, NEW Q \in Quorums(CommitSigners(l)), doPBFTDone(l, Q)
        PROVE  DoneBacked'
    <2>1. Q \in SUBSET Node /\ Cardinality(Q) = ByzantineThreshold
      BY DEF Quorums, CommitSigners
    <2>2. ASSUME NEW q \in Q PROVE sig[l].id \in Voted(q)
      <3> DEFINE s == [src |-> q, to |-> l, cert |-> sig[l]]
      <3>1. s \in commitShares BY DEF Quorums, CommitSigners
      <3>2. s.src = q /\ s.cert.id = sig[l].id OBVIOUS
      <3> HIDE DEF s
      <3> QED BY <3>1, <3>2 DEF Voted
    <2>3. Backed(sig[l].id) BY <2>1, <2>2 DEF Backed
    <2>4. \A d \in doneMsgs' : d \in doneMsgs \/ d.prep.id = sig[l].id
      <3>1. doneMsgs' = doneMsgs \cup {[src |-> l, prep |-> sig[l]]} BY <1>4 DEF doPBFTDone
      <3> QED BY <3>1
    <2>5. \A b \in Certified' : b \in Certified \/ b = sig[l].id
      BY <2>4 DEF Certified
    <2> QED BY <1>2, <2>3, <2>5 DEF VoteInv, DoneBacked
  <1> QED BY <1>3, <1>4, NetSteps

LEMMA VoteNext == VoteInv /\ [Next]_vars => VoteInv'
  BY TypeNext, AheadNext, VotesKeptNext, DoneBackedNext DEF VoteInv

(* Two quorums share a participant that never restarts.                    *)
LEMMA QuorumOverlap ==
    ASSUME NEW P \in SUBSET Node, Cardinality(P) = ByzantineThreshold,
           NEW Q \in SUBSET Node, Cardinality(Q) = ByzantineThreshold
    PROVE  \E n \in P \cap Q : n \notin Amnesiac
  <1>1. IsFiniteSet(Node) /\ Cardinality(Node) = N
    BY RosterAssumption, FS_Interval DEF Node
  <1>2. Amnesiac \in SUBSET Node /\ 3 * Cardinality(Amnesiac) < N
    BY FaultAssumption DEF Node
  <1>3. /\ IsFiniteSet(P) /\ IsFiniteSet(Q)
        /\ IsFiniteSet(P \cup Q) /\ Cardinality(P \cup Q) =< N
        /\ IsFiniteSet(P \cap Q) /\ IsFiniteSet(Amnesiac)
    <2>1. P \cup Q \in SUBSET Node /\ P \cap Q \in SUBSET Node OBVIOUS
    <2> QED BY <1>1, <1>2, <2>1, FS_Subset
  <1>4. Cardinality(P \cup Q)
           = Cardinality(P) + Cardinality(Q) - Cardinality(P \cap Q)
    BY <1>3, FS_Union
  <1>5. /\ Cardinality(P \cup Q) \in Nat /\ Cardinality(P \cap Q) \in Nat
        /\ Cardinality(Amnesiac) \in Nat
    BY <1>3, FS_CardinalityType
  <1>6. F \in Nat /\ 3 * F =< N - 1 /\ N - 1 < 3 * F + 3 BY RosterAssumption DEF F
  <1>7. Cardinality(P \cap Q) > Cardinality(Amnesiac)
    BY <1>2, <1>3, <1>4, <1>5, <1>6, RosterAssumption DEF ByzantineThreshold
  <1>8. ~ (P \cap Q \subseteq Amnesiac) BY <1>3, <1>5, <1>7, FS_Subset
  <1> QED BY <1>8

LEMMA VoteAgreement == VoteInv => CertAgreement
  <1> SUFFICES ASSUME VoteInv, NEW b \in Certified, NEW c \in Certified, Len(b) = Len(c)
               PROVE  b = c
    BY DEF CertAgreement
  <1>1. PICK P \in SUBSET Node : /\ Cardinality(P) = ByzantineThreshold
                                 /\ \A q \in P : b \in Voted(q)
    BY DEF VoteInv, DoneBacked, Backed
  <1>2. PICK Q \in SUBSET Node : /\ Cardinality(Q) = ByzantineThreshold
                                 /\ \A q \in Q : c \in Voted(q)
    BY DEF VoteInv, DoneBacked, Backed
  <1>3. PICK n \in P \cap Q : n \notin Amnesiac BY <1>1, <1>2, QuorumOverlap
  <1> QED BY <1>1, <1>2, <1>3 DEF VoteInv, VotesKept

(* A participant that never restarts confirms one block per height and     *)
(* stays committed to it until a block of that height is stored.           *)
THEOREM VotesKeptAlways == Spec => []VotesKept
  <1>1. VoteInv => VotesKept BY DEF VoteInv
  <1> QED BY <1>1, VoteInit, VoteNext, PTL DEF Spec

(* Agreement: whatever the number of participants, the order, the loss and *)
(* the duplication of messages, the timeouts and the restarts of at most f *)
(* participants, two blocks confirmed at one height are the same.          *)
THEOREM Agreement == Spec => []CertAgreement
  BY VoteInit, VoteNext, VoteAgreement, PTL DEF Spec
=============================================================================
