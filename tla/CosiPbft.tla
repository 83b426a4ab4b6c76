------------------------------ MODULE CosiPbft ------------------------------
(***************************************************************************)
(* The ordering service core/ordering/cosipbft: the PBFT state machine of  *)
(* every participant (pbft/pbft.go), the handlers that drive it (proc.go), *)
(* the leader's and the followers' rounds (cosipbft.go), collective        *)
(* signatures (cosi/threshold) and catching up (fastsync).                 *)
(*                                                                         *)
(* A block is represented by the chain it produces, a non-empty sequence   *)
(* of values: Front(b) stands for the parent digest, the index and the     *)
(* tree root, which are all functions of the history.  The identifier of   *)
(* a proposal (the hash of the forward link from the parent to the block)  *)
(* is then the same sequence, and <<>> is the zero digest.                 *)
(*                                                                         *)
(* A message stays in its set once it is sent: it may be handled at any    *)
(* later moment, in any order, by some participants only, by none or more  *)
(* than once, so that loss, delay, reordering and duplication need no      *)
(* action of their own.                                                    *)
(***************************************************************************)
EXTENDS Integers, FiniteSets, Sequences

CONSTANTS
    N,            \* number of participants of the (fixed) roster
    Val,          \* contents of blocks
    Gather,       \* bound: Gather[l][h] is what the pool of the leader l may give it
                  \* for the block of height h
    Reach,        \* bound: Reach[l][h] can be reached by the messages of the
                  \* leader l about blocks of height h
    LateDone,     \* FALSE: no DoneMessage arrives for a block already stored
    MaxHeight,    \* bound: length of the longest chain a leader extends
    LastLeader,   \* bound: the leader index from which nobody rotates further
    Amnesiac      \* the participants that may stop and start again

ASSUME RosterAssumption ==
    /\ N \in Nat \ {0}
    /\ LateDone \in BOOLEAN

(* A restart erases what a participant promised, so it uses up the fault   *)
(* budget: at most f of the n >= 3f + 1 participants may do it.            *)
ASSUME FaultAssumption ==
    /\ Amnesiac \subseteq 0 .. N - 1
    /\ 3 * Cardinality(Amnesiac) < N

ASSUME BoundAssumption ==
    /\ MaxHeight \in Nat
    /\ LastLeader \in Nat
    /\ Gather \in [0 .. N - 1 -> [1 .. MaxHeight + 1 -> SUBSET Val]]
    /\ Reach \in [0 .. N - 1 -> [1 .. MaxHeight -> SUBSET (0 .. N - 1)]]

Node == 0 .. N - 1

(* cosi/threshold ByzantineThreshold: how many participants must sign.     *)
F == (N - 1) \div 3
ByzantineThreshold == N - F

(* pbft.go calculateThreshold: the number of views that is NOT enough.     *)
calculateThreshold(n) == LET f == (n - 1) \div 3 IN IF f = 0 THEN n ELSE 2 * f

NoneState       == "none"
InitialState    == "initial"
PrepareState    == "prepare"
CommitState     == "commit"
ViewChangeState == "viewchange"
State == {NoneState, InitialState, PrepareState, CommitState, ViewChangeState}

NoDigest == << >>
Block == Seq(Val) \ {NoDigest}
Parent(b) == SubSeq(b, 1, Len(b) - 1)

(* A collective signature is what was signed and the mask of the signers;  *)
(* BLS aggregation is deterministic, so these two identify its bytes.  A   *)
(* commit signature is represented by the prepare signature that it signs: *)
(* nothing depends on the mask of its signers.                             *)
PrepareCert == [id : Block, mask : SUBSET Node]
NoSig == [id |-> NoDigest, mask |-> {}]

VARIABLES
    \* the state machine of each participant: pbftsm.state and pbftsm.round
    state, leader, threshold, id, prepareSig, committed, views, prevViews,
    tentative,
    \* block store of each participant, on disk
    chain,
    \* catchup[n]: a request to synchronise waits for, or runs in, the handler
    catchup,
    \* main(): the round in progress ("follow", or "gather", "prepare" and
    \* "commit" for a leader), with the digest and the prepare signature
    step, prop, sig,
    \* requests sent: BlockMessage, CommitMessage, DoneMessage, ViewMessage
    blockMsgs, commitMsgs, doneMsgs, viewMsgs,
    \* <<n, m>>: the handler of m at n is past AcceptAll
    viewed,
    \* signature shares sent back to a leader for each phase
    prepShares, commitShares

smVars     == <<state, leader, threshold, id, prepareSig, committed, views,
                prevViews, tentative>>
leaderVars == <<step, prop, sig>>
netVars    == <<blockMsgs, commitMsgs, doneMsgs, viewMsgs, viewed, prepShares,
                commitShares>>
vars == <<smVars, chain, catchup, leaderVars, netVars>>

BlockMessage  == [src : Node, block : Block, views : SUBSET Node,
                  leader : Node, last : Seq(Val)]
CommitMessage == [src : Node, cert : PrepareCert]
DoneMessage   == [src : Node, prep : PrepareCert]
ViewMessage   == [src : Node, leader : Node, last : Seq(Val)]

MachineOK ==
    /\ state \in [Node -> State]
    /\ leader \in [Node -> Node]
    /\ threshold \in [Node -> Nat]
    /\ id \in [Node -> Seq(Val)]
    /\ prepareSig \in [Node -> PrepareCert \cup {NoSig}]
    /\ committed \in [Node -> BOOLEAN]
    /\ views \in [Node -> SUBSET Node]
    /\ prevViews \in [Node -> SUBSET Node]
    /\ tentative \in [Node -> [round : Seq(Val), leader : Node]]

RoundOK ==
    /\ chain \in [Node -> Seq(Val)]
    /\ catchup \in [Node -> BOOLEAN]
    /\ step \in [Node -> {"follow", "gather", "prepare", "commit"}]
    /\ prop \in [Node -> Seq(Val)]
    /\ sig \in [Node -> PrepareCert \cup {NoSig}]

NetOK ==
    /\ blockMsgs \subseteq BlockMessage
    /\ commitMsgs \subseteq CommitMessage
    /\ doneMsgs \subseteq DoneMessage
    /\ viewMsgs \subseteq ViewMessage
    /\ viewed \subseteq Node \X BlockMessage
    /\ prepShares \subseteq [src : Node, to : Node, id : Block]
    /\ commitShares \subseteq [src : Node, to : Node, cert : PrepareCert]

(* The types: in particular, what is sent and signed is a block and never  *)
(* the zero digest of a machine that has no proposal.                      *)
TypeOK == MachineOK /\ RoundOK /\ NetOK

(* doRound: the leader l is read once, at the beginning of the round.      *)
newRound(n, l) == IF l = n THEN "gather" ELSE "follow"

Init ==
    /\ state = [n \in Node |-> NoneState]
    /\ leader = [n \in Node |-> 0]
    /\ threshold = [n \in Node |-> 0]
    /\ id = [n \in Node |-> NoDigest]
    /\ prepareSig = [n \in Node |-> NoSig]
    /\ committed = [n \in Node |-> FALSE]
    /\ views = [n \in Node |-> {}]
    /\ prevViews = [n \in Node |-> {}]
    /\ tentative = [n \in Node |-> [round |-> NoDigest, leader |-> 0]]
    /\ chain = [n \in Node |-> << >>]
    /\ catchup = [n \in Node |-> FALSE]
    /\ step = [n \in Node |-> newRound(n, 0)]
    /\ prop = [n \in Node |-> NoDigest]
    /\ sig = [n \in Node |-> NoSig]
    /\ blockMsgs = {} /\ commitMsgs = {} /\ doneMsgs = {} /\ viewMsgs = {}
    /\ viewed = {} /\ prepShares = {} /\ commitShares = {}
-----------------------------------------------------------------------------
(* Helpers of the state machine.                                           *)

(* init(): the first view-change operation leaves the none state.          *)
initThreshold(n) == IF state[n] = NoneState THEN calculateThreshold(N)
                                            ELSE threshold[n]
initState(n) == IF state[n] = NoneState THEN InitialState ELSE state[n]

nextLeader(n) == (leader[n] + 1) % N

(* verifyPrepare: root, index and parent are those of the local chain.     *)
verifyPrepare(n, b) == Parent(b) = chain[n]

(* Variant: a view change forgets that the participant has committed.      *)
stateAfterViewsForgets(n) == InitialState

(* The state that checkViewChange moves to once there are enough views.    *)
stateAfterViews(n) == IF committed[n] THEN CommitState ELSE InitialState

(* checkViewChange, for a machine in state st that holds the views vs for  *)
(* the leader l.                                                           *)
checkViewChange(n, st, th, vs, l) ==
    /\ threshold' = [threshold EXCEPT ![n] = th]
    /\ IF st = ViewChangeState /\ Cardinality(vs) > th
       THEN /\ prevViews' = [prevViews EXCEPT ![n] = vs]
            /\ views' = [views EXCEPT ![n] = {}]
            /\ leader' = [leader EXCEPT ![n] = l]
            /\ state' = [state EXCEPT ![n] = stateAfterViews(n)]
       ELSE /\ views' = [views EXCEPT ![n] = vs]
            /\ state' = [state EXCEPT ![n] = st]
            /\ UNCHANGED <<prevViews, leader>>
-----------------------------------------------------------------------------
(* Operations of the state machine (pbft.go), each under its mutex.        *)

(* Prepare: a proposal b received from the participant src.  A proposal of *)
(* somebody else than the leader is refused but remembered.  The digest    *)
(* returned is the identifier held after the call, whatever b is.          *)
PrepareAccepts(n, src, b) ==
    /\ state[n] # ViewChangeState
    /\ src = leader[n]
    /\ state[n] \in {PrepareState, CommitState} \/ verifyPrepare(n, b)

Prepare(n, src, b) ==
    /\ state[n] # ViewChangeState
    /\ IF src # leader[n]
       THEN /\ tentative' = [tentative EXCEPT ![n] = [round |-> b, leader |-> src]]
            /\ UNCHANGED <<state, threshold, id>>
       ELSE IF state[n] \in {PrepareState, CommitState}
       THEN UNCHANGED <<state, threshold, id, tentative>>
       ELSE /\ threshold' = [threshold EXCEPT ![n] = calculateThreshold(N)]
            /\ id' = [id EXCEPT ![n] = IF verifyPrepare(n, b) THEN b ELSE @]
            /\ state' = [state EXCEPT ![n] = IF verifyPrepare(n, b)
                                             THEN PrepareState ELSE @]
            /\ UNCHANGED tentative
    /\ UNCHANGED <<leader, prepareSig, committed, views, prevViews>>

(* Variant: the signature is not checked against the current proposal.     *)
CanCommitAny(n, c) == state[n] \in {PrepareState, CommitState}

(* Commit: the prepare signature c is valid for the current proposal.      *)
CanCommit(n, c) == state[n] \in {PrepareState, CommitState} /\ c.id = id[n]

Commit(n, c) ==
    /\ prepareSig' = [prepareSig EXCEPT ![n] = c]
    /\ committed' = [committed EXCEPT ![n] = TRUE]
    /\ state' = [state EXCEPT ![n] = CommitState]
    /\ UNCHANGED <<leader, threshold, id, views, prevViews, tentative>>

(* Variant: the round is closed although the block is not stored.          *)
FinalizeLoses(n, d) ==
    /\ state[n] = CommitState
    /\ d.prep = prepareSig[n]
    /\ prevViews' = [prevViews EXCEPT ![n] = {}]
    /\ views' = [views EXCEPT ![n] = {}]
    /\ committed' = [committed EXCEPT ![n] = FALSE]
    /\ state' = [state EXCEPT ![n] = InitialState]
    /\ UNCHANGED <<chain, leader, threshold, id, prepareSig, tentative>>

(* Finalize: the commit signature d is over the prepare signature held by  *)
(* the machine; the tree and the block are persisted in one transaction.   *)
(* The block stored is the one of the round, linked to the last block.     *)
Finalize(n, d) ==
    /\ state[n] = CommitState
    /\ d.prep = prepareSig[n]
    /\ chain' = [chain EXCEPT ![n] = Append(@, id[n][Len(id[n])])]
    /\ prevViews' = [prevViews EXCEPT ![n] = {}]
    /\ views' = [views EXCEPT ![n] = {}]
    /\ committed' = [committed EXCEPT ![n] = FALSE]
    /\ state' = [state EXCEPT ![n] = InitialState]
    /\ UNCHANGED <<leader, threshold, id, prepareSig, tentative>>

(* Accept: a view for the next leader and the last block is kept, in       *)
(* whatever state the machine is.                                          *)
Accept(n, v) ==
    /\ IF v.leader = nextLeader(n) /\ v.leader # leader[n] /\ v.last = chain[n]
       THEN checkViewChange(n, initState(n), initThreshold(n),
                            views[n] \cup {v.src}, v.leader)
       ELSE /\ threshold' = [threshold EXCEPT ![n] = initThreshold(n)]
            /\ state' = [state EXCEPT ![n] = initState(n)]
            /\ UNCHANGED <<leader, views, prevViews>>
    /\ UNCHANGED <<id, prepareSig, committed, tentative>>

(* AcceptAll: the views of a BlockMessage, all for m.leader and m.last.    *)
EnoughViews(n, m) == Cardinality(m.views) > initThreshold(n)
ViewsAccepted(n, m) ==
    EnoughViews(n, m) /\ (m.leader = leader[n] \/ m.last = chain[n])

AcceptAll(n, m) ==
    /\ IF ViewsAccepted(n, m) /\ m.leader # leader[n]
       THEN checkViewChange(n, ViewChangeState, initThreshold(n), m.views, m.leader)
       ELSE /\ threshold' = [threshold EXCEPT ![n] = initThreshold(n)]
            /\ state' = [state EXCEPT ![n] = initState(n)]
            /\ UNCHANGED <<leader, views, prevViews>>
    /\ UNCHANGED <<id, prepareSig, committed, tentative>>

(* CatchUp: a link to the block b with valid signatures is stored and the  *)
(* machine goes back to the initial state.  The round keeps its proposal,  *)
(* its signature and its committed flag.                                   *)
CatchUp(n, b) ==
    /\ ~ (state[n] = CommitState /\ id[n] # b)
    /\ verifyPrepare(n, b)
    /\ \E d \in doneMsgs : d.prep.id = b
    /\ chain' = [chain EXCEPT ![n] = b]
    /\ leader' = [leader EXCEPT ![n] = IF b = tentative[n].round
                                       THEN tentative[n].leader ELSE @]
    /\ views' = [views EXCEPT ![n] = {}]
    /\ prevViews' = [prevViews EXCEPT ![n] = {}]
    /\ state' = [state EXCEPT ![n] = InitialState]
    /\ UNCHANGED <<threshold, id, prepareSig, committed, tentative>>
-----------------------------------------------------------------------------
(* Handlers (proc.go) and rounds (cosipbft.go).                            *)

(* Invoke(BlockMessage): a participant that misses blocks only asks for    *)
(* them.                                                                   *)
Behind(n, m) == Len(m.block) - 1 > Len(chain[n])

InvokeBlockBehind(n, m) ==
    /\ Behind(n, m)
    /\ catchup' = [catchup EXCEPT ![n] = TRUE]
    /\ UNCHANGED <<smVars, chain, leaderVars, netVars>>

(* Otherwise the views of the message are processed first ...              *)
InvokeBlockViews(n, m) ==
    /\ ~ Behind(n, m)
    /\ m.views # {}
    /\ AcceptAll(n, m)
    /\ viewed' = IF ViewsAccepted(n, m) THEN viewed \cup {<<n, m>>} ELSE viewed
    /\ UNCHANGED <<chain, catchup, leaderVars, blockMsgs, commitMsgs, doneMsgs,
                   viewMsgs, prepShares, commitShares>>

(* ... and then, in a critical section of its own, the proposal.           *)
InvokeBlockPrepare(n, m) ==
    /\ \/ m.views = {} /\ ~ Behind(n, m)
       \/ <<n, m>> \in viewed
    /\ Prepare(n, m.src, m.block)
    /\ prepShares' = IF PrepareAccepts(n, m.src, m.block)
                     THEN prepShares \cup {[src |-> n, to |-> m.src, id |-> id'[n]]}
                     ELSE prepShares
    /\ UNCHANGED <<chain, catchup, leaderVars, blockMsgs, commitMsgs, doneMsgs,
                   viewMsgs, viewed, commitShares>>

(* Invoke(CommitMessage): the share signs the bytes of the signature.      *)
InvokeCommit(n, m) ==
    /\ CanCommit(n, m.cert)
    /\ Commit(n, m.cert)
    /\ commitShares' = commitShares \cup {[src |-> n, to |-> m.src, cert |-> m.cert]}
    /\ UNCHANGED <<chain, catchup, leaderVars, blockMsgs, commitMsgs, doneMsgs,
                   viewMsgs, viewed, prepShares>>

(* Process(DoneMessage): a participant without proposal catches up.        *)
ProcessDone(n, d) ==
    /\ LateDone \/ Len(d.prep.id) > Len(chain[n])
    /\ IF state[n] = InitialState
       THEN /\ catchup' = [catchup EXCEPT ![n] = TRUE]
            /\ UNCHANGED <<smVars, chain>>
       ELSE /\ Finalize(n, d)
            /\ UNCHANGED catchup
    /\ UNCHANGED <<leaderVars, netVars>>

(* Process(ViewMessage).                                                   *)
ProcessView(n, v) ==
    /\ Accept(n, v)
    /\ UNCHANGED <<chain, catchup, leaderVars, netVars>>

(* Variant: the last link of p is stored, whatever block it starts from.   *)
SyncBlockLast(n, p) ==
    /\ catchup[n]
    /\ Len(chain[p]) > Len(chain[n])
    /\ chain' = [chain EXCEPT ![n] = Append(@, chain[p][Len(chain[p])])]
    /\ catchup' = [catchup EXCEPT ![n] = FALSE]
    /\ UNCHANGED <<smVars, leaderVars, netVars>>

(* catchupHandler / fastsync Sync: the next link known by another          *)
(* participant p is processed; the synchronisation goes on while p has     *)
(* more of them.                                                           *)
SyncBlock(n, p) ==
    /\ catchup[n]
    /\ Len(chain[p]) > Len(chain[n])
    /\ CatchUp(n, SubSeq(chain[p], 1, Len(chain[n]) + 1))
    /\ catchup' = [catchup EXCEPT ![n] = Len(chain[p]) > Len(chain[n]) + 1]
    /\ UNCHANGED <<leaderVars, netVars>>

(* A synchronisation ends without a block: nobody has more, the links are  *)
(* refused, or the deadline has passed.                                    *)
SyncEnd(n) ==
    /\ catchup[n]
    /\ catchup' = [catchup EXCEPT ![n] = FALSE]
    /\ UNCHANGED <<smVars, chain, leaderVars, netVars>>

(* doFollowerRound: the round of a follower times out.  Expire signs a     *)
(* view for the next leader, which is then sent to the roster.  The leader *)
(* is not read again: it may be this participant by now.                   *)
Expire(n) ==
    /\ step[n] = "follow"
    /\ leader[n] # LastLeader
    /\ checkViewChange(n, ViewChangeState, initThreshold(n), views[n] \cup {n},
                       nextLeader(n))
    /\ viewMsgs' = viewMsgs \cup
          {[src |-> n, leader |-> nextLeader(n), last |-> chain[n]]}
    /\ step' = [step EXCEPT ![n] = newRound(n, leader'[n])]
    /\ UNCHANGED <<id, prepareSig, committed, tentative, chain, catchup, prop, sig,
                   blockMsgs, commitMsgs, doneMsgs, viewed, prepShares,
                   commitShares>>

(* The round of a follower ends with a block or without a late             *)
(* transaction, and the next one is the round of a leader.                 *)
doLeaderRound(n) ==
    /\ step[n] = "follow"
    /\ leader[n] = n
    /\ step' = [step EXCEPT ![n] = "gather"]
    /\ UNCHANGED <<smVars, chain, catchup, prop, sig, netVars>>

(* doPBFT, once Gather has returned, until the first Sign: a committed     *)
(* leader proposes its candidate again, another one a new block.  Sign     *)
(* invokes the leader's own reactor first, and sends nothing when that     *)
(* refuses the proposal or its views.                                      *)
doPBFT(l, v) ==
    /\ step[l] = "gather"
    /\ state[l] # CommitState => Len(chain[l]) < MaxHeight
    /\ LET b == IF state[l] = CommitState THEN id[l] ELSE Append(chain[l], v)
       IN  /\ Prepare(l, l, b)
           /\ IF /\ leader[l] = l
                 /\ prevViews[l] = {} \/ Cardinality(prevViews[l]) > threshold'[l]
              THEN /\ blockMsgs' = blockMsgs \cup
                         {[src |-> l, block |-> b, views |-> prevViews[l],
                           leader |-> leader[l], last |-> chain[l]]}
                   /\ step' = [step EXCEPT ![l] = "prepare"]
                   /\ prop' = [prop EXCEPT ![l] = id'[l]]
              ELSE /\ step' = [step EXCEPT ![l] = newRound(l, leader[l])]
                   /\ UNCHANGED <<blockMsgs, prop>>
    /\ UNCHANGED <<chain, catchup, sig, commitMsgs, doneMsgs, viewMsgs, viewed,
                   prepShares, commitShares>>

(* Sign: a quorum of shares for what the leader l asks to sign.            *)
PrepareSigners(l) ==
    {n \in Node : [src |-> n, to |-> l, id |-> prop[l]] \in prepShares}
CommitSigners(l) ==
    {n \in Node : [src |-> n, to |-> l, cert |-> sig[l]] \in commitShares}
Quorums(S) == {Q \in SUBSET S : Cardinality(Q) = ByzantineThreshold}

(* The prepare signature is complete: doPBFT moves to the commit phase,    *)
(* where Sign again starts with the leader's own reactor.                  *)
doPBFTCommit(l, Q) ==
    /\ step[l] = "prepare"
    /\ LET c == [id |-> prop[l], mask |-> Q]
       IN  IF CanCommit(l, c)
           THEN /\ Commit(l, c)
                /\ commitMsgs' = commitMsgs \cup {[src |-> l, cert |-> c]}
                /\ step' = [step EXCEPT ![l] = "commit"]
                /\ sig' = [sig EXCEPT ![l] = c]
           ELSE /\ step' = [step EXCEPT ![l] = newRound(l, leader[l])]
                /\ UNCHANGED <<smVars, commitMsgs, sig>>
    /\ UNCHANGED <<chain, catchup, prop, blockMsgs, doneMsgs, viewMsgs, viewed,
                   prepShares, commitShares>>

(* The commit signature is complete: the propagation phase.                *)
doPBFTDone(l, Q) ==
    /\ step[l] = "commit"
    /\ doneMsgs' = doneMsgs \cup {[src |-> l, prep |-> sig[l]]}
    /\ step' = [step EXCEPT ![l] = newRound(l, leader[l])]
    /\ UNCHANGED <<smVars, chain, catchup, prop, sig, blockMsgs, commitMsgs,
                   viewMsgs, viewed, prepShares, commitShares>>

(* The round of the leader fails: the context of Gather or of a Sign is    *)
(* done, or the machine is changing its view.                              *)
roundFails(l) ==
    /\ step[l] # "follow"
    /\ step' = [step EXCEPT ![l] = newRound(l, leader[l])]
    /\ UNCHANGED <<smVars, chain, catchup, prop, sig, netVars>>

(* A participant stops and starts again: only its block store is on disk.  *)
(* NewServiceStart asks for a synchronisation.                             *)
Restart(n) ==
    /\ n \in Amnesiac
    /\ state' = [state EXCEPT ![n] = NoneState]
    /\ leader' = [leader EXCEPT ![n] = 0]
    /\ threshold' = [threshold EXCEPT ![n] = 0]
    /\ id' = [id EXCEPT ![n] = NoDigest]
    /\ prepareSig' = [prepareSig EXCEPT ![n] = NoSig]
    /\ committed' = [committed EXCEPT ![n] = FALSE]
    /\ views' = [views EXCEPT ![n] = {}]
    /\ prevViews' = [prevViews EXCEPT ![n] = {}]
    /\ tentative' = [tentative EXCEPT ![n] = [round |-> NoDigest, leader |-> 0]]
    /\ catchup' = [catchup EXCEPT ![n] = TRUE]
    /\ step' = [step EXCEPT ![n] = newRound(n, 0)]
    /\ prop' = [prop EXCEPT ![n] = NoDigest]
    /\ sig' = [sig EXCEPT ![n] = NoSig]
    /\ viewed' = {p \in viewed : p[1] # n}
    /\ UNCHANGED <<chain, blockMsgs, commitMsgs, doneMsgs, viewMsgs, prepShares,
                   commitShares>>

(* Gather: whether the pool of n can return v.                             *)
Gathers(n, v) == v \in Gather[n][Len(chain[n]) + 1]

(* Whether a message of the leader l about the block b can reach n.        *)
Reaches(l, b, n) == n \in Reach[l][Len(b)]

Next ==
    \E n \in Node :
       \/ \E m \in blockMsgs :
             /\ Reaches(m.src, m.block, n)
             /\ \/ InvokeBlockBehind(n, m)
                \/ InvokeBlockViews(n, m)
                \/ InvokeBlockPrepare(n, m)
       \/ \E m \in commitMsgs : Reaches(m.src, m.cert.id, n) /\ InvokeCommit(n, m)
       \/ \E d \in doneMsgs : Reaches(d.src, d.prep.id, n) /\ ProcessDone(n, d)
       \/ \E v \in viewMsgs : ProcessView(n, v)
       \/ \E p \in Node : SyncBlock(n, p)
       \/ SyncEnd(n)
       \/ Expire(n)
       \/ doLeaderRound(n)
       \/ \E v \in Val : Gathers(n, v) /\ doPBFT(n, v)
       \/ \E Q \in Quorums(PrepareSigners(n)) : doPBFTCommit(n, Q)
       \/ \E Q \in Quorums(CommitSigners(n)) : doPBFTDone(n, Q)
       \/ roundFails(n)
       \/ Restart(n)

Spec == Init /\ [][Next]_vars
-----------------------------------------------------------------------------
(* Properties.                                                             *)

(* The blocks for which a commit signature of a quorum exists: exactly     *)
(* these pass Finalize or CatchUp.                                         *)
Certified == {d.prep.id : d \in doneMsgs}

(* Two different blocks of the same height are never both confirmed by a   *)
(* commit signature, whatever leaders, timeouts, view changes,             *)
(* synchronisations and (few enough) restarts do.                          *)
CertAgreement == \A b, c \in Certified : Len(b) = Len(c) => b = c

(* What a participant that never restarts keeps of the blocks it confirmed *)
(* with a commit share: at each height there is one, it is the proposal of *)
(* the round when that has the same height, and until a block of that      *)
(* height is stored the machine stays committed to it.                     *)
Voted(n) == {s.cert.id : s \in {t \in commitShares : t.src = n}}
VotesKept ==
    \A n \in Node \ Amnesiac : \A b \in Voted(n) :
       /\ \/ Len(b) =< Len(chain[n])
          \/ b = id[n] /\ committed[n] /\ state[n] \in {CommitState, ViewChangeState}
       /\ Len(b) = Len(id[n]) => b = id[n]
       /\ \A c \in Voted(n) : Len(b) = Len(c) => b = c

(* The chains that the participants store never diverge: of two of them,   *)
(* one is a prefix of the other.                                           *)
ChainAgreement ==
    \A m, n \in Node : Len(chain[m]) =< Len(chain[n])
                       => chain[m] = SubSeq(chain[n], 1, Len(chain[m]))

(* Every block that a participant stores was confirmed by a quorum: each   *)
(* link of its chain carries signatures that prove it.                     *)
StoredCertified ==
    \A n \in Node : \A k \in 1 .. Len(chain[n]) : SubSeq(chain[n], 1, k) \in Certified

(* A participant committed to a candidate refuses a different one: until   *)
(* it stores a block, it signs nothing else in a prepare phase.            *)
LockKept ==
    [][\A n \in Node : \A s \in prepShares' \ prepShares :
          /\ s.src = n
          /\ committed[n]
          /\ Parent(id[n]) = chain[n]
          => s.id = id[n]]_vars

(* The log is the longest confirmed chain.                                 *)
Longest(C) == CHOOSE b \in C \cup {NoDigest} : \A c \in C : Len(c) =< Len(b)
Log == Longest(Certified)

(* The service implements the single append-only log: every confirmed      *)
(* block extends the previous one, and confirming it again changes         *)
(* nothing.                                                                *)
OneLog == INSTANCE BlockLog WITH confirmed <- Log
ImplementsLedger == OneLog!OneChain
=============================================================================
