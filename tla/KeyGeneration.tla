---------------------------- MODULE KeyGeneration ----------------------------
(***************************************************************************)
(* Distributed key generation and resharing of dkg/pedersen: the calls of  *)
(* an actor (Setup, Reshare, and the decryption requests), and on every    *)
(* node the goroutine that a start message launches: it deals, answers the *)
(* deals of the others, waits for the responses, and announces the key.    *)
(*                                                                         *)
(* A secret sharing is named by its generator: the call that created it    *)
(* (every call draws fresh polynomials), the committee that deals and the  *)
(* committee that receives.  A public key is the set of dealers that       *)
(* contributed to it.  The channels of a node are sets: the messages of    *)
(* different senders have no order (handler.go).                           *)
(***************************************************************************)
EXTENDS Naturals, FiniteSets, FiniteSetsExt, Sequences

CONSTANTS Node,     \* the nodes that listen
          Plans,    \* sequences of calls: Setup, then resharings
          Overlap,  \* whether decryptions overlap a resharing that is under way
          MaxDown,  \* how many nodes may stop
          None      \* no generator, no key

ASSUME PlanAssumption ==
    /\ \A p \in Plans : p \in Seq([addrs : SUBSET Node \ {{}}, t : Nat])
    /\ MaxDown \in Nat /\ Overlap \in BOOLEAN

VARIABLES node,      \* node[n]: state, instance and goroutine of n
          starts,    \* start messages that are not handled yet
          deals, reshares, responses,  \* the channels of each instance
          call,      \* the call of Setup or Reshare under way
          decrypt,   \* the decryption under way
          down,      \* nodes that stopped
          plan,      \* the calls that are made
          slow       \* whether a timeout may be shorter than a delay

chans == <<deals, reshares, responses>>
env   == <<down, plan, slow>>
vars  == <<node, starts, deals, reshares, responses, call, decrypt, down, plan, slow>>

(* The configuration of a generator: t of the dealers are needed.          *)
Gen(k, old, new, t) == [call |-> k, old |-> old, new |-> new, t |-> t]

instance(running) ==
    [state |-> "initial", participants |-> {}, threshold |-> 0, key |-> None,
     share |-> None, gen |-> None, base |-> None, running |-> running,
     pc |-> "idle", type |-> "new", old |-> {}, tOld |-> 0, handled |-> {},
     seen |-> {}, expected |-> 0, call |-> 0]

newInstance == instance(TRUE)

Init ==
    /\ node = [n \in Node |-> newInstance]
    /\ starts = {}
    /\ deals = [n \in Node |-> {}]
    /\ reshares = [n \in Node |-> {}]
    /\ responses = [n \in Node |-> {}]
    /\ call = [k |-> 0, by |-> None, stage |-> "idle", all |-> {}, acks |-> {},
               tOld |-> 0, good |-> 0]
    /\ decrypt = [by |-> None, addrs |-> {}, need |-> 0, replies |-> {}]
    /\ down = {} /\ plan \in Plans /\ slow \in BOOLEAN
-----------------------------------------------------------------------------
(* The generator of kyber, as dkg.go uses it.                              *)

(* The dealers that every receiver approved; Certified wants all of them.  *)
Qual(i) == {d \in i.gen.old : \A r \in i.gen.new : <<d, r>> \in i.seen}

Certified(i) == Qual(i) = i.gen.old

(* DistKeyShare is for receivers that know of enough qualified dealers.    *)
HasShare(n) ==
    /\ node[n].gen # None
    /\ n \in node[n].gen.new
    /\ Cardinality(Qual(node[n])) >= node[n].gen.t

(* The public key: the sum of the dealers' secrets, or the key reshared.   *)
Public(n) == IF node[n].gen.call = 1 THEN Qual(node[n]) ELSE node[n].base

(* ProcessDeal accepts a deal of the same sharing, once per dealer.        *)
Accepts(gen, handled, d) ==
    /\ d.gen = gen
    /\ d.dealer \in gen.old
    /\ d.dealer \notin handled

(* What a processed deal approves.  At the setup a dealer does not respond *)
(* to its own deal: its approval is implied.                               *)
Approved(n, d) ==
    {<<d.dealer, n>>} \cup IF d.gen.call = 1 THEN {<<d.dealer, d.dealer>>} ELSE {}
-----------------------------------------------------------------------------
Done(n) == node[n].state = "certified"

Working(n) == n \notin down /\ node[n].pc # "idle"

(* The goroutine of a node ends; after an error the state stays as it is.   *)
Ended(i) == [i EXCEPT !.pc = "idle", !.running = FALSE]

Put(chan, to, m) ==
    [n \in Node |-> IF n \in to THEN chan[n] \cup {m} ELSE chan[n]]

(* handleMessage and start, for a start message of a setup.                *)
start(n) ==
    \E m \in starts :
        /\ m.to = n /\ m.k = 1 /\ n \notin down
        /\ starts' = starts \ {m}
        /\ node' = [node EXCEPT ![n] =
              IF @.state # "initial" THEN [@ EXCEPT !.running = FALSE]
              ELSE [@ EXCEPT !.state = "sharing", !.pc = "deal", !.call = 1,
                             !.gen = Gen(1, plan[1].addrs, plan[1].addrs, plan[1].t),
                             !.participants = plan[1].addrs,
                             !.threshold = plan[1].t]]
        /\ UNCHANGED <<chans, call, decrypt, env>>

(* deal: a deal that cannot be sent is only logged.                        *)
deal(n) ==
    /\ Working(n) /\ node[n].pc = "deal"
    /\ deals' = Put(deals, node[n].participants \ ({n} \cup down),
                    [gen |-> node[n].gen, dealer |-> n])
    /\ node' = [node EXCEPT ![n].pc = "respond", ![n].seen = {<<n, n>>}]
    /\ UNCHANGED <<starts, reshares, responses, call, decrypt, env>>

(* A response is not sent to its sender.                                   *)
Others(n, to) == to \ {n}

(* handleDeal: the deal d is processed by the instance i of n, and the     *)
(* response sent to the nodes of to.                                       *)
handleDeal(n, i, d, to) ==
    LET others == Others(n, to)
        resp   == [gen |-> d.gen, dealer |-> d.dealer, by |-> n]
    IN  \/ /\ ~Accepts(i.gen, i.handled, d)
           /\ node' = [node EXCEPT ![n] = Ended(i)]
           /\ UNCHANGED responses
        \/ /\ Accepts(i.gen, i.handled, d)
           /\ others \cap down = {}
           /\ node' = [node EXCEPT ![n] =
                 [i EXCEPT !.handled = @ \cup {d.dealer}, !.seen = @ \cup Approved(n, d)]]
           /\ responses' = Put(responses, others, resp)
        \/ /\ Accepts(i.gen, i.handled, d)
           /\ others \cap down # {}
           /\ node' = [node EXCEPT ![n] = Ended(i)]
           /\ \E sent \in SUBSET (others \ down) : responses' = Put(responses, sent, resp)

(* respond: one deal of the others.                                        *)
respond(n) ==
    /\ Working(n) /\ node[n].pc = "respond"
    /\ Cardinality(node[n].handled) < Cardinality(node[n].participants) - 1
    /\ \E d \in deals[n] :
          /\ deals' = [deals EXCEPT ![n] = @ \ {d}]
          /\ handleDeal(n, node[n], d, node[n].participants)
    /\ UNCHANGED <<starts, reshares, call, decrypt, env>>

(* doDKG: how many responses the certification waits for.                  *)
doDKG(n) ==
    LET others == Cardinality(node[n].participants) - 1
    IN  /\ Working(n) /\ node[n].pc = "respond"
        /\ Cardinality(node[n].handled) = others
        /\ node' = [node EXCEPT ![n].pc = "certify", ![n].expected = others * others]
        /\ UNCHANGED <<starts, chans, call, decrypt, env>>
-----------------------------------------------------------------------------
(* certify, once the expected number of responses is there: nobody else    *)
(* reads the channel.  Then the state is switched; the share comes later.  *)
certify(n) ==
    /\ Working(n) /\ node[n].pc = "certify"
    /\ \E R \in kSubset(node[n].expected, responses[n]) :
          LET i == [node[n] EXCEPT !.seen = @ \cup {<<r.dealer, r.by>> : r \in R}]
          IN  /\ responses' = [responses EXCEPT ![n] = @ \ R]
              /\ node' = [node EXCEPT ![n] =
                    IF (\A r \in R : r.gen = i.gen) /\ Certified(i)
                    THEN [i EXCEPT !.state = "certified", !.pc = "finalize"]
                    ELSE Ended(i)]
    /\ UNCHANGED <<starts, deals, reshares, call, decrypt, env>>

(* Variant: a node that stays keeps its share.                             *)
UpdatesNew(i) == i.call = 1 \/ i.key = None

(* Who takes a new share at the end: old nodes keep theirs.                *)
Updates(i) == i.call = 1 \/ i.key = None \/ i.type = "common"

(* finalize and finalizeReshare: key and share, before the announcement.   *)
finalize(n) ==
    /\ Working(n) /\ node[n].pc = "finalize"
    /\ node' = [node EXCEPT ![n] =
          IF Updates(@)
          THEN IF HasShare(n)
               THEN [@ EXCEPT !.key = Public(n), !.share = node[n].gen, !.pc = "announce"]
               ELSE Ended(@)
          ELSE [@ EXCEPT !.pc = "announce"]]
    /\ UNCHANGED <<starts, chans, call, decrypt, env>>

(* The announcement of the key to the actor that called.                   *)
announce(n) ==
    /\ Working(n) /\ node[n].pc = "announce"
    /\ node' = [node EXCEPT ![n] = Ended(@)]
    /\ call' = IF call.stage \in {"ask", "wait"} /\ call.k = node[n].call
               THEN [call EXCEPT !.acks = @ \cup {[from |-> n, key |-> node[n].key]}]
               ELSE call
    /\ UNCHANGED <<starts, chans, decrypt, env>>
-----------------------------------------------------------------------------
(* doReshare: the node types.                                              *)
nodeType(n, new) ==
    IF node[n].key = None THEN "new"
    ELSE IF n \in new /\ n \in node[n].participants THEN "common" ELSE "old"


(* The state of a node that reshares: it refuses requests.                 *)
resharing == "resharing"

(* reshare and the beginning of doReshare, for a start message.            *)
reshare(n) ==
    \E m \in starts :
        LET new == plan[m.k].addrs
            i   == [node[n] EXCEPT !.state = resharing, !.type = nodeType(n, new),
                                   !.call = m.k, !.handled = {}, !.seen = {}]
        IN  /\ m.to = n /\ m.k > 1 /\ n \notin down
            /\ starts' = starts \ {m}
            /\ node' = [node EXCEPT ![n] =
                  IF @.state \notin {"initial", "certified"} THEN [@ EXCEPT !.running = FALSE]
                  ELSE IF i.type = "new"
                  THEN [i EXCEPT !.pc = "receive", !.gen = None, !.old = m.old, !.tOld = m.tOld]
                  ELSE IF HasShare(n)
                  THEN [i EXCEPT !.pc = "send", !.base = Public(n), !.old = node[n].participants,
                                 !.gen = Gen(m.k, node[n].participants, new, node[n].threshold)]
                  ELSE Ended([@ EXCEPT !.state = resharing])]
            /\ UNCHANGED <<chans, call, decrypt, env>>


(* doReshare: how many responses the certification waits for.              *)
expectedResponses(i, t) ==
    CASE i.type = "old"    -> t * Cardinality(i.old)
      [] i.type = "common" -> (t - 1) * Cardinality(i.old)
      [] i.type = "new"    -> (t - 1) * i.tOld

(* sendDealsResharing, and what an old node, which gets no deal, expects.  *)
sendDealsResharing(n) ==
    LET i    == node[n]
        new  == plan[i.call].addrs
        msg  == [gen |-> i.gen, dealer |-> n, key |-> i.base]
    IN  /\ Working(n) /\ i.pc = "send"
        /\ \/ /\ new \cap down = {}
              /\ reshares' = Put(reshares, new, msg)
              /\ node' = [node EXCEPT ![n] =
                    IF i.type = "common" THEN [i EXCEPT !.pc = "receive"]
                    ELSE [i EXCEPT !.pc = "certify",
                                   !.expected = expectedResponses(i, plan[i.call].t)]]
           \/ /\ new \cap down # {}
              /\ \E sent \in SUBSET (new \ down) : reshares' = Put(reshares, sent, msg)
              /\ node' = [node EXCEPT ![n] = Ended(i)]
        /\ UNCHANGED <<starts, deals, responses, call, decrypt, env>>

(* receiveDealsResharing: one deal.  The first one gives a new node the    *)
(* public coefficients of its generator.                                   *)
receiveDealsResharing(n) ==
    /\ Working(n) /\ node[n].pc = "receive"
    /\ Cardinality(node[n].handled) < Cardinality(node[n].old)
    /\ \E d \in reshares[n] :
          LET new == plan[node[n].call].addrs
              i   == IF node[n].type = "new" /\ node[n].handled = {}
                     THEN [node[n] EXCEPT !.gen = Gen(node[n].call, node[n].old, new, node[n].tOld),
                                          !.base = d.key]
                     ELSE node[n]
          IN  /\ reshares' = [reshares EXCEPT ![n] = @ \ {d}]
              /\ handleDeal(n, i, d, new \cup node[n].old)
    /\ UNCHANGED <<starts, deals, call, decrypt, env>>

(* doReshare, after the deals: the new committee is saved.                 *)
doReshare(n) ==
    LET i == node[n]
    IN  /\ Working(n) /\ i.pc = "receive"
        /\ Cardinality(i.handled) = Cardinality(i.old)
        /\ node' = [node EXCEPT ![n] =
              [i EXCEPT !.pc = "certify", !.participants = plan[i.call].addrs,
                        !.threshold = plan[i.call].t,
                        !.expected = expectedResponses(i, plan[i.call].t)]]
        /\ UNCHANGED <<starts, chans, call, decrypt, env>>
-----------------------------------------------------------------------------
(* The calls.                                                              *)

Asked(to, k, old, tOld) == {[to |-> n, k |-> k, old |-> old, tOld |-> tOld] : n \in to}

(* Setup: the start message goes to all; one failure ends the call.        *)
Setup(a) ==
    LET p == plan[1]
        n == Cardinality(p.addrs)
    IN  /\ call.k = 0 /\ a \notin down /\ ~Done(a)
        /\ p.t >= (IF n < 2 THEN 1 ELSE 2) /\ p.t <= n
        /\ starts' = starts \cup Asked(p.addrs \ down, 1, {}, 0)
        /\ call' = [call EXCEPT !.k = 1, !.by = a, !.all = p.addrs,
                                !.stage = IF p.addrs \cap down = {} THEN "wait" ELSE "idle"]
        /\ UNCHANGED <<node, chans, decrypt, env>>

(* Reshare, up to the request to the old and common nodes.  (Only after a  *)
(* call that succeeded: a second goroutine of a node is not modelled.)     *)
Reshare(a) ==
    LET k   == call.k + 1
        old == node[a].participants
    IN  /\ call.stage = "idle" /\ call.good = call.k /\ k \in 2 .. Len(plan)
        /\ decrypt.by = None \/ Overlap
        /\ a \notin down /\ Done(a)
        /\ starts' = starts \cup Asked(old \ down, k, {}, 0)
        /\ call' = [call EXCEPT !.k = k, !.by = a, !.acks = {},
                                !.all = old \cup plan[k].addrs, !.tOld = node[a].threshold,
                                !.stage = IF old \cap down = {} THEN "ask" ELSE "idle"]
        /\ UNCHANGED <<node, chans, decrypt, env>>

(* The rest of Reshare: the participants are read again to find the new    *)
(* nodes, which are told about the old committee.                          *)
ReshareNew ==
    LET a   == call.by
        old == node[a].participants
        new == plan[call.k].addrs \ old
    IN  /\ call.stage = "ask" /\ a \notin down
        /\ starts' = starts \cup Asked(new \ down, call.k, old, call.tOld)
        /\ call' = [call EXCEPT !.stage = IF new \cap down = {} THEN "wait" ELSE "idle"]
        /\ UNCHANGED <<node, chans, decrypt, env>>

(* The answers are there: the call returns when the keys are the same.     *)
Return ==
    /\ call.stage \in {"wait", "hung"} /\ call.by \notin down
    /\ Cardinality(call.acks) = Cardinality(call.all)
    /\ call' = [call EXCEPT !.stage = "idle", !.acks = {},
                    !.good = IF \A x, y \in call.acks : x.key = y.key THEN call.k ELSE @]
    /\ UNCHANGED <<node, starts, chans, decrypt, env>>

(* Reshare gives up after resharingTimeout.  After setupTimeout the        *)
(* streams of Setup end, but Setup goes on waiting for what will not come. *)
Expire ==
    /\ slow /\ call.stage = "wait" /\ call.by \notin down
    /\ call' = IF call.k = 1 THEN [call EXCEPT !.stage = "hung"]
               ELSE [call EXCEPT !.stage = "idle", !.acks = {}]
    /\ UNCHANGED <<node, starts, chans, decrypt, env>>

(* Stream: the stream of a node ends when nothing came for recvTimeout     *)
(* and no instance runs, or with the call; the goroutine is cancelled.     *)
StreamEnds(n) ==
    /\ Working(n) /\ node[n].pc # "finalize"
    /\ \/ slow /\ ~node[n].running
       \/ call.stage \in {"idle", "hung"} \/ call.by \in down \/ call.k # node[n].call
    /\ node' = [node EXCEPT ![n] = Ended(@)]
    /\ UNCHANGED <<starts, chans, call, decrypt, env>>

Stop(n) ==
    /\ n \notin down /\ Cardinality(down) < MaxDown
    /\ down' = down \cup {n}
    /\ UNCHANGED <<node, starts, chans, call, decrypt, plan, slow>>
-----------------------------------------------------------------------------
(* No call is under way, nor what one has left behind.                     *)
Quiet == call.stage = "idle" /\ starts = {} /\ \A n \in Node : ~Working(n)

(* Decrypt and VerifiableDecrypt need a share of every participant,        *)
(* Reencrypt a threshold of them.  Without Overlap they are made by the    *)
(* members of the last committee named, when nothing else is under way.    *)
Decrypt(a) ==
    /\ decrypt.by = None /\ a \notin down /\ Done(a)
    /\ Overlap \/ (Quiet /\ a \in plan[call.k].addrs)
    /\ \E need \in {Cardinality(node[a].participants), node[a].threshold} :
          decrypt' = [by |-> a, addrs |-> node[a].participants, need |-> need, replies |-> {}]
    /\ UNCHANGED <<node, starts, chans, call, env>>

(* handleDecrypt: a node that is not certified refuses, and the request    *)
(* fails; otherwise it answers with the share that it holds.               *)
handleDecrypt(n) ==
    /\ decrypt.by # None /\ n \in decrypt.addrs \ down
    /\ \A r \in decrypt.replies : r.from # n
    /\ Cardinality(decrypt.replies) < decrypt.need
    /\ Done(n)
    /\ decrypt' = [decrypt EXCEPT !.replies = @ \cup {[from |-> n, share |-> node[n].share]}]
    /\ UNCHANGED <<node, starts, chans, call, env>>

DecryptEnds ==
    /\ decrypt.by # None
    /\ \/ Cardinality(decrypt.replies) = decrypt.need
       \/ \E n \in decrypt.addrs : n \in down \/ ~Done(n)
    /\ decrypt' = [by |-> None, addrs |-> {}, need |-> 0, replies |-> {}]
    /\ UNCHANGED <<node, starts, chans, call, env>>
-----------------------------------------------------------------------------
Step(n) ==
    \/ start(n) \/ deal(n) \/ respond(n) \/ doDKG(n)
    \/ reshare(n) \/ sendDealsResharing(n) \/ receiveDealsResharing(n) \/ doReshare(n)
    \/ certify(n) \/ finalize(n) \/ announce(n)

Next ==
    \/ \E n \in Node :
          \/ Step(n) \/ StreamEnds(n) \/ Stop(n)
          \/ Setup(n) \/ Reshare(n) \/ Decrypt(n) \/ handleDecrypt(n)
    \/ ReshareNew \/ Return \/ Expire \/ DecryptEnds

Spec == Init /\ [][Next]_vars

(* A goroutine that can go on does, and so does a call; nobody has to call *)
(* and no timeout has to expire.                                           *)
FairSpec ==
    /\ Spec
    /\ \A n \in Node : WF_vars(Step(n))
    /\ WF_vars(ReshareNew) /\ WF_vars(Return)
-----------------------------------------------------------------------------
(* Properties.                                                             *)

(* The type invariant: a goroutine is at one of the steps of doDKG or      *)
(* doReshare, and a node is in a state of the diagram of state.go.         *)
TypeOK ==
    /\ \A n \in Node :
          /\ node[n].state \in {"initial", "sharing", "certified", "resharing"}
          /\ node[n].pc \in {"idle", "deal", "respond", "send", "receive", "certify",
                            "finalize", "announce"}
          /\ node[n].pc = "idle" \/ node[n].state # "initial"
    /\ call.stage \in {"idle", "ask", "wait", "hung"}
    /\ down \subseteq Node

Returned == call.stage = "idle" /\ call.k > 0 /\ call.good = call.k

(* When Setup or Reshare returns, every member of the committee can answer *)
(* a request right away: certified, with a share of this very sharing, and *)
(* with the committee and the key of the others.                           *)
Ready ==
    Returned => \A n \in plan[call.k].addrs \ down :
        /\ Done(n)
        /\ node[n].share # None /\ node[n].share.call = call.k
        /\ node[n].participants = plan[call.k].addrs
        /\ node[n].key = plan[1].addrs

(* All the nodes that hold a public key hold the same one, also while a    *)
(* setup or a resharing is under way.                                      *)
KeyAgreed ==
    \A m, n \in Node : node[m].key # None /\ node[n].key # None => node[m].key = node[n].key

(* A call that returned leaves no deal and no response in the channels of  *)
(* the nodes, where the next resharing would take them for its own.        *)
Drained ==
    Returned => \A n \in Node \ down :
        deals[n] = {} /\ reshares[n] = {} /\ responses[n] = {}

(* What a call leaves behind: a committee that is ready, one key, and      *)
(* empty channels (Setup, Reshare, doDKG, doReshare and certify).          *)
Concluded == TypeOK /\ Ready /\ KeyAgreed /\ Drained


(* A setup returns when no node stops and its time is not over before.     *)
SetupReturns ==
    (call.stage = "wait" /\ call.k = 1)
    ~> (call.good > 0 \/ call.stage = "hung" \/ down # {})

(* The threshold is the number of members.                                 *)
FullThreshold == plan[call.k].t = Cardinality(plan[call.k].addrs)

(* A resharing returns when no node stops and no timeout expires, if the   *)
(* new threshold is the size of the committee, and the caller leaves the   *)
(* committee or nobody joins it.                                           *)
ReshareReturns ==
    (/\ call.stage = "ask" /\ ~slow /\ FullThreshold
     /\ \/ call.by \notin plan[call.k].addrs
        \/ plan[call.k].addrs \subseteq plan[call.k - 1].addrs)
    ~> (call.good = call.k \/ down # {})

(* With a lower threshold a node awaits fewer responses than there are,    *)
(* and is not certified: no such resharing ever returns.                   *)
LowerNeverReturns == call.k > 1 /\ ~FullThreshold => call.good # call.k

=============================================================================
