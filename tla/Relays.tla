------------------------------- MODULE Relays --------------------------------
(***************************************************************************)
(* A stream of mino/minogrpc: the session of the orchestrator and those of *)
(* the players, the streams that they open to one another along their      *)
(* routing tables, the packets that travel over them with acknowledgements *)
(* and retries, and the end of it all (minogrpc/session, Stream, Forward   *)
(* and the connection manager of minogrpc/server.go, Stream of             *)
(* minogrpc/rpc.go).                                                       *)
(*                                                                         *)
(* Each gRPC stream has a number, its position in the sequence streams. At *)
(* its server it is a parent of the session, at its client it is a relay.  *)
(* The orchestrator opens number 1, to the root.                           *)
(*                                                                         *)
(* A call of sendPacket and the goroutines sendTo that it waits for are    *)
(* the calls of this module. The key of a call is the path to it: a Send   *)
(* is <<m>>, a goroutine adds its gateway, and the sendPacket that the     *)
(* goroutine waits for adds Remote (at the distant node) or Again (its     *)
(* own retry).                                                             *)
(***************************************************************************)
EXTENDS RoutingTree, Sequences, SequencesExt

CONSTANTS
    Player,     \* the participants that may be players of the stream
    Orch,       \* the address of the orchestrator
    Root,       \* the gateway that findGateway chooses
    Height,     \* height of the tree of the root (3 in the code)
    Msg,        \* the messages, by name
    Source,     \* who sends each of them
    Plan,       \* the streams that are considered: the players, the messages with
                \* their targets in order, and whether its end is within the bounds
    Full,       \* players whose queue is at maximum capacity
    Failing,    \* players that may crash, or whose handler may fail
    Overlap,    \* bound: whether a Send may start while another one runs
    MaxFaults   \* bound: crashes, broken calls, failed handlers, an early end

ASSUME RelaysAssumption ==
    /\ IsFiniteSet(Player) /\ Orch \notin Player /\ Root \in Player
    /\ Height \in Nat /\ MaxFaults \in Nat
    /\ Full \subseteq Player /\ Overlap \in BOOLEAN
    /\ Source \in [Msg -> Player \cup {Orch}]
    /\ \A p \in Plan :
         /\ Failing \cup {Root} \subseteq p.players /\ p.players \subseteq Player /\ p.ends \in BOOLEAN
         /\ DOMAIN p.target \subseteq Msg
         /\ \A m \in DOMAIN p.target : p.target[m] \in Seq(p.players \cup {Orch})

Remote == "remote"
Again == "again"

VARIABLES
    plan,      \* the stream that is asked for
    streams,   \* the gRPC streams, in the order they were opened
    parents,   \* session.parents: the stream of each parent, or 0
    session,   \* number of the session in endpoint.streams, 0 when there is none
    born,      \* number of sessions created at each node
    closing,   \* cleanStream waits for the relays, with the lock of the endpoint
    cleaning,  \* calls of cleanStream that did not run yet
    counters,  \* connManager.counters of each node
    got,       \* messages pushed to the queue of each node
    back,      \* packets on their way to the orchestrator on stream 1
    calls,     \* the running calls, by key
    sends,     \* the channel of errors of each Send
    down,      \* crashed players
    done,      \* the context of the orchestrator is done
    faults     \* number of faults so far

vars == <<plan, streams, parents, session, born, closing, cleaning, counters, got, back,
          calls, sends, down, done, faults>>

Node == plan.players \cup {Orch}
sessions == <<parents, session, born, closing, cleaning>>
traffic == <<got, back, calls, sends>>

Ids == DOMAIN streams
Relays(n) == {i \in Ids : streams[i].from = n /\ streams[i].client}
CopyParents(n) == {parents[n][p] : p \in Node} \ {0}
NoCalls == [k \in {} |-> 0]
Put(f, g) == [x \in DOMAIN f \cup DOMAIN g |-> IF x \in DOMAIN g THEN g[x] ELSE f[x]]
Without(f, keys) == Restrict(f, DOMAIN f \ keys)
Singleton(k, c) == [x \in {k} |-> c]
HoldsConn(n, o) ==
    Cardinality({i \in Ids : streams[i].from = n /\ streams[i].to = o /\ streams[i].client})
    + Cardinality({i \in Ids \ {1} : streams[i].from = o /\ streams[i].to = n
                                     /\ streams[i].serving})

TypeOK ==
    /\ plan \in Plan
    /\ \A i \in Ids : LET s == streams[i] IN
         /\ s.from \in Node /\ s.to \in plan.players
         /\ DOMAIN s.tree.branches \cup s.tree.expected \subseteq plan.players \ {s.to}
    /\ \A n \in Node : \A p \in Node : parents[n][p] \in Ids \cup {0}
    /\ counters \in [Node -> [Node -> Nat]]
    /\ got \in [Node -> SUBSET Msg] /\ down \subseteq plan.players
    /\ \A m \in Msg : sends[m].state \in {"none", "running", "closed"}
    /\ \A k \in DOMAIN calls : calls[k].at \in Node \ down /\ ToSet(calls[k].dest) \subseteq Node

Init ==
    /\ plan \in Plan
    /\ streams = <<>>
    /\ parents = [n \in Node |-> [p \in Node |-> 0]]
    /\ session = [n \in Node |-> 0] /\ born = [n \in Node |-> 0]
    /\ closing = [n \in Node |-> FALSE] /\ cleaning = [n \in Node |-> 0]
    /\ counters = [n \in Node |-> [o \in Node |-> 0]]
    /\ got = [n \in Node |-> {}] /\ back = <<>> /\ calls = NoCalls
    /\ sends = [m \in Msg |-> [state |-> "none", errs |-> 0]]
    /\ down = {} /\ done = FALSE /\ faults = 0
-----------------------------------------------------------------------------
Acquire(cs, n, o) == [cs EXCEPT ![n][o] = @ + 1]
Release(cs, n, o) == [cs EXCEPT ![n][o] = IF @ =< 1 THEN 0 ELSE @ - 1]

Fault == faults < MaxFaults /\ faults' = faults + 1

(* Variant: the connection is kept when the header does not come.          *)
DialKeeping(from, to, ok) == Acquire(counters, from, to)

(* The connection of the client, which is released when the header does    *)
(* not come.                                                               *)
Dial(from, to, ok) == IF ok THEN Acquire(counters, from, to) ELSE counters

(* overlayServer.Stream up to the header: the session of the endpoint is   *)
(* found or created, and the new stream is its parent. The server takes a  *)
(* connection back to its parent, except to the orchestrator. The client   *)
(* has its own connection, and the relay when all went well.               *)
Open(from, to, via, tree, client) ==
    LET fresh == session[to] = 0
        id    == Len(streams) + 1
        sess  == IF fresh THEN born[to] + 1 ELSE session[to]
        mine  == Dial(from, to, client)
    IN  /\ ~closing[to]
        /\ streams' = Append(streams,
                [from |-> from, to |-> to, via |-> via, sess |-> sess, tree |-> tree,
                 addrs |-> tree.expected, client |-> client, live |-> client,
                 listening |-> TRUE, serving |-> TRUE, failed |-> FALSE])
        /\ session' = [session EXCEPT ![to] = sess]
        /\ born' = [born EXCEPT ![to] = sess]
        /\ parents' = [parents EXCEPT ![to] =
                [p \in Node |-> IF p = from THEN id ELSE IF fresh THEN 0 ELSE @[p]],
                ![Orch] = IF from = Orch THEN [@ EXCEPT ![to] = id] ELSE @]
        /\ counters' = IF from = Orch THEN mine ELSE Acquire(mine, to, from)
        /\ UNCHANGED <<closing, cleaning>>

(* The same when the connection back to the parent fails: the session that *)
(* was stored a moment before stays, and nothing cleans it if it is new,   *)
(* until a later stream is its parent and ends.                            *)
OpenRefused(from, to) ==
    LET fresh == session[to] = 0
        sess  == IF fresh THEN born[to] + 1 ELSE session[to]
    IN  /\ ~closing[to] /\ counters[to][from] = 0
        /\ session' = [session EXCEPT ![to] = sess]
        /\ born' = [born EXCEPT ![to] = sess]
        /\ parents' = IF fresh THEN [parents EXCEPT ![to] = [p \in Node |-> 0]] ELSE parents
        /\ UNCHANGED <<streams, closing, cleaning, counters>>

(* findGateway: the players that the table of the gateway has to reach.    *)
findGateway(gw) == plan.players \ {gw}

(* RPC.Stream: the orchestrator opens the stream to the root, whose table  *)
(* has the other players.                                                  *)
Stream ==
    /\ Len(streams) = 0 /\ Root \notin down
    /\ Open(Orch, Root, 0, NewTree(Height, findGateway(Root)), TRUE)
    /\ UNCHANGED <<traffic, down, done, faults>>

(* The context that goes with a parent of a session.                       *)
Alive(n, i) == IF n = Orch THEN ~done /\ streams[i].live ELSE streams[i].live

(* The table that goes with a parent; the one of the orchestrator is empty.*)
Table(n, i) == IF n = Orch THEN NewTree(Height, {}) ELSE streams[i].tree
WithTable(n, i, t) == IF n = Orch THEN streams ELSE [streams EXCEPT ![i].tree = t]

(* Table.Forward: the gateway of every destination, one after the other.   *)
Forward(t, dest) ==
    FoldLeft(LAMBDA acc, to : UNION {
                 {[routes |-> Put(f.routes, Singleton(to, r.gateway)), tree |-> r.tree] :
                  r \in GetRoute(f.tree, to)} : f \in acc},
             {[routes |-> NoCalls, tree |-> t]}, dest)
-----------------------------------------------------------------------------
(* sendPacket: the node takes its copy, the addresses without a route are  *)
(* errors, and each gateway gets a goroutine. The table is t, and cs are   *)
(* the calls meanwhile.                                                    *)
sendPacket(k, n, i, t, dest, m, cs) ==
    LET rest == SelectSeq(dest, LAMBDA d : d # n)
        mine == Contains(dest, n)
        lost == IF mine /\ n \in Full THEN 1 ELSE 0
    IN  /\ got' = IF mine /\ n \notin Full THEN [got EXCEPT ![n] = @ \cup {m}] ELSE got
        /\ \E f \in Forward(t, rest) :
             LET voids == {d \in ToSet(rest) : f.routes[d] = Void}
                 hops  == {k \o <<f.routes[d]>> : d \in ToSet(rest) \ voids}
             IN  /\ streams' = WithTable(n, i, f.tree)
                 /\ calls' = Put(Put(cs, Singleton(k,
                        [kind |-> "packet", at |-> n, par |-> i, dest |-> dest, msg |-> m,
                         errs |-> lost + Cardinality(voids)])),
                        [h \in hops |->
                        [kind |-> "hop", at |-> n, par |-> i, msg |-> m, pc |-> "setup",
                         dest |-> SelectSeq(rest, LAMBDA d : f.routes[d] = Last(h)), relay |-> 0]])

(* Send: with the first parent at hand, or with none the packet is ignored.*)
(* After the end of the stream, this counts as a fault.                    *)
Send(m) ==
    LET n == Source[m] IN
    /\ m \in DOMAIN plan.target /\ sends[m].state = "none" /\ n \notin down
    /\ Overlap \/ calls = NoCalls
    /\ IF done THEN Fault ELSE UNCHANGED faults
    /\ n = Orch => Len(streams) > 0
    /\ n # Orch => session[n] # 0
    /\ \/ /\ CopyParents(n) = {} \/ plan.target[m] = <<>>
          /\ sends' = [sends EXCEPT ![m] = [state |-> "closed", errs |-> 1]]
          /\ UNCHANGED <<streams, got, calls>>
       \/ \E i \in CopyParents(n) :
            /\ plan.target[m] # <<>>
            /\ sends' = [sends EXCEPT ![m].state = "running"]
            /\ sendPacket(<<m>>, n, i, Table(n, i), plan.target[m], m, calls)
    /\ UNCHANGED <<sessions, counters, back, down, done>>

(* A goroutine is done, with e errors for the sendPacket that waits.       *)
HopEnds(k, e) ==
    calls' = [x \in DOMAIN calls \ {k} |->
                IF x = Front(k) THEN [calls[x] EXCEPT !.errs = @ + e] ELSE calls[x]]

Step(k, pc) == [calls EXCEPT ![k].pc = pc]

(* setupRelay: the relay that is open, or a new one over a new stream. Its *)
(* table comes with the handshake. The caller may fail to connect, the     *)
(* header may not come, or the other side may fail to connect back.        *)
setupRelay(k) ==
    LET c  == calls[k]
        to == Last(k)
        initiated == {i \in Relays(c.at) : streams[i].to = to}
        Opens(ok) == Open(c.at, to, c.par, TableFor(Table(c.at, c.par), to), ok)
        Ready == initiated = {} /\ Alive(c.at, c.par) /\ to \notin down
    IN  /\ c.kind = "hop" /\ c.pc = "setup" /\ to # Parent
        /\ \/ /\ \E i \in initiated :
                   calls' = [calls EXCEPT ![k].pc = "send", ![k].relay = i]
              /\ UNCHANGED <<streams, sessions, counters, faults>>
           \/ /\ Ready /\ Opens(TRUE)
              /\ calls' = [calls EXCEPT ![k].pc = "send", ![k].relay = Len(streams) + 1]
              /\ UNCHANGED faults
           \/ /\ Ready /\ Fault /\ Opens(FALSE)
              /\ calls' = Step(k, "failed")
           \/ /\ Ready /\ Fault /\ OpenRefused(c.at, to)
              /\ calls' = Step(k, "failed")
           \/ /\ initiated = {}
              /\ ((~Alive(c.at, c.par) \/ to \in down) /\ UNCHANGED faults) \/ (Ready /\ Fault)
              /\ calls' = Step(k, "failed")
              /\ UNCHANGED <<streams, sessions, counters>>
        /\ UNCHANGED <<got, back, sends, down, done>>

(* Whether the relay of a goroutine is the stream to the orchestrator.     *)
IsStreamRelay(k) ==
    Last(k) = Parent /\ calls[k].at # Orch /\ streams[calls[k].par].from = Orch

(* The node at the other end of the relay.                                 *)
Distant(k) ==
    LET c == calls[k] IN
    IF Last(k) # Parent THEN Last(k)
    ELSE IF c.at = Orch THEN streams[c.par].to ELSE streams[c.par].from

AtSend(k) ==
    /\ calls[k].kind = "hop"
    /\ calls[k].pc = IF Last(k) = Parent THEN "setup" ELSE "send"

(* streamRelay.Send: the packet is on the stream to the orchestrator.      *)
SendBack(k) ==
    LET c == calls[k] IN
    /\ AtSend(k) /\ IsStreamRelay(k)
    /\ IF streams[c.par].live
       THEN back' = Append(back, [msg |-> c.msg, dest |-> c.dest]) /\ HopEnds(k, 0)
       ELSE HopEnds(k, 1) /\ UNCHANGED back
    /\ UNCHANGED <<streams, sessions, counters, got, sends, down, done, faults>>

(* unicastRelay.Send, then Forward and RecvPacket of the distant node: the *)
(* packet goes on with one of the parents.                                 *)
SendTo(k) ==
    LET c == calls[k]
        d == Distant(k)
    IN  /\ AtSend(k) /\ ~IsStreamRelay(k)
        /\ Alive(c.at, c.par) /\ d \notin down /\ counters[c.at][d] > 0
        /\ session[d] # 0 /\ ~closing[d]
        /\ \E i \in CopyParents(d) :
             sendPacket(k \o <<Remote>>, d, i, Table(d, i), c.dest, c.msg, Step(k, "wait"))
        /\ UNCHANGED <<sessions, counters, back, sends, down, done, faults>>

(* relay.Send returns an error: the context is done, the distant node is   *)
(* gone or has no session or no parent, the connection is closed, or the   *)
(* call breaks, before or after the distant node handled the packet.       *)
SendFails(k) ==
    LET c == calls[k]
        d == Distant(k)
        refused == AtSend(k) /\ ~closing[d] /\ (session[d] = 0 \/ CopyParents(d) = {})
        closed  == counters[c.at][d] = 0 \/ (Last(k) # Parent /\ ~streams[c.relay].client)
    IN  /\ c.kind = "hop" /\ (AtSend(k) \/ c.pc = "wait") /\ ~IsStreamRelay(k)
        /\ \/ (~Alive(c.at, c.par) \/ d \in down \/ refused \/ closed) /\ UNCHANGED faults
           \/ Fault
        /\ IF Last(k) = Parent THEN HopEnds(k, 1) ELSE calls' = Step(k, "failed")
        /\ UNCHANGED <<streams, sessions, counters, got, back, sends, down, done>>

(* Variant: the failure is reported, and the packet is sent again anyway.  *)
ReportedAlso(k, e) == [Step(k, "again") EXCEPT ![Front(k)].errs = @ + e]

(* The goroutine waits for its retry.                                      *)
Retried(k, e) == Step(k, "again")

(* Variant: the last failure is only logged.                               *)
NoRouteLogged(k) == HopEnds(k, 0)

(* A packet without another route is an error.                             *)
NoRoute(k) == HopEnds(k, 1)

(* onFailure: the table learns about the failure and the packet is sent    *)
(* again, unless the table has no other route.                             *)
onFailure(k) ==
    LET c == calls[k]
        after == OnFailure(Table(c.at, c.par), Last(k))
    IN  /\ c.kind = "hop" /\ c.pc = "failed"
        /\ \/ after = {} /\ NoRoute(k) /\ UNCHANGED <<streams, got>>
           \/ \E t \in after :
                sendPacket(k \o <<Again>>, c.at, c.par, t, c.dest, c.msg, Retried(k, 1))
        /\ UNCHANGED <<sessions, counters, back, sends, down, done, faults>>

(* sendPacket returns when its goroutines are done. The errors go to the   *)
(* channel of the Send, to the acknowledgement or to the first attempt; a  *)
(* broken call has nobody waiting, and the orchestrator ignores them.      *)
Return(k) ==
    LET c  == calls[k]
        up == Front(k)
        waits == /\ Last(k) \in {Remote, Again} /\ up \in DOMAIN calls
                 /\ calls[up].pc = IF Last(k) = Remote THEN "wait" ELSE "again"
    IN  /\ c.kind = "packet"
        /\ \A x \in DOMAIN calls : calls[x].kind = "hop" => Front(x) # k
        /\ IF Len(k) = 1
           THEN /\ sends' = [sends EXCEPT ![c.msg] = [state |-> "closed", errs |-> IF c.errs = 0 THEN 0 ELSE 1]]
                /\ calls' = Without(calls, {k})
           ELSE /\ calls' = IF ~waits THEN Without(calls, {k})
                            ELSE [x \in DOMAIN calls \ {k, up} |->
                                    IF x = Front(up) THEN [calls[x] EXCEPT !.errs = @ + c.errs]
                                    ELSE calls[x]]
                /\ UNCHANGED sends
        /\ UNCHANGED <<streams, sessions, counters, got, back, down, done, faults>>

(* The orchestrator handles the packets of its stream one after the other. *)
RecvPacket ==
    /\ back # <<>> /\ streams[1].client
    /\ \A k \in DOMAIN calls : ~(calls[k].kind = "packet" /\ Last(k) = Orch)
    /\ back' = Tail(back)
    /\ sendPacket(<<Head(back).msg, Orch>>, Orch, 1, Table(Orch, 1), Head(back).dest,
                  Head(back).msg, calls)
    /\ UNCHANGED <<sessions, counters, sends, down, done, faults>>
-----------------------------------------------------------------------------
(* The end of the stream: the context of the orchestrator is done. While   *)
(* packets travel, this counts as a fault.                                 *)
Done ==
    /\ plan.ends /\ ~done /\ Len(streams) > 0 /\ done' = TRUE
    /\ IF calls = NoCalls /\ back = <<>> THEN UNCHANGED faults ELSE Fault
    /\ UNCHANGED <<streams, sessions, counters, traffic, down>>

(* Variant: the relays have a context of their own.                        *)
CancelledOwn(i) == ~streams[i].client \/ (streams[i].from = Orch /\ done)

(* The context of a stream at its client, which is the one of the parent   *)
(* that the relay was opened for.                                          *)
Cancelled(i) ==
    LET s == streams[i] IN
    ~s.client \/ IF s.from = Orch THEN done ELSE ~streams[s.via].live

(* The goroutine of a relay: the relay is removed and its connection is    *)
(* released; after an unexpected end the address is unreachable.           *)
RelayCloses(i) ==
    LET s == streams[i]
        after == IF s.failed /\ s.from # Orch THEN OnFailure(streams[s.via].tree, s.to) ELSE {}
        ended == [streams EXCEPT ![i].client = FALSE]
    IN
    /\ s.client /\ (~s.live \/ Cancelled(i))
    /\ \/ after = {} /\ streams' = ended
       \/ \E t \in after : streams' = [ended EXCEPT ![s.via].tree = t]
    /\ counters' = Release(counters, s.from, s.to)
    /\ UNCHANGED <<sessions, traffic, down, done, faults>>

(* The end of Listen, when the server learns that the stream has ended:    *)
(* the parent is removed, and cleanStream comes next.                      *)
ListenEnds(i) ==
    LET s == streams[i] IN
    /\ s.listening /\ (~s.live \/ Cancelled(i))
    /\ streams' = [streams EXCEPT ![i].listening = FALSE, ![i].live = FALSE]
    /\ parents' = IF s.sess = session[s.to] THEN [parents EXCEPT ![s.to][s.from] = 0] ELSE parents
    /\ cleaning' = [cleaning EXCEPT ![s.to] = @ + 1]
    /\ UNCHANGED <<session, born, closing, counters, traffic, down, done, faults>>

(* Variant: the session is cleaned whatever parents it has.                *)
CleansAny(n) == session[n] # 0

(* The session is cleaned when it is there and has no parent.              *)
Cleans(n) == session[n] # 0 /\ CopyParents(n) = {}

(* cleanStream: the session is removed and closed, which waits for the     *)
(* relays with the lock of the endpoint.                                   *)
cleanStream(n) ==
    /\ cleaning[n] > 0 /\ ~closing[n]
    /\ cleaning' = [cleaning EXCEPT ![n] = @ - 1]
    /\ session' = IF Cleans(n) THEN [session EXCEPT ![n] = 0] ELSE session
    /\ closing' = [closing EXCEPT ![n] = Cleans(n)]
    /\ UNCHANGED <<streams, parents, born, counters, traffic, down, done, faults>>

Close(n) ==
    /\ closing[n] /\ Relays(n) = {}
    /\ closing' = [closing EXCEPT ![n] = FALSE]
    /\ UNCHANGED <<streams, parents, session, born, cleaning, counters, traffic, down, done,
                   faults>>

Freed(s) == IF s.from = Orch THEN counters ELSE Release(counters, s.to, s.from)

(* overlayServer.Stream returns: the context is done, and so is the        *)
(* handler, which runs until its session is closed.                        *)
Over(i) ==
    /\ streams[i].serving /\ ~streams[i].live
    /\ streams[i].sess # session[streams[i].to]

StreamEnds(i) ==
    LET s == streams[i] IN
    /\ Over(i)
    /\ streams' = [streams EXCEPT ![i].serving = FALSE]
    /\ counters' = Freed(s)
    /\ UNCHANGED <<sessions, traffic, down, done, faults>>

(* ... or the handler returns an error, which ends the stream.             *)
HandlerFails(i) ==
    LET s == streams[i] IN
    /\ s.to \in Failing /\ s.serving /\ s.live /\ Fault
    /\ streams' = [streams EXCEPT ![i].serving = FALSE, ![i].live = FALSE, ![i].failed = TRUE]
    /\ counters' = Freed(s)
    /\ UNCHANGED <<sessions, traffic, down, done>>

(* A player crashes; the others see its streams and its calls break.       *)
Crash(n) ==
    /\ n \notin down /\ Fault /\ down' = down \cup {n}
    /\ streams' = [i \in Ids |->
         CASE streams[i].to = n -> [streams[i] EXCEPT !.live = FALSE, !.listening = FALSE,
                                                      !.serving = FALSE]
           [] streams[i].from = n -> [streams[i] EXCEPT !.client = FALSE]
           [] OTHER -> streams[i]]
    /\ calls' = Without(calls, {k \in DOMAIN calls : calls[k].at = n})
    /\ sends' = [m \in Msg |-> IF Source[m] = n /\ sends[m].state = "running"
                               THEN [state |-> "closed", errs |-> 1] ELSE sends[m]]
    /\ parents' = [parents EXCEPT ![n] = [p \in Node |-> 0]]
    /\ session' = [session EXCEPT ![n] = 0] /\ closing' = [closing EXCEPT ![n] = FALSE]
    /\ cleaning' = [cleaning EXCEPT ![n] = 0]
    /\ counters' = [counters EXCEPT ![n] = [o \in Node |-> 0]]
    /\ UNCHANGED <<born, got, back, done>>
-----------------------------------------------------------------------------
Calls ==
    \/ \E k \in DOMAIN calls :
         setupRelay(k) \/ SendBack(k) \/ SendTo(k) \/ SendFails(k) \/ onFailure(k) \/ Return(k)
    \/ RecvPacket

Ends ==
    \/ \E i \in Ids : RelayCloses(i) \/ ListenEnds(i)
    \/ \E n \in plan.players : cleanStream(n) \/ Close(n)
    \/ \E i \in Ids : StreamEnds(i) /\ \A j \in 1..(i - 1) : ~Over(j)

Next ==
    \/ Stream \/ Done \/ Calls \/ Ends
    \/ \E m \in Msg : Send(m)
    \/ \E i \in Ids : HandlerFails(i)
    \/ \E n \in Failing : Crash(n)

Spec == Init /\ [][Next /\ UNCHANGED plan]_vars
-----------------------------------------------------------------------------
(* A Send whose channel is closed without an error has reached every       *)
(* destination: a packet that a node refuses, that finds no route or that  *)
(* a broken relay loses comes back as an error through all the             *)
(* acknowledgements (sendPacket, sendTo and onFailure). The stream to the  *)
(* orchestrator acknowledges a packet that is still on its way.            *)
NoSilentLoss ==
    \A m \in Msg : sends[m].state = "closed" /\ sends[m].errs = 0 =>
        \A d \in ToSet(plan.target[m]) \ {Orch} : m \in got[d]

(* The channel of errors never blocks its writers: RecvPacket makes room   *)
(* for one error per destination and Send for one more, and no goroutine,  *)
(* retry or acknowledgement ever adds more than that.                      *)
ErrsFit ==
    \A k \in DOMAIN calls : calls[k].kind = "packet" =>
        calls[k].errs =< Len(calls[k].dest) + (IF Len(k) = 1 THEN 1 ELSE 0)

(* The counter of a connection is the number of relays and of served       *)
(* streams that use it: every Acquire meets its Release, on the paths of   *)
(* errors too, so that a connection in use is not closed and one that is   *)
(* not used does not stay open (connManager).                              *)
Counted ==
    \A n \in Node \ down : \A o \in Node : counters[n][o] = HoldsConn(n, o)

(* While the stream of a parent is alive, the session knows this parent    *)
(* and is the one of the endpoint: the end of another stream, with the     *)
(* cleaning that follows, does not take it away (Listen and cleanStream),  *)
(* unless the parent has opened a second stream to the same session.       *)
ActiveKeptOnce ==
    \A i \in Ids : streams[i].live =>
        LET s == streams[i] IN
        \/ session[s.to] = s.sess /\ parents[s.to][s.from] = i
        \/ \E j \in Ids \ {i} : streams[j].to = s.to /\ streams[j].from = s.from

(* Where the table t has the address x.                                    *)
Places(t, x) ==
    {<<"waits", y>> : y \in t.expected \cap {x}}
      \cup {<<"branch", b>> : b \in DOMAIN t.branches \cap {x}}
      \cup {<<"below", b>> : b \in {y \in DOMAIN t.branches : x \in t.branches[y]}}

(* Every address that came with the handshake has one place in the table,  *)
(* as a branch, as a child of one branch or among those that wait, until   *)
(* it fails as a branch and has none: GetRoute and Remove move the         *)
(* children of a branch without losing or doubling one.  None waits once   *)
(* the branches are all there, so that updateTree never divides by zero.   *)
(* The rest of the state is well formed too (TypeOK).                      *)
OnePlace ==
    /\ TypeOK
    /\ \A i \in Ids :
         LET t == streams[i].tree IN
         /\ t.expected # {} => Cardinality(DOMAIN t.branches) < t.m
         /\ \A x \in streams[i].addrs :
              \/ Cardinality(Places(t, x)) = 1
              \/ Places(t, x) = {} /\ x \in t.offline
         /\ \A x \in plan.players \ streams[i].addrs : Places(t, x) = {}

(* The session that OpenRefused has left: no stream was its parent yet.    *)
Orphan(n) ==
    /\ session[n] # 0
    /\ \A i \in Ids : ~(streams[i].to = n /\ streams[i].sess = session[n])

(* The relays, the connections and the sessions that had a parent are all  *)
(* given back.                                                             *)
Clean ==
    /\ \A n \in Node \ down : \A o \in Node : counters[n][o] = 0
    /\ \A n \in plan.players : (session[n] = 0 \/ Orphan(n)) /\ ~closing[n] /\ cleaning[n] = 0

(* Nobody waits for ever: while a call of sendPacket has not returned, or  *)
(* something is left after the context of the orchestrator is done, some   *)
(* goroutine of the sessions has a step to take, without a new Send or a   *)
(* new fault. The wait groups of sendPacket and of Close, the lock of the  *)
(* endpoint that Close keeps and the parents and relays that go away at    *)
(* any moment do not end up waiting for one another.  A session whose only *)
(* stream failed before it was a parent is excepted, since the code keeps  *)
(* it for ever (server.go:307-311).                                        *)
NoneStuck ==
    calls # NoCalls \/ (done /\ ~Clean) => ENABLED (UNCHANGED faults /\ (Calls \/ Ends))

=============================================================================
