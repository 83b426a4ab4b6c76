-------------------------------- MODULE Wire --------------------------------
(***************************************************************************)
(* One ledger whose machines only know each other through bytes: the       *)
(* leader's block, the shares and the collective signatures of the two     *)
(* phases, the links on disk and the chains of the synchronisation all go  *)
(* through their encoders and decoders (LedgerCodecs), and every digest is *)
(* recomputed where it arrives.  The other messages of the system travel   *)
(* on their own (freight), one per behaviour.                              *)
(***************************************************************************)
EXTENDS LedgerCodecs, KeyCodecs

CONSTANTS
    Host,        \* the hosts of the genesis roster, a sequence; the first one leads
    WordLength,  \* bits of a word of the mask (8 in the code)
    Protocols,   \* pairs of a collective signature, flat or threshold, and a synchronisation
    Result,      \* the validation results of the blocks, a sequence
    Change,      \* the change sets of the blocks, a sequence
    Freight,     \* messages that travel on their own
    MaxHops,     \* bound on the hops of a freight
    MaxAborts    \* bound on the collective signatures that fail and messages overtaken

ASSUME WireAssumption ==
    /\ WordLength \in Nat \ {0} /\ MaxHops \in Nat /\ MaxAborts \in Nat
    /\ Host \in Seq(STRING) /\ Len(Host) > 0
    /\ Protocols \subseteq {"flat", "threshold"} \X {"block", "fast"}
    /\ Len(Result) = Len(Change)

VARIABLES
    cosi,       \* the collective signature of the service
    sync,       \* its block synchronisation
    phase,      \* what the leader waits for: idle, prepare, commit or done
    requests,   \* last request on its way to a host, or Nil
    late,       \* a propagation message that the next request overtook, or Nil
    asked,      \* the leader's round: its proposal, its roster and the digest to be signed
    sig,        \* what the leader has aggregated, or Nil
    count,      \* shares in sig
    node,       \* state machine of a host: state, id, block, changes, prepare
    tree,       \* the roster in the tree of a host, serialised
    disk,       \* the links a host has stored, serialised
    last,       \* digest of the last block of a host, in memory
    refused,    \* a correct message was refused
    panicked,   \* hosts whose process ended in a panic
    freight,    \* the travelling message: from, now, bytes, hops
    aborts      \* collective signatures that failed, and messages overtaken

round  == <<phase, requests, late, asked, sig, count>>
vars   == <<cosi, sync, round, node, tree, disk, last, refused, panicked, freight, aborts>>

-----------------------------------------------------------------------------
(* The factories, as the service wires them.                               *)

Leader  == Host[1]
Hosts   == {Host[i] : i \in DOMAIN Host}
Key(h)  == NewPublicKey("bls", h)
csFac   == AuthorityFac(AddrFac, PubKeyFac("bls"))
aggFac  == IF cosi = "flat" THEN SigFac("bls") ELSE ThresholdSigFac(SigFac("bls"))
blockFac == BlockFac(ResultFac)
linkFac == LinkFac(blockFac, aggFac, csFac)
msgFac  == MessageFac(GenesisFac(csFac), blockFac, AddrFac, aggFac, csFac)

FirstRoster == NewRoster(Map(NewAddress, Host), Map(Key, Host))
Genesis == GenesisOf(GenesisFac(csFac), NewContext, GenesisEncode(NewGenesis(FirstRoster, "root")))

Roster(h) == AuthorityOf(csFac, NewContext, tree[h])
Link(d, i) == BlockLinkOf(linkFac, NewContext, d[i])

Disks == {disk[h] : h \in Hosts}

GetPublicKey(ro, addr) ==
    {i \in DOMAIN ro.addrs : ro.addrs[i] = addr}

-----------------------------------------------------------------------------
(* Threshold signatures: bit operations on the words of the mask.          *)

Bit(word, j) == (word \div 2^j) % 2

HasBit(mask, index) ==
    /\ index \div WordLength < Len(mask)
    /\ Bit(mask[index \div WordLength + 1], index % WordLength) = 1

setBit(mask, index) ==
    LET i     == index \div WordLength + 1
        grown == mask \o [k \in 1..(IF i > Len(mask) THEN i - Len(mask) ELSE 0) |-> 0]
    IN  [grown EXCEPT ![i] = @ + (1 - Bit(@, index % WordLength)) * 2^(index % WordLength)]

GetIndices(mask) ==
    {(i - 1) * WordLength + j : <<i, j>> \in
       {p \in (DOMAIN mask) \X (0..(WordLength - 1)) : Bit(mask[p[1]], p[2]) = 1}}

Merge(s, index, share) ==
    CASE s = Nil -> NewThreshold(share, setBit(<<>>, index))
      [] s # Nil /\ HasBit(s.mask, index) -> Err
      [] OTHER -> NewThreshold(Aggregate(s.agg, share), setBit(s.mask, index))

(* Verify indexes the keys with the bits of the mask: one of a larger      *)
(* roster is a panic.                                                      *)
Panics(ro, s) ==
    s.type = "threshold" /\ \E i \in GetIndices(s.mask) : i >= Len(ro.pubkeys)

(* The flat verifier wants every key of the roster, the other one those    *)
(* of the mask.  Where it could panic, Panics comes first.                 *)
VerifySig(ro, msg, s) ==
    CASE s.type = "threshold" ->
           LET at == GetIndices(s.mask)
           IN  /\ \A i \in at : i < Len(ro.pubkeys)
               /\ Verifies({ro.pubkeys[i + 1] : i \in at}, msg, s.agg)
      [] s.type = "sig" -> Verifies({ro.pubkeys[i] : i \in DOMAIN ro.pubkeys}, msg, s)
      [] OTHER -> FALSE

ByzantineThreshold(n) == IF n = 0 THEN 0 ELSE n - (n - 1) \div 3

(* Chain.Verify, from a digest on.                                         *)
Verify(c, genesis, from) ==
    LET links == GetLinks(c)
        Walk(acc, l) ==
            LET process == acc.process \/ l.from = from
            IN  [ro      |-> Apply(acc.ro, l.changes),
                 prev    |-> l.to,
                 process |-> process,
                 ok      |-> acc.ok /\ (process =>
                               /\ acc.prev = l.from
                               /\ VerifySig(acc.ro, l.digest, l.prepare)
                               /\ VerifySig(acc.ro, MarshalBinary(l.prepare), l.commit))]
        end == FoldLeft(Walk, [ro |-> genesis.roster, prev |-> genesis.digest,
                               process |-> FALSE, ok |-> TRUE], links)
    IN  end.ok /\ end.process

-----------------------------------------------------------------------------
(* The state machine of a host (pbft), seen from its messages.             *)

NoRound == [state |-> "initial", id |-> Nil, block |-> Nil, changes |-> Nil, prepare |-> Nil]

Init ==
    /\ \E p \in Protocols : cosi = p[1] /\ sync = p[2]
    /\ phase = "idle"
    /\ requests = [h \in Hosts |-> Nil]
    /\ asked = [id |-> Nil, digest |-> Nil, roster |-> FirstRoster]
    /\ sig = Nil /\ count = 0
    /\ node = [h \in Hosts |-> NoRound]
    /\ tree = [h \in Hosts |-> RosterEncode(FirstRoster)]
    /\ disk = [h \in Hosts |-> <<>>]
    /\ last = [h \in Hosts |-> Genesis.digest]
    /\ refused = FALSE
    /\ late = Nil /\ panicked = {}
    /\ freight \in {Nil} \cup {[type |-> "freight", from |-> m, now |-> m, hops |-> 0] : m \in Freight}
    /\ aborts = 0

(* verifyPrepare: the round of a block, or the error.  The root of the     *)
(* tree is left to StateReplicas.                                          *)
verifyPrepare(h, block) ==
    IF block.index # Len(disk[h]) THEN Err
    ELSE [type    |-> "round", state |-> "prepare", block |-> block, prepare |-> Nil,
          changes |-> Change[block.index + 1],
          id      |-> NewForwardLink(last[h], block.digest, Nil, Nil, Nil).digest]

RoundOf(r) == [state |-> r.state, id |-> r.id, block |-> r.block, changes |-> r.changes,
               prepare |-> r.prepare]

(* Prepare and Commit: the next round of the host, and what it signs.      *)
Prepare(h, block) ==
    LET r == verifyPrepare(h, block)
    IN  CASE node[h].state # "initial" -> [type |-> "signs", round |-> node[h], msg |-> node[h].id]
          [] node[h].state = "initial" /\ ~Failed(r) ->
               [type |-> "signs", round |-> RoundOf(r), msg |-> r.id]
          [] OTHER -> Err

Commit(h, id, s) ==
    IF node[h].state = "initial" \/ id # node[h].id \/ ~VerifySig(Roster(h), id, s) THEN Err
    ELSE [type |-> "signs", round |-> [node[h] EXCEPT !.state = "commit", !.prepare = s],
          msg |-> MarshalBinary(s)]

Invoke(h, m) ==
    CASE m.type = "BlockMessage" -> Prepare(h, m.block)
      [] m.type = "CommitMessage" -> Commit(h, m.id, m.sig)
      [] OTHER -> Err

-----------------------------------------------------------------------------
(* The leader.                                                             *)

Ask(ro, bytes) ==
    [h \in Hosts |-> IF NewAddress(h) \in Range(ro.addrs) THEN bytes ELSE requests[h]]

(* Every player of the roster gets the request.                            *)
Send(ro, m) == requests' = Ask(ro, [rpc |-> "cosi", bytes |-> CosiEncode(SignatureRequest(m))])

(* Sign: the leader reacts to its own message and asks every player.       *)
StartSign(own, m, id, ro) ==
    /\ Send(ro, m)
    /\ node' = [node EXCEPT ![Leader] = own.round]
    /\ sig' = Nil /\ count' = 0
    /\ asked' = [id |-> id, digest |-> own.msg, roster |-> ro]

(* ... and when it cannot react, the flat actor has asked them before,     *)
(* while the other one asks nobody.                                        *)
SignFails(m, ro) ==
    /\ IF cosi = "flat" THEN Send(ro, m) ELSE UNCHANGED requests
    /\ UNCHANGED <<node, asked, sig, count>>

(* A proposal may overtake the propagation of the block before.            *)
Overtakes ==
    \/ UNCHANGED <<late, aborts>>
    \/ \E h \in Hosts :
         /\ requests[h] # Nil /\ requests[h].rpc = "pbft"
         /\ NewAddress(h) \in Range(Roster(Leader).addrs)
         /\ aborts < MaxAborts /\ aborts' = aborts + 1
         /\ late' = [type |-> "late", host |-> h, bytes |-> requests[h].bytes]

(* doPBFT up to the first request.  A round that fails is one block less   *)
(* to propose, which bounds the behaviours.                                *)
Propose ==
    /\ phase = "idle" /\ freight = Nil
    /\ Len(disk[Leader]) + aborts < Len(Result)
    /\ LET block == IF node[Leader].state = "commit" THEN node[Leader].block
                    ELSE NewBlock(Len(disk[Leader]), "root", Result[Len(disk[Leader]) + 1])
           own   == Prepare(Leader, block)
       IN  StartSign(own, NewBlockMessage(block, <<>>), own.msg, Roster(Leader))
    /\ phase' = "prepare" /\ Overtakes
    /\ UNCHANGED <<cosi, sync, tree, disk, last, refused, panicked, freight>>

(* One share less.                                                         *)
EnoughEarly ==
    IF cosi = "flat"
    THEN count = Len(asked.roster.addrs) /\ VerifySig(asked.roster, asked.digest, sig)
    ELSE count >= ByzantineThreshold(Len(asked.roster.addrs)) - 1

Enough ==
    IF cosi = "flat"
    THEN count = Len(asked.roster.addrs) /\ VerifySig(asked.roster, asked.digest, sig)
    ELSE count >= ByzantineThreshold(Len(asked.roster.addrs))

(* A response reaches the leader: flatActor.processResponse, and           *)
(* thresholdActor.merge while it wants more.  A share of something else    *)
(* than the digest is refused for good.                                    *)
Merged(h, m) ==
    LET at    == GetPublicKey(asked.roster, NewAddress(h))
        index == (CHOOSE i \in at : TRUE) - 1
    IN  IF Failed(m) \/ at = {} THEN Err
        ELSE IF cosi = "flat" THEN IF sig = Nil THEN m.sig ELSE Aggregate(sig, m.sig)
        ELSE IF ~Verifies({asked.roster.pubkeys[index + 1]}, asked.digest, m.sig) THEN Err
        ELSE Merge(sig, index, m.sig)

Respond(h, signed) ==
    IF phase \notin {"prepare", "commit"} \/ Enough THEN UNCHANGED <<sig, count, refused>>
    ELSE \E next \in {Merged(h, CosiOf(msgFac, SigFac("bls"), NewContext,
                                       CosiEncode(SignatureResponse(Sign(Key(h), signed)))))} :
           IF Failed(next)
           THEN refused' = (refused \/ signed = asked.digest) /\ UNCHANGED <<sig, count>>
           ELSE sig' = next /\ count' = count + 1 /\ UNCHANGED refused

(* The prepare signature is there: the commit phase starts, unless the     *)
(* leader has caught up with its own block in the meantime.                *)
Prepared ==
    /\ phase = "prepare" /\ Enough
    /\ LET own == Commit(Leader, asked.id, sig)
           m   == NewCommit(asked.id, sig)
       IN  IF Failed(own) THEN phase' = "idle" /\ SignFails(m, asked.roster)
           ELSE phase' = "commit" /\ StartSign(own, m, asked.id, asked.roster)
    /\ UNCHANGED <<cosi, sync, late, tree, disk, last, refused, panicked, freight, aborts>>

Committed ==
    /\ phase = "commit" /\ Enough
    /\ requests' = Ask(asked.roster, [rpc |-> "pbft", bytes |-> MsgEncode(NewDone(asked.id, sig))])
    /\ sig' = Nil /\ count' = 0
    /\ phase' = "done"
    /\ UNCHANGED <<cosi, sync, late, asked, node, tree, disk, last, refused, panicked, freight,
                   aborts>>

(* The round of the leader is over: its context ends before the signature  *)
(* or the propagation, or the leader has stored the block.                 *)
Abort ==
    /\ phase # "idle" /\ aborts < MaxAborts
    /\ phase' = "idle" /\ aborts' = aborts + 1
    /\ UNCHANGED <<cosi, sync, requests, late, asked, sig, count, node, tree, disk, last, refused,
                   panicked, freight>>

RoundEnds ==
    /\ phase = "done" /\ node[Leader].state = "initial"
    /\ phase' = "idle"
    /\ UNCHANGED <<cosi, sync, requests, late, asked, sig, count, node, tree, disk, last, refused,
                   panicked, freight, aborts>>

-----------------------------------------------------------------------------
(* The players.                                                            *)

Answered(h) == requests' = [requests EXCEPT ![h] = Nil]

(* processRequest, and Process of the flat handler.  A response is         *)
(* collected when it is sent: late ones are those of a host that is late.  *)
processRequest(h) ==
    /\ requests[h] # Nil /\ requests[h].rpc = "cosi" /\ h \notin panicked
    /\ \E m \in {CosiOf(msgFac, SigFac("bls"), NewContext, requests[h].bytes)} :
         \E out \in {Then(m, LAMBDA req : Invoke(h, req.value))} :
           IF Failed(out) THEN refused' = (refused \/ Failed(m)) /\ UNCHANGED <<node, sig, count>>
           ELSE node' = [node EXCEPT ![h] = out.round] /\ Respond(h, out.msg)
    /\ Answered(h)
    /\ UNCHANGED <<cosi, sync, phase, late, asked, tree, disk, last, panicked, freight, aborts>>

(* The digest in memory is left behind.                                    *)
StoredUncached(h, block, prepare, commit, changes) ==
    /\ disk' = [disk EXCEPT ![h] =
                  Append(@, LinkEncode(NewBlockLink(last[h], block, prepare, commit, changes)))]
    /\ tree' = [tree EXCEPT ![h] = RosterEncode(Apply(Roster(h), changes))]
    /\ node' = [node EXCEPT ![h] = NoRound]
    /\ UNCHANGED last

(* verifyFinalize stores the block and its link and moves the tree on.     *)
Stored(h, block, prepare, commit, changes) ==
    /\ disk' = [disk EXCEPT ![h] =
                  Append(@, LinkEncode(NewBlockLink(last[h], block, prepare, commit, changes)))]
    /\ last' = [last EXCEPT ![h] = block.digest]
    /\ tree' = [tree EXCEPT ![h] = RosterEncode(Apply(Roster(h), changes))]
    /\ node' = [node EXCEPT ![h] = NoRound]

(* Process of a propagation message, and Finalize.                         *)
Finalize(h, bytes) ==
    /\ h \notin panicked
    /\ \E m \in {MsgOf(msgFac, NewContext, bytes)}, r \in {node[h]} :
         LET committed == ~Failed(m) /\ r.state = "commit"
             panics    == committed /\ Panics(Roster(h), m.sig)
         IN  /\ panicked' = IF panics THEN panicked \cup {h} ELSE panicked
             /\ IF /\ committed /\ ~panics
                   /\ VerifySig(Roster(h), MarshalBinary(r.prepare), m.sig)
                THEN Stored(h, r.block, r.prepare, m.sig, r.changes) /\ UNCHANGED refused
                ELSE refused' = (refused \/ Failed(m)) /\ UNCHANGED <<node, tree, disk, last>>
    /\ UNCHANGED <<cosi, sync, phase, asked, sig, count, freight, aborts>>

ProcessDone(h) ==
    /\ requests[h] # Nil /\ requests[h].rpc = "pbft"
    /\ Finalize(h, requests[h].bytes)
    /\ Answered(h) /\ UNCHANGED late

ProcessLate ==
    /\ late # Nil
    /\ Finalize(late.host, late.bytes)
    /\ late' = Nil /\ UNCHANGED requests

(* A host that is behind gets the next block from another one: the chain   *)
(* and the link of the slow synchronisation, or the links of the fast one. *)
GetChain(d) == NewChain(Link(d, Len(d)), [i \in 1..(Len(d) - 1) |-> Reduce(Link(d, i))])

SlowSync(h, d, next) ==
    LET Sent(m) == SyncOf(linkFac, ChainFac(linkFac), NewContext, SyncEncode(m))
        from    == IF disk[h] = <<>> THEN Genesis.digest ELSE Link(disk[h], Len(disk[h])).from
    IN  Then(Sent(NewSyncMessage(GetChain(d))),
             LAMBDA m : IF ~Verify(m.chain, Genesis, from) THEN Err
                        ELSE Then(Sent(NewSyncReply(next)), LAMBDA reply : reply.link))

FastSync(next, more) ==
    Then(CatchupOf(linkFac, NewContext, CatchupEncode(NewCatchupMessage(more, <<next>>))),
         LAMBDA m : m.links[1])

(* pbft.CatchUp: the block is verified, then both of its signatures.       *)
Follows(h, l, r) ==
    /\ ~Failed(l) /\ ~Failed(r)
    /\ VerifySig(Roster(h), r.id, l.prepare)
    /\ VerifySig(Roster(h), MarshalBinary(l.prepare), l.commit)

CatchUp(h, d) ==
    /\ Len(disk[h]) < Len(d) /\ h \notin panicked
    /\ \E next \in {Link(d, Len(disk[h]) + 1)} :
         /\ node[h].state = "commit" => node[h].id = next.digest
         /\ \E l \in {IF sync = "fast" THEN FastSync(next, Len(disk[h]) + 1 < Len(d))
                                        ELSE SlowSync(h, d, next)} :
              \E r \in {Then(l, LAMBDA link : verifyPrepare(h, link.block))} :
                IF Follows(h, l, r)
                THEN Stored(h, l.block, l.prepare, l.commit, r.changes) /\ UNCHANGED refused
                ELSE refused' = TRUE /\ UNCHANGED <<node, tree, disk, last>>
    /\ UNCHANGED <<cosi, sync, round, panicked, freight, aborts>>

-----------------------------------------------------------------------------
(* A message on its own: serialised by its sender and deserialised with    *)
(* the factory of the endpoint it arrives at, hop after hop.               *)

Over(m) ==
    CASE m.type \in {"GenesisMessage", "BlockMessage", "ViewMessage"} ->
           MsgOf(msgFac, NewContext, MsgEncode(m))
      [] m.type \in {"SyncRequest", "SyncAck"} ->
           SyncOf(linkFac, ChainFac(linkFac), NewContext, SyncEncode(m))
      [] m.type = "RequestCatchup" -> CatchupOf(linkFac, NewContext, CatchupEncode(m))
      [] m.type = "tx" -> TransactionOf(NewContext, TxEncode(m))
      [] m.type = "pubkey" -> PublicKeyOf(PubKeyFac(m.alg), NewContext, PubKeyEncode(m))
      [] m.type = "sig" -> SignatureOf(SigFac(m.alg), NewContext, SigEncode(m))
      [] m.type = "Packet" -> PacketOf(AddrFac, NewContext, PacketEncode(m))
      [] m.type = "Handshake" -> HandshakeOf(AddrFac, NewContext, HandshakeEncode(m))
      [] OTHER -> KeyOf(AddrFac, NewContext, KeyEncode(m))

Pass ==
    /\ freight # Nil /\ freight.hops < MaxHops /\ ~Failed(freight.now)
    /\ freight' = [freight EXCEPT !.now = Over(@), !.hops = @ + 1]
    /\ UNCHANGED <<cosi, sync, round, node, tree, disk, last, refused, panicked, aborts>>

Next ==
    \/ Propose \/ Prepared \/ Committed \/ Abort \/ RoundEnds
    \/ \E h \in Hosts : processRequest(h) \/ ProcessDone(h)
    \/ ProcessLate
    \/ \E h \in Hosts, d \in Disks : CatchUp(h, d)
    \/ Pass

Spec == Init /\ [][Next]_vars

-----------------------------------------------------------------------------
(* Properties.                                                             *)

TypeOK ==
    /\ phase \in {"idle", "prepare", "commit", "done"}
    /\ count \in 0..Len(Host) /\ aborts \in 0..MaxAborts
    /\ \A h \in Hosts : node[h].state \in {"initial", "prepare", "commit"}
    /\ \A ro \in {Roster(h) : h \in Hosts} : ~Failed(ro) /\ Len(ro.addrs) = Len(ro.pubkeys)
    /\ sig.type = "threshold" =>
         /\ (Len(sig.mask) - 1) * WordLength < Len(asked.roster.addrs)
         /\ \A i \in DOMAIN sig.mask : sig.mask[i] \in 0..(2^WordLength - 1)
    /\ refused \in BOOLEAN /\ panicked \subseteq Hosts

(* Nothing correct is refused: what a host serialises is deserialised by   *)
(* every host it goes to, a share of the digest the leader asked for       *)
(* verifies and merges, and a stored link convinces a host that is behind. *)
Arrives == ~refused

Signers(s) == UNION Range(IF s.type = "threshold" THEN s.agg.parts ELSE s.parts)

Links(d) == [i \in DOMAIN d |-> Link(d, i)]

(* Both signatures of a stored link come from more than two thirds of the  *)
(* roster in force at that block, and the mask that was rebuilt from bytes *)
(* names exactly them (thresholdActor.Sign, Signature.Merge, GetIndices),  *)
(* in no more words than the roster needs (TypeOK).                        *)
QuorumStored ==
    /\ TypeOK
    /\ \A links \in {Links(d) : d \in Disks} : \A i \in DOMAIN links :
         \A ro \in {FoldLeft(LAMBDA r, l : Apply(r, l.changes), Genesis.roster,
                             SubSeq(links, 1, i - 1))},
            s \in {links[i].prepare, links[i].commit} :
               /\ 3 * Cardinality(Signers(s)) > 2 * Len(ro.addrs)
               /\ Signers(s) \subseteq {a.host : a \in Range(ro.addrs)}
               /\ s.type = "threshold" =>
                    Signers(s) = {ro.addrs[k + 1].host : k \in GetIndices(s.mask)}

(* The chain of any host, read from its disk, reduced and sent, verifies   *)
(* from the genesis block on with nothing but the bytes (Chain.Verify).    *)
ChainsVerify ==
    \A d \in Disks \ {<<>>} :
      LET c == ChainOf(ChainFac(linkFac), NewContext, ChainEncode(GetChain(d)))
      IN  ~Failed(c) /\ Verify(c, Genesis, Genesis.digest)

(* Two hosts agree on the blocks they both have and on the digests that    *)
(* each of them computed for itself, the cached digest of the last block   *)
(* is the one on disk and, when they are as long, the rosters are equal.   *)
SameLinks ==
    /\ \A l, m \in {Links(d) : d \in Disks} : \A i \in DOMAIN l \cap DOMAIN m :
         l[i].digest = m[i].digest /\ l[i].block = m[i].block
    /\ \A h \in Hosts :
         /\ disk[h] # <<>> => last[h] = Link(disk[h], Len(disk[h])).to
         /\ \A m \in Hosts : Len(disk[h]) = Len(disk[m]) => tree[h] = tree[m]

(* A message is the same after every hop: no field is lost or swapped      *)
(* between the object and the value, whatever the nesting.                 *)
FreightIntact == freight # Nil => freight.now = freight.from

=============================================================================
