---------------------------- MODULE LedgerCodecs ----------------------------
(***************************************************************************)
(* The messages of the ledger and their JSON: transactions, results,       *)
(* blocks, rosters, change sets, forward links, chains, the messages of    *)
(* the ordering service and of the two block synchronisations, and the     *)
(* requests and responses of the collective signature.  A digest is        *)
(* recomputed by every constructor, so by every decoding too.              *)
(***************************************************************************)
EXTENDS Codecs

Hash(tokens) == <<"hash", tokens>>

-----------------------------------------------------------------------------
(* Transactions and their results.                                         *)

TxFingerprint(nonce, args, pubkey) ==
    LET keys == SelectSeq(ArgNames, LAMBDA key : key \in DOMAIN args)
    IN  <<<<"nonce", nonce>>>>
          \o Map(LAMBDA key : <<"arg", key, args[key]>>, keys)
          \o <<KeyBytes(pubkey)>>

NewTransaction(nonce, pubkey, args, sig) ==
    LET Hashed(hash) ==
            IF sig # Nil /\ ~Verifies({pubkey}, hash, sig) THEN Err
            ELSE [type |-> "tx", nonce |-> nonce, pubkey |-> pubkey, args |-> args,
                  sig |-> sig, hash |-> hash]
    IN  Hashed(Hash(TxFingerprint(nonce, args, pubkey)))

SignTx(tx, key) == IF key # tx.pubkey THEN Err ELSE [tx EXCEPT !.sig = Sign(key, tx.hash)]

TxEncode(tx) ==
    IF tx.sig = Nil THEN Err
    ELSE [type |-> "json", Nonce |-> tx.nonce, Args |-> tx.args,
          PublicKey |-> PubKeyEncode(tx.pubkey), Signature |-> SigEncode(tx.sig)]

decodeIdentity(ctx, j) == PublicKeyOf(GetFactory(ctx, "signed.PublicKeyFac"), ctx, j)

TxDecode(ctx, j) ==
    ThenAll(<<decodeIdentity(ctx, j.PublicKey),
              decodeSignature(ctx, j.Signature, "signed.SignatureFac")>>,
            LAMBDA d : NewTransaction(j.Nonce, d[1], j.Args, d[2]))

TransactionOf(ctx, j) ==
    TxDecode(WithFactory(WithFactory(ctx, "signed.PublicKeyFac", CommonPubKeyFac),
                         "signed.SignatureFac", CommonSigFac), j)

NewTransactionResult(tx, accepted, reason) ==
    [type |-> "txResult", tx |-> tx, accepted |-> accepted, reason |-> reason]

NewResult(txs) == [type |-> "result", txs |-> txs]

ResultFingerprint(res) ==
    FlattenSeq(Map(LAMBDA r : TxFingerprint(r.tx.nonce, r.tx.args, r.tx.pubkey)
                                \o <<<<"accepted", r.accepted>>>>, res.txs))

TxResultEncode(r) ==
    [Transaction |-> TxEncode(r.tx), Accepted |-> r.accepted, Reason |-> r.reason]

TxResultDecode(ctx, j) ==
    Then(TransactionOf(ctx, j.Transaction),
         LAMBDA tx : NewTransactionResult(tx, j.Accepted, j.Reason))

ResultEncode(res) == [Results |-> Map(TxResultEncode, res.txs)]

ResultOf(ctx, j) ==
    ThenAll(Map(LAMBDA r : TxResultDecode(ctx, r), j.Results), NewResult)

-----------------------------------------------------------------------------
(* Rosters and change sets.                                                *)

NewRoster(addrs, pubkeys) == [type |-> "roster", addrs |-> addrs, pubkeys |-> pubkeys]

RosterFingerprint(ro) ==
    FlattenSeq([i \in DOMAIN ro.addrs |->
                  <<<<"addr", MarshalText(ro.addrs[i])>>, KeyBytes(ro.pubkeys[i])>>])

NewChangeSet(remove, addrs, pubkeys) ==
    [type |-> "changeset", remove |-> remove, addrs |-> addrs, pubkeys |-> pubkeys]

(* The removal forgets the keys.                                           *)
ApplyAddrs(ro, cs) ==
    LET Drop(addrs, i) == IF i < Len(addrs) THEN RemoveAt(addrs, i + 1) ELSE addrs
    IN  NewRoster(FoldLeft(Drop, ro.addrs, cs.remove) \o cs.addrs, ro.pubkeys \o cs.pubkeys)

Apply(ro, cs) ==
    LET Drop(r, i) == IF i < Len(r.addrs)
                      THEN NewRoster(RemoveAt(r.addrs, i + 1), RemoveAt(r.pubkeys, i + 1))
                      ELSE r
        kept == FoldLeft(Drop, ro, cs.remove)
    IN  NewRoster(kept.addrs \o cs.addrs, kept.pubkeys \o cs.pubkeys)

RosterEncode(ro) ==
    [i \in DOMAIN ro.addrs |-> [Address   |-> MarshalText(ro.addrs[i]),
                                PublicKey |-> PubKeyEncode(ro.pubkeys[i])]]

RosterDecode(ctx, j) ==
    LET fac == GetFactory(ctx, "authority.PubKeyFac")
    IN  IF GetFactory(ctx, "authority.AddrKeyFac") # AddrFac THEN Err
        ELSE ThenAll(Map(LAMBDA player : PublicKeyOf(fac, ctx, player.PublicKey), j),
                     LAMBDA keys : NewRoster(Map(LAMBDA player : FromText(player.Address), j), keys))

ChangeSetEncode(cs) ==
    [Remove |-> cs.remove, Addresses |-> Map(MarshalText, cs.addrs),
     PublicKeys |-> Map(PubKeyEncode, cs.pubkeys)]

ChangeSetDecode(ctx, j) ==
    LET fac == GetFactory(ctx, "authority.PubKeyFac")
    IN  IF GetFactory(ctx, "authority.AddrKeyFac") # AddrFac THEN Err
        ELSE ThenAll([i \in DOMAIN j.Addresses |-> PublicKeyOf(fac, ctx, j.PublicKeys[i])],
                     LAMBDA keys : NewChangeSet(j.Remove, Map(FromText, j.Addresses), keys))

(* rosterFac and changeSetFac hold the same two factories.                 *)
AuthorityFac(addrFac, pubkeyFac) ==
    [type |-> "AuthorityFac", addr |-> addrFac, pubkey |-> pubkeyFac]

WithAuthority(fac, ctx) ==
    WithFactory(WithFactory(ctx, "authority.PubKeyFac", fac.pubkey),
                "authority.AddrKeyFac", fac.addr)

AuthorityOf(fac, ctx, j) == RosterDecode(WithAuthority(fac, ctx), j)

ChangeSetOf(fac, ctx, j) == ChangeSetDecode(WithAuthority(fac, ctx), j)

-----------------------------------------------------------------------------
(* The genesis block and the blocks.                                       *)

GenesisFingerprint(root, ro) == <<<<"root", root>>>> \o RosterFingerprint(ro)

NewGenesis(ro, root) ==
    [type |-> "genesis", roster |-> ro, root |-> root, digest |-> Hash(GenesisFingerprint(root, ro))]

BlockFingerprint(index, root, data) ==
    <<<<"index", index>>, <<"root", root>>>> \o ResultFingerprint(data)

NewBlock(index, root, data) ==
    [type |-> "block", index |-> index, root |-> root, data |-> data,
     digest |-> Hash(BlockFingerprint(index, root, data))]

GenesisEncode(g) == [Roster |-> RosterEncode(g.roster), TreeRoot |-> g.root]

GenesisDecode(ctx, j) ==
    LET fac == GetFactory(ctx, "types.RosterKey")
    IN  IF fac.type # "AuthorityFac" THEN Err
        ELSE Then(AuthorityOf(fac, ctx, j.Roster), LAMBDA ro : NewGenesis(ro, j.TreeRoot))

GenesisFac(rosterFac) == [type |-> "GenesisFac", roster |-> rosterFac]

GenesisOf(fac, ctx, j) ==
    IF fac.type # "GenesisFac" THEN Err
    ELSE GenesisDecode(WithFactory(ctx, "types.RosterKey", fac.roster), j)

BlockEncode(b) == [Index |-> b.index, TreeRoot |-> b.root, Data |-> ResultEncode(b.data)]

BlockDecode(ctx, j) ==
    IF GetFactory(ctx, "types.DataKey").type # "ResultFac" THEN Err
    ELSE Then(ResultOf(ctx, j.Data), LAMBDA data : NewBlock(j.Index, j.TreeRoot, data))

ResultFac == [type |-> "ResultFac"]
BlockFac(dataFac) == [type |-> "BlockFac", data |-> dataFac]

BlockOf(fac, ctx, j) ==
    IF fac.type # "BlockFac" THEN Err
    ELSE BlockDecode(WithFactory(ctx, "types.DataKey", fac.data), j)

-----------------------------------------------------------------------------
(* Forward links, with or without their block, and chains.                 *)

LinkFingerprint(from, to) == <<from, to>>

NewForwardLink(from, to, prepare, commit, changes) ==
    [type |-> "link", from |-> from, to |-> to, prepare |-> prepare, commit |-> commit,
     changes |-> changes, digest |-> Hash(LinkFingerprint(from, to))]

NewBlockLink(from, block, prepare, commit, changes) ==
    [NewForwardLink(from, block.digest, prepare, commit, changes) EXCEPT !.type = "blocklink"]
      @@ [block |-> block]

(* The change set stays with the block.                                    *)
ReduceUnchanged(l) ==
    NewForwardLink(l.from, l.to, l.prepare, l.commit, NewChangeSet(<<>>, <<>>, <<>>))

Reduce(l) == NewForwardLink(l.from, l.to, l.prepare, l.commit, l.changes)

encodeLink(l) ==
    [From |-> l.from, PrepareSignature |-> SerializeSig(l.prepare),
     CommitSignature |-> SerializeSig(l.commit), ChangeSet |-> ChangeSetEncode(l.changes)]

LinkEncode(l) ==
    IF l.type = "blocklink"
    THEN encodeLink(l) @@ [Block |-> BlockEncode(l.block)]
    ELSE encodeLink(l) @@ [To |-> l.to]

decodeChangeSet(ctx, j) ==
    LET fac == GetFactory(ctx, "types.ChangeSetKey")
    IN  IF fac.type = "AuthorityFac" THEN ChangeSetOf(fac, ctx, j) ELSE Err

LinkDecode(ctx, j) ==
    ThenAll(<<decodeSignature(ctx, j.PrepareSignature, "types.AggregateKey"),
              decodeSignature(ctx, j.CommitSignature, "types.AggregateKey"),
              decodeChangeSet(ctx, j.ChangeSet),
              IF Has(j, "Block") THEN BlockOf(GetFactory(ctx, "types.BlockKey"), ctx, j.Block)
                                 ELSE Nil>>,
            LAMBDA d : IF d[4] # Nil THEN NewBlockLink(j.From, d[4], d[1], d[2], d[3])
                                     ELSE NewForwardLink(j.From, j.To, d[1], d[2], d[3]))

LinkFac(blockFac, sigFac, csFac) ==
    [type |-> "LinkFac", block |-> blockFac, sig |-> sigFac, cs |-> csFac]

LinkOf(fac, ctx, j) ==
    IF fac.type # "LinkFac" THEN Err
    ELSE LinkDecode(WithFactory(WithFactory(WithFactory(ctx,
             "types.BlockKey", fac.block), "types.AggregateKey", fac.sig),
             "types.ChangeSetKey", fac.cs), j)

BlockLinkOf(fac, ctx, j) ==
    Then(LinkOf(fac, ctx, j), LAMBDA l : IF l.type = "blocklink" THEN l ELSE Err)

NewChain(last, prevs) == [type |-> "chain", last |-> last, prevs |-> prevs]

GetLinks(c) == Append(c.prevs, c.last)

ChainEncode(c) == [Links |-> Map(LinkEncode, GetLinks(c))]

ChainDecode(ctx, j) ==
    LET fac == GetFactory(ctx, "types.LinkKey")
    IN  IF j.Links = <<>> THEN Err
        ELSE ThenAll(Map(LAMBDA l : LinkOf(fac, ctx, l), j.Links),
                     LAMBDA links : IF Last(links).type # "blocklink" THEN Err
                                    ELSE NewChain(Last(links), Front(links)))

ChainFac(linkFac) == [type |-> "ChainFac", link |-> linkFac]

ChainOf(fac, ctx, j) ==
    IF fac.type # "ChainFac" THEN Err
    ELSE ChainDecode(WithFactory(ctx, "types.LinkKey", fac.link), j)

-----------------------------------------------------------------------------
(* The messages of the ordering service.                                   *)

NewGenesisMessage(genesis) == [type |-> "GenesisMessage", genesis |-> genesis]
NewBlockMessage(block, views) == [type |-> "BlockMessage", block |-> block, views |-> views]
NewCommit(id, sig) == [type |-> "CommitMessage", id |-> id, sig |-> sig]
NewDone(id, sig) == [type |-> "DoneMessage", id |-> id, sig |-> sig]
NewViewMessage(id, leader, sig) ==
    [type |-> "ViewMessage", id |-> id, leader |-> leader, sig |-> sig]

encodeView(v) == [ID |-> v.id, Leader |-> v.leader, Signature |-> SerializeSig(v.sig)]

MsgEncode(m) ==
    CASE m.type = "GenesisMessage" -> [Genesis |-> [Genesis |-> GenesisEncode(m.genesis)]]
      [] m.type = "BlockMessage" ->
           [Block |-> [Block |-> BlockEncode(m.block),
                       Views |-> [t \in {MarshalText(a) : a \in DOMAIN m.views} |->
                                    encodeView(m.views[FromText(t)])]]]
      [] m.type = "CommitMessage" ->
           [Commit |-> [ID |-> m.id, Signature |-> SerializeSig(m.sig)]]
      [] m.type = "DoneMessage" ->
           [Done |-> [ID |-> m.id, Signature |-> SerializeSig(m.sig)]]
      [] m.type = "ViewMessage" -> [View |-> encodeView(m)]

decodeView(ctx, j) ==
    Then(decodeSignature(ctx, j.Signature, "types.SignatureKey"),
         LAMBDA sig : NewViewMessage(j.ID, j.Leader, sig))

decodeBlockMessage(ctx, j) ==
    LET Views(block) ==
            ThenAll([a \in {FromText(t) : t \in DOMAIN j.Views} |->
                        decodeView(ctx, j.Views[MarshalText(a)])],
                    LAMBDA views : NewBlockMessage(block, views))
    IN  IF GetFactory(ctx, "types.AddressKey") # AddrFac THEN Err
        ELSE Then(BlockOf(GetFactory(ctx, "types.BlockKey"), ctx, j.Block), Views)

MsgDecode(ctx, j) ==
    CASE Has(j, "Genesis") ->
           Then(GenesisOf(GetFactory(ctx, "types.GenesisKey"), ctx, j.Genesis.Genesis),
                NewGenesisMessage)
      [] Has(j, "Block") -> decodeBlockMessage(ctx, j.Block)
      [] Has(j, "Commit") -> Then(decodeSignature(ctx, j.Commit.Signature, "types.AggregateKey"),
                                  LAMBDA sig : NewCommit(j.Commit.ID, sig))
      [] Has(j, "Done") -> Then(decodeSignature(ctx, j.Done.Signature, "types.AggregateKey"),
                                LAMBDA sig : NewDone(j.Done.ID, sig))
      [] Has(j, "View") -> decodeView(ctx, j.View)
      [] OTHER -> Err

MessageFac(genesisFac, blockFac, addrFac, aggFac, csFac) ==
    [type |-> "MessageFac", genesis |-> genesisFac, block |-> blockFac, addr |-> addrFac,
     agg |-> aggFac, sig |-> CommonSigFac, cs |-> csFac]

WithMessageKeys(fac, ctx) ==
    ("types.GenesisKey" :> fac.genesis) @@ ("types.BlockKey" :> fac.block)
      @@ ("types.AggregateKey" :> fac.agg) @@ ("types.SignatureKey" :> fac.sig)
      @@ ("types.LinkKey" :> LinkFac(fac.block, fac.agg, fac.cs))
      @@ ("types.AddressKey" :> fac.addr) @@ ctx

MsgOf(fac, ctx, j) ==
    IF fac.type # "MessageFac" THEN Err ELSE MsgDecode(WithMessageKeys(fac, ctx), j)

-----------------------------------------------------------------------------
(* The messages of the two block synchronisations.                         *)

NewSyncMessage(chain) == [type |-> "SyncMessage", chain |-> chain]
NewSyncRequest(from) == [type |-> "SyncRequest", from |-> from]
NewSyncReply(l) == [type |-> "SyncReply", link |-> l]
NewSyncAck == [type |-> "SyncAck"]

SyncEncode(m) ==
    CASE m.type = "SyncMessage" -> [Message |-> [Chain |-> ChainEncode(m.chain)]]
      [] m.type = "SyncRequest" -> [Request |-> [From |-> m.from]]
      [] m.type = "SyncReply" -> [Reply |-> [Link |-> LinkEncode(m.link)]]
      [] m.type = "SyncAck" -> [Ack |-> Nil]

SyncDecode(ctx, j) ==
    CASE Has(j, "Message") ->
           Then(ChainOf(GetFactory(ctx, "blocksync.ChainKey"), ctx, j.Message.Chain), NewSyncMessage)
      [] Has(j, "Request") -> NewSyncRequest(j.Request.From)
      [] Has(j, "Reply") ->
           Then(BlockLinkOf(GetFactory(ctx, "blocksync.LinkKey"), ctx, j.Reply.Link), NewSyncReply)
      [] Has(j, "Ack") -> NewSyncAck
      [] OTHER -> Err

SyncOf(linkFac, chainFac, ctx, j) ==
    SyncDecode(WithFactory(WithFactory(ctx, "blocksync.LinkKey", linkFac),
                           "blocksync.ChainKey", chainFac), j)

NewRequestCatchupMessage(size, latest) ==
    [type |-> "RequestCatchup", size |-> size, latest |-> latest]

NewCatchupMessage(split, links) == [type |-> "Catchup", split |-> split, links |-> links]

CatchupEncode(m) ==
    CASE m.type = "RequestCatchup" ->
           [Request |-> [SplitMessageSize |-> m.size, Latest |-> m.latest]]
      [] m.type = "Catchup" ->
           [Catchup |-> [SplitMessage |-> m.split, BlockLinks |-> Map(LinkEncode, m.links)]]

CatchupDecode(ctx, j) ==
    CASE Has(j, "Request") ->
           NewRequestCatchupMessage(j.Request.SplitMessageSize, j.Request.Latest)
      [] Has(j, "Catchup") ->
           LET fac == GetFactory(ctx, "fastsync.LinkKey")
           IN  ThenAll(Map(LAMBDA l : BlockLinkOf(fac, ctx, l), j.Catchup.BlockLinks),
                       LAMBDA links : NewCatchupMessage(j.Catchup.SplitMessage, links))
      [] OTHER -> Err

CatchupOf(linkFac, ctx, j) == CatchupDecode(WithFactory(ctx, "fastsync.LinkKey", linkFac), j)

-----------------------------------------------------------------------------
(* The request and the response of the collective signature.               *)

SignatureRequest(value) == [type |-> "SignatureRequest", value |-> value]
SignatureResponse(sig) == [type |-> "SignatureResponse", sig |-> sig]

CosiEncode(m) ==
    CASE m.type = "SignatureRequest" -> [Request |-> [Value |-> MsgEncode(m.value)]]
      [] m.type = "SignatureResponse" -> [Response |-> [Signature |-> SerializeSig(m.sig)]]

CosiDecode(ctx, j) ==
    CASE Has(j, "Request") ->
           Then(MsgOf(GetFactory(ctx, "cosi.MsgKey"), ctx, j.Request.Value), SignatureRequest)
      [] Has(j, "Response") ->
           Then(decodeSignature(ctx, j.Response.Signature, "cosi.SigKey"), SignatureResponse)
      [] OTHER -> Err

CosiOf(msgFac, sigFac, ctx, j) ==
    CosiDecode(WithFactory(WithFactory(ctx, "cosi.MsgKey", msgFac), "cosi.SigKey", sigFac), j)

=============================================================================
