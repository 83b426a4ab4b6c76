----------------------------- MODULE KeyCodecs ------------------------------
(***************************************************************************)
(* The messages of the distributed key generation (dkg/pedersen) and of    *)
(* the routing layer (mino/router/tree) and their JSON.  A point or scalar *)
(* of the curve is a value, its binary form a tuple; UnmarshalBinary fails *)
(* on anything else.                                                       *)
(***************************************************************************)
EXTENDS Codecs

Binary(x) == <<"bin", x>>
Unmarshal(b) == IF b[1] = "bin" THEN b[2] ELSE "malformed"
WellFormed(bs) == \A i \in DOMAIN bs : bs[i][1] = "bin"
OrErr(bs, msg) == IF WellFormed(bs) THEN msg ELSE Err

-----------------------------------------------------------------------------
(* Constructors of the messages.                                           *)

NewStart(thres, addrs, pubkeys) ==
    [type |-> "Start", thres |-> thres, addrs |-> addrs, pubkeys |-> pubkeys]

NewStartResharing(tNew, tOld, addrsNew, addrsOld, pubkeysNew, pubkeysOld) ==
    [type |-> "StartResharing", tNew |-> tNew, tOld |-> tOld, addrsNew |-> addrsNew,
     addrsOld |-> addrsOld, pubkeysNew |-> pubkeysNew, pubkeysOld |-> pubkeysOld]

NewEncryptedDeal(dhkey, sig, nonce, cipher) ==
    [dhkey |-> dhkey, signature |-> sig, nonce |-> nonce, cipher |-> cipher]

NewDeal(index, sig, e) ==
    [type |-> "Deal", index |-> index, signature |-> sig, encryptedDeal |-> e]

NewReshare(deal, coeffs) == [type |-> "Reshare", deal |-> deal, publicCoeff |-> coeffs]

NewDealerResponse(index, status, sessionID, sig) ==
    [sessionID |-> sessionID, index |-> index, status |-> status, signature |-> sig]

NewResponse(index, r) == [type |-> "Response", index |-> index, response |-> r]

NewStartDone(pubkey) == [type |-> "StartDone", pubkey |-> pubkey]

NewDecryptRequest(k, c) == [type |-> "DecryptRequest", K |-> k, C |-> c]

NewReencryptRequest(k, pubk) == [type |-> "ReencryptRequest", K |-> k, PubK |-> pubk]

NewReencryptReply(pubk, i, v, ei, fi) ==
    [type |-> "ReencryptReply", PubK |-> pubk, Ui |-> [I |-> i, V |-> v], Ei |-> ei, Fi |-> fi]

NewVerifiableDecryptRequest(cts) == [type |-> "VerifiableDecryptRequest", ciphertexts |-> cts]

NewDecryptReply(i, v) == [type |-> "DecryptReply", I |-> i, V |-> v]

NewVerifiableDecryptReply(sps) == [type |-> "VerifiableDecryptReply", sp |-> sps]

-----------------------------------------------------------------------------
(* Encoding, one object per kind of message.                               *)

encodeStart(m) ==
    [Start |-> [Threshold |-> m.thres, Addresses |-> Map(MarshalText, m.addrs),
                PublicKeys |-> Map(Binary, m.pubkeys)]]

encodeStartResharing(m) ==
    [StartResharing |->
       [TNew |-> m.tNew, TOld |-> m.tOld,
        AddrsNew |-> Map(MarshalText, m.addrsNew), AddrsOld |-> Map(MarshalText, m.addrsOld),
        PubkeysNew |-> Map(Binary, m.pubkeysNew), PubkeysOld |-> Map(Binary, m.pubkeysOld)]]

encodeDeal(d) ==
    [Index |-> d.index, Signature |-> d.signature,
     EncryptedDeal |-> [DHKey |-> d.encryptedDeal.dhkey, Signature |-> d.encryptedDeal.signature,
                        Nonce |-> d.encryptedDeal.nonce, Cipher |-> d.encryptedDeal.cipher]]

encodeReshare(m) ==
    [Reshare |-> [Deal |-> encodeDeal(m.deal), PublicCoeff |-> Map(Binary, m.publicCoeff)]]

encodeResponse(m) ==
    [Response |-> [Index |-> m.index,
                   Response |-> [SessionID |-> m.response.sessionID, Index |-> m.response.index,
                                 Status |-> m.response.status,
                                 Signature |-> m.response.signature]]]

encodeStartDone(m) == [StartDone |-> [PublicKey |-> Binary(m.pubkey)]]

encodeDecryptRequest(m) == [DecryptRequest |-> [K |-> Binary(m.K), C |-> Binary(m.C)]]

encodeReencryptRequest(m) == [ReencryptRequest |-> [K |-> Binary(m.K), PubK |-> Binary(m.PubK)]]

encodeReencryptReply(m) ==
    [ReencryptReply |-> [PubK |-> Binary(m.PubK), UiI |-> m.Ui.I, UiV |-> Binary(m.Ui.V),
                         Ei |-> Binary(m.Ei), Fi |-> Binary(m.Fi)]]

encodeVerifiableDecryptRequest(m) ==
    [VerifiableDecryptRequest |->
       [Ciphertexts |-> Map(LAMBDA ct : [field \in DOMAIN ct |-> Binary(ct[field])],
                            m.ciphertexts)]]

encodeDecryptReply(m) == [DecryptReply |-> [V |-> Binary(m.V), I |-> m.I]]

encodeVerifiableDecryptReply(m) ==
    [VerifiableDecryptReply |->
       [Sp |-> Map(LAMBDA sp : [V |-> Binary(sp.V), I |-> sp.I, Ui |-> Binary(sp.Ui),
                                Ei |-> Binary(sp.Ei), Fi |-> Binary(sp.Fi), Hi |-> Binary(sp.Hi)],
                   m.sp)]]

KeyEncode(m) ==
    CASE m.type = "Start" -> encodeStart(m)
      [] m.type = "StartResharing" -> encodeStartResharing(m)
      [] m.type = "Deal" -> [Deal |-> encodeDeal(m)]
      [] m.type = "Reshare" -> encodeReshare(m)
      [] m.type = "Response" -> encodeResponse(m)
      [] m.type = "StartDone" -> encodeStartDone(m)
      [] m.type = "DecryptRequest" -> encodeDecryptRequest(m)
      [] m.type = "VerifiableDecryptRequest" -> encodeVerifiableDecryptRequest(m)
      [] m.type = "DecryptReply" -> encodeDecryptReply(m)
      [] m.type = "VerifiableDecryptReply" -> encodeVerifiableDecryptReply(m)
      [] m.type = "ReencryptRequest" -> encodeReencryptRequest(m)
      [] m.type = "ReencryptReply" -> encodeReencryptReply(m)
      [] OTHER -> Err

-----------------------------------------------------------------------------
(* Decoding: the object that is present gives the kind.                    *)

HasAddrFac(ctx, key) == GetFactory(ctx, key) = AddrFac

decodeStart(ctx, j) ==
    IF ~HasAddrFac(ctx, "dkg.AddrKey") THEN Err
    ELSE OrErr(j.PublicKeys,
               NewStart(j.Threshold, Map(FromText, j.Addresses), Map(Unmarshal, j.PublicKeys)))

decodeStartResharing(ctx, j) ==
    IF ~HasAddrFac(ctx, "dkg.AddrKey") THEN Err
    ELSE OrErr(j.PubkeysNew \o j.PubkeysOld,
               NewStartResharing(j.TNew, j.TOld, Map(FromText, j.AddrsNew),
                                 Map(FromText, j.AddrsOld), Map(Unmarshal, j.PubkeysNew),
                                 Map(Unmarshal, j.PubkeysOld)))

decodeDeal(j) ==
    NewDeal(j.Index, j.Signature,
            NewEncryptedDeal(j.EncryptedDeal.DHKey, j.EncryptedDeal.Signature,
                             j.EncryptedDeal.Nonce, j.EncryptedDeal.Cipher))

decodeReshare(j) ==
    OrErr(j.PublicCoeff, NewReshare(decodeDeal(j.Deal), Map(Unmarshal, j.PublicCoeff)))

(* The four arguments of NewDealerResponse are two pairs of the same types. *)
decodeResponseCrossed(j) ==
    NewResponse(j.Index, NewDealerResponse(j.Response.Index, j.Response.Status,
                                           j.Response.Signature, j.Response.SessionID))

decodeResponse(j) ==
    NewResponse(j.Index, NewDealerResponse(j.Response.Index, j.Response.Status,
                                           j.Response.SessionID, j.Response.Signature))

decodeStartDone(j) == OrErr(<<j.PublicKey>>, NewStartDone(Unmarshal(j.PublicKey)))

decodeDecryptRequest(j) ==
    OrErr(<<j.K, j.C>>, NewDecryptRequest(Unmarshal(j.K), Unmarshal(j.C)))

decodeVerifiableDecryptRequest(j) ==
    OrErr(FlattenSeq(Map(LAMBDA ct : <<ct.K, ct.C, ct.UBar, ct.E, ct.F, ct.GBar>>, j.Ciphertexts)),
          NewVerifiableDecryptRequest(
            Map(LAMBDA ct : [field \in DOMAIN ct |-> Unmarshal(ct[field])], j.Ciphertexts)))

decodeDecryptReply(j) == OrErr(<<j.V>>, NewDecryptReply(j.I, Unmarshal(j.V)))

decodeVerifiableDecryptReply(j) ==
    OrErr(FlattenSeq(Map(LAMBDA sp : <<sp.V, sp.Ui, sp.Ei, sp.Fi, sp.Hi>>, j.Sp)),
          NewVerifiableDecryptReply(
            Map(LAMBDA sp : [V |-> Unmarshal(sp.V), I |-> sp.I, Ui |-> Unmarshal(sp.Ui),
                             Ei |-> Unmarshal(sp.Ei), Fi |-> Unmarshal(sp.Fi),
                             Hi |-> Unmarshal(sp.Hi)], j.Sp)))

decodeReencryptRequest(j) ==
    OrErr(<<j.K, j.PubK>>, NewReencryptRequest(Unmarshal(j.K), Unmarshal(j.PubK)))

decodeReencryptReply(j) ==
    OrErr(<<j.PubK, j.UiV, j.Ei, j.Fi>>,
          NewReencryptReply(Unmarshal(j.PubK), j.UiI, Unmarshal(j.UiV),
                            Unmarshal(j.Ei), Unmarshal(j.Fi)))

KeyDecode(ctx, j) ==
    CASE Has(j, "Start") -> decodeStart(ctx, j.Start)
      [] Has(j, "StartResharing") -> decodeStartResharing(ctx, j.StartResharing)
      [] Has(j, "Deal") -> decodeDeal(j.Deal)
      [] Has(j, "Reshare") -> decodeReshare(j.Reshare)
      [] Has(j, "Response") -> decodeResponse(j.Response)
      [] Has(j, "StartDone") -> decodeStartDone(j.StartDone)
      [] Has(j, "DecryptRequest") -> decodeDecryptRequest(j.DecryptRequest)
      [] Has(j, "VerifiableDecryptRequest") ->
           decodeVerifiableDecryptRequest(j.VerifiableDecryptRequest)
      [] Has(j, "DecryptReply") -> decodeDecryptReply(j.DecryptReply)
      [] Has(j, "VerifiableDecryptReply") -> decodeVerifiableDecryptReply(j.VerifiableDecryptReply)
      [] Has(j, "ReencryptRequest") -> decodeReencryptRequest(j.ReencryptRequest)
      [] Has(j, "ReencryptReply") -> decodeReencryptReply(j.ReencryptReply)
      [] OTHER -> Err

KeyOf(addrFac, ctx, j) == KeyDecode(WithFactory(ctx, "dkg.AddrKey", addrFac), j)

-----------------------------------------------------------------------------
(* Packets and handshakes of the routing layer.  The payload of a packet   *)
(* is already serialised.                                                  *)

NewPacket(src, msg, dest) == [type |-> "Packet", src |-> src, msg |-> msg, dest |-> dest]

NewHandshake(height, addrs) == [type |-> "Handshake", height |-> height, addrs |-> addrs]

PacketEncode(p) ==
    [Source |-> MarshalText(p.src), Dest |-> Map(MarshalText, p.dest), Message |-> p.msg]

PacketDecode(ctx, j) ==
    IF ~HasAddrFac(ctx, "tree.AddrKey") THEN Err
    ELSE NewPacket(FromText(j.Source), j.Message, Map(FromText, j.Dest))

PacketOf(addrFac, ctx, j) == PacketDecode(WithFactory(ctx, "tree.AddrKey", addrFac), j)

HandshakeEncode(h) == [Height |-> h.height, Addresses |-> Map(MarshalText, h.addrs)]

HandshakeDecode(ctx, j) ==
    IF ~HasAddrFac(ctx, "tree.AddrKey") THEN Err
    ELSE NewHandshake(j.Height, Map(FromText, j.Addresses))

HandshakeOf(addrFac, ctx, j) == HandshakeDecode(WithFactory(ctx, "tree.AddrKey", addrFac), j)

=============================================================================
