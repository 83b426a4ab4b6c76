------------------------------- MODULE Codecs -------------------------------
(***************************************************************************)
(* The serialisation of keys, signatures, transactions, blocks, links and  *)
(* chains: serde, the json packages and the constructors they call.  A     *)
(* JSON object is a record whose fields are the fields present (omitempty  *)
(* fields are left out), a []byte is a tuple that starts with the kind of  *)
(* thing it encodes, and every decoded value is a record with a type, the  *)
(* error being one of them.  nil and empty slices are not told apart.      *)
(***************************************************************************)
EXTENDS Naturals, Sequences, FiniteSets, TLC, SequencesExt

CONSTANT ArgNames  \* the keys of transaction arguments, as sort.Sort orders them

Err == [type |-> "error"]
Nil == [type |-> "nil"]
Failed(x) == x.type = "error"
AnyFails(s) == \E i \in DOMAIN s : Failed(s[i])

(* "if err != nil", for one result and for several: an error is passed on. *)
Then(x, Make(_)) == IF Failed(x) THEN Err ELSE Make(x)
ThenAll(s, Make(_)) == IF AnyFails(s) THEN Err ELSE Make(s)

Map(Op(_), s) == <<>> \o [i \in DOMAIN s |-> Op(s[i])]  \* TLC builds the tuple at once
Has(j, field) == field \in DOMAIN j

-----------------------------------------------------------------------------
(* serde.Context: the factories by key.  WithFactory copies the map.       *)

NewContext == [key \in {} |-> Nil]

GetFactory(ctx, key) == IF key \in DOMAIN ctx THEN ctx[key] ELSE Nil

WithFactory(ctx, key, fac) == (key :> fac) @@ ctx

-----------------------------------------------------------------------------
(* Addresses (minogrpc session).                                           *)

NewAddress(host) == [type |-> "address", orchestrator |-> FALSE, conn |-> 0, host |-> host]

NewOrchestratorAddress(a) == [a EXCEPT !.orchestrator = TRUE]

MarshalText(a) == <<IF a.orchestrator THEN "O" ELSE "F", a.conn + 65, a.host>>

FromText(t) ==
    IF Len(t) < 2 THEN [NewAddress("") EXCEPT !.conn = 0]
    ELSE [type |-> "address", orchestrator |-> t[1] = "O", conn |-> t[2] - 65, host |-> t[3]]

AddrFac == [type |-> "AddrFac"]

-----------------------------------------------------------------------------
(* Public keys and signatures.  A signature is its signers by what they    *)
(* signed: one for a share, several for an aggregate.                      *)

NewPublicKey(alg, id) == [type |-> "pubkey", alg |-> alg, id |-> id]

NewSignature(alg, parts) == [type |-> "sig", alg |-> alg, parts |-> parts]

KeyBytes(key) == <<"key", key.id>>

Sign(key, msg) == NewSignature(key.alg, msg :> {key.id})

Aggregate(s, t) ==
    LET of(x, msg) == IF msg \in DOMAIN x.parts THEN x.parts[msg] ELSE {}
    IN  NewSignature(s.alg, [msg \in DOMAIN s.parts \cup DOMAIN t.parts |-> of(s, msg) \cup of(t, msg)])

(* PublicKey.Verify and, for several keys, blsVerifier.Verify.             *)
Verifies(keys, msg, sig) ==
    /\ sig.type = "sig"
    /\ keys # {}
    /\ \A key \in keys : key.alg = sig.alg
    /\ sig.parts = msg :> {key.id : key \in keys}

PubKeyEncode(key) == [Name |-> key.alg, Data |-> KeyBytes(key)]

PubKeyDecode(alg, j) ==
    IF Has(j, "Data") /\ j.Data[1] = "key" THEN NewPublicKey(alg, j.Data[2]) ELSE Err

SigEncode(sig) == [Name |-> sig.alg, Data |-> <<"sig", sig.parts>>]

SigDecode(alg, j) ==
    NewSignature(alg, IF Has(j, "Data") /\ j.Data[1] = "sig" THEN j.Data[2] ELSE <<>>)

(* common.Algorithm: only the name is read from the object.                *)
AlgorithmOf(j) == IF Has(j, "Name") THEN j.Name ELSE ""

PubKeyFac(alg) == [type |-> "PubKeyFac", alg |-> alg]
CommonPubKeyFac == [type |-> "CommonPubKeyFac", algs |-> {"bls"}]
SigFac(alg) == [type |-> "SigFac", alg |-> alg]
CommonSigFac == [type |-> "CommonSigFac", algs |-> {"bls"}]
ThresholdSigFac(agg) == [type |-> "ThresholdSigFac", agg |-> agg]

PublicKeyOf(fac, ctx, j) ==
    CASE fac.type = "PubKeyFac" -> PubKeyDecode(fac.alg, j)
      [] fac.type = "CommonPubKeyFac" ->
           IF AlgorithmOf(j) \in fac.algs THEN PubKeyDecode(AlgorithmOf(j), j) ELSE Err
      [] OTHER -> Err

CommonSignatureOf(fac, j) ==
    IF AlgorithmOf(j) \in fac.algs THEN SigDecode(AlgorithmOf(j), j) ELSE Err

ShareOf(fac, ctx, j) ==
    CASE fac.type = "SigFac" -> SigDecode(fac.alg, j)
      [] fac.type = "CommonSigFac" -> CommonSignatureOf(fac, j)
      [] OTHER -> Err

-----------------------------------------------------------------------------
(* Threshold signatures: an aggregate and the mask of its signers.         *)

NewThreshold(agg, mask) == [type |-> "threshold", agg |-> agg, mask |-> mask]

MarshalBinary(sig) ==
    IF sig.type = "threshold"
    THEN <<"thres", sig.agg.parts, sig.mask>>
    ELSE <<"sig", sig.parts>>

ThresholdEncode(sig) == [Mask |-> sig.mask, Aggregate |-> SigEncode(sig.agg)]

ThresholdDecode(ctx, j) ==
    IF ~Has(j, "Aggregate") THEN Err
    ELSE Then(ShareOf(GetFactory(ctx, "AggKey"), ctx, j.Aggregate),
              LAMBDA agg : NewThreshold(agg, j.Mask))

SignatureOf(fac, ctx, j) ==
    IF fac.type = "ThresholdSigFac"
    THEN ThresholdDecode(WithFactory(ctx, "AggKey", fac.agg), j)
    ELSE ShareOf(fac, ctx, j)

SerializeSig(sig) == IF sig.type = "threshold" THEN ThresholdEncode(sig) ELSE SigEncode(sig)

decodeSignature(ctx, j, key) == SignatureOf(GetFactory(ctx, key), ctx, j)

=============================================================================
