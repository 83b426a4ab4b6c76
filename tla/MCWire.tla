------------------------------- MODULE MCWire -------------------------------
(***************************************************************************)
(* Four hosts, two blocks; the first block removes the second host, so     *)
(* that the second block is signed by a roster with other indices.         *)
(***************************************************************************)
EXTENDS Wire

MCHost == <<"a", "b", "c", "d">>
MCProtocols == {<<"threshold", "block">>, <<"flat", "fast">>}
MCArgNames == <<"arg", "value">>

Client == NewPublicKey("bls", "client")
MCTx(n) == SignTx(NewTransaction(n, Client, "value" :> n @@ "arg" :> 0, Nil), Client)

MCResult ==
    <<NewResult(<<NewTransactionResult(MCTx(0), TRUE, "")>>),
      NewResult(<<NewTransactionResult(MCTx(1), TRUE, ""),
                  NewTransactionResult(MCTx(5), FALSE, "nonce")>>)>>

MCChange == <<NewChangeSet(<<1>>, <<>>, <<>>), NewChangeSet(<<>>, <<>>, <<>>)>>

A1 == NewAddress("a")
A2 == NewAddress("b")
MCDeal == NewDeal(1, "s", NewEncryptedDeal("dh", "s2", "n", "c"))
MCView == NewViewMessage("id", 2, Sign(Client, <<"view", 2>>))

MCFreight ==
    {NewStart(2, <<A1, A2>>, <<"p", "q">>),
     NewStartResharing(2, 1, <<A1>>, <<A1, A2>>, <<"p">>, <<"p", "q">>),
     MCDeal,
     NewReshare(MCDeal, <<"x", "y">>),
     NewResponse(1, NewDealerResponse(2, TRUE, "session", "s")),
     NewStartDone("p"),
     NewDecryptRequest("k", "c"),
     NewReencryptRequest("k", "p"),
     NewReencryptReply("p", 3, "v", "e", "f"),
     NewVerifiableDecryptRequest(<<[K |-> "k", C |-> "c", UBar |-> "u", E |-> "e", F |-> "f",
                                    GBar |-> "g"]>>),
     NewDecryptReply(1, "v"),
     NewVerifiableDecryptReply(<<[V |-> "v", I |-> 1, Ui |-> "u", Ei |-> "e", Fi |-> "f",
                                  Hi |-> "h"]>>),
     NewPacket(NewOrchestratorAddress(A1), <<"bin", "payload">>, <<A1, A2>>),
     NewHandshake(3, <<A1, NewOrchestratorAddress(A2)>>),
     NewGenesisMessage(NewGenesis(NewRoster(<<A1, A2>>, <<Client, Client>>), "root")),
     NewBlockMessage(NewBlock(1, "root", MCResult[2]), A1 :> MCView),
     MCView, NewSyncRequest(3), NewSyncAck, NewRequestCatchupMessage(10, 3),
     MCTx(0), Client, NewPublicKey("ed25519", "k"), Sign(NewPublicKey("ed25519", "k"), "msg")}

=============================================================================
