-------------------------- MODULE MCStateReplicas --------------------------
(***************************************************************************)
(* Two participants, an administrator and a user, two values. The keys     *)
(* share prefixes so that the leaves of the tree are split and collapse at *)
(* several depths, across the bytes of the scan.                           *)
(***************************************************************************)
EXTENDS StateReplicas

MCIdent == {"admin", "user"}
MCName == {"a", "b"}
MCMember == <<"m1", "m2">>

MCKeys ==
    [x \in {<<"nonce", i>> : i \in MCIdent} \cup {<<"VALU", n>> : n \in MCName}
             \cup {<<"DARC", "COSI">>, <<"DARC", "VALU">>, <<"COSI", "roster">>} |->
        CASE x = <<"COSI", "roster">> -> <<0, 0, 0, 0, 0>>
          [] x = <<"DARC", "COSI">>   -> <<1, 0, 0, 0, 0>>
          [] x = <<"DARC", "VALU">>   -> <<1, 1, 0, 0, 0>>
          [] x = <<"nonce", "admin">> -> <<1, 1, 1, 0, 0>>
          [] x = <<"nonce", "user">>  -> <<0, 1, 0, 0, 0>>
          [] x = <<"VALU", "a">>      -> <<0, 0, 1, 0, 0>>
          [] x = <<"VALU", "b">>      -> <<0, 0, 1, 1, 0>>]

Tx(contract, from, cmd) ==
    [contract |-> contract, from |-> from, cmd |-> cmd, late |-> FALSE,
     key |-> Missing, value |-> Missing, cred |-> NoCreds, group |-> << >>]
GrantTo(group) ==
    [Tx("Access", "admin", "GRANT") EXCEPT !.cred = ValueCreds, !.group = group]
Write(name, value) == [Tx("Value", "user", "WRITE") EXCEPT !.key = name, !.value = value]
Erase(name) == [Tx("Value", "user", "DELETE") EXCEPT !.key = name]

MCBatch ==
    { <<GrantTo(<<"user">>), Write("a", "v1")>>,
      <<Write("b", "v1"), Write("a", "v2")>>,
      <<Erase("a")>>,
      <<Erase("b"), [Write("a", "v3") EXCEPT !.late = TRUE]>>,
      <<GrantTo(<<"user", "admin">>), Tx("None", "admin", "GRANT"),
        Tx("Value", "user", "WRITE"), Tx("Value", "user", "LIST")>> }
=============================================================================
