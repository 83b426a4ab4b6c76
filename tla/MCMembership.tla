---------------------------- MODULE MCMembership ----------------------------
(* Instances of Membership for TLC.                                        *)
EXTENDS Membership
CONSTANTS a, b, c, d, e, k1, k2, p1
AddrsFive == {a, b, c, d, e}
TwoKeys == {k1, k2}
OneAdmin == {p1}
With(s) == [i \in DOMAIN s |-> [addr |-> s[i], key |-> k1]]
Abcd == With(<<a, b, c, d>>)
StartFour == Abcd
OfClient(rs, ok) == [by : {"client"}, roster : rs, granted : {ok}]
Rekey(r, i) == [r EXCEPT ![i].key = k2]
(* Members of the first roster leave, come back, are there twice, or have  *)
(* another key, alone or while another member leaves.                      *)
OthersFive ==
    LET part(s) == SetToSortSeq(s, <)
        parts == {[i \in DOMAIN part(s) |-> Abcd[part(s)[i]]] : s \in SUBSET (1 .. 4)}
    IN  OfClient(parts \cup {With(<<a, b, c, d, a>>), With(<<b, c, d, a>>),
                                Rekey(Abcd, 2), Rekey(With(<<a, b, d>>), 2)}, TRUE)
          \cup OfClient({With(<<a, b, c, d, e>>)}, FALSE)
=============================================================================
