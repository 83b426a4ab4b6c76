--------------------------- MODULE MCKeyGeneration ---------------------------
(* Small instances of KeyGeneration.                                       *)
EXTENDS KeyGeneration

MCNode == 1 .. 3

Members(s, t) == [addrs |-> s, t |-> t]

(* A node leaves, joins and stays; a committee that only shrinks; one that *)
(* grows, with a threshold that does not.                                  *)
MCPlans == {<<Members({1, 2}, 2), Members({2, 3}, 2)>>,
            <<Members({1, 2, 3}, 2), Members({2, 3}, 2)>>,
            <<Members({1, 2}, 2), Members({1, 2, 3}, 2)>>}
=============================================================================
