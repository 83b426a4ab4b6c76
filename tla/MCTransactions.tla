--------------------------- MODULE MCTransactions ---------------------------
(* Instances of Transactions for TLC: a leader and a follower.             *)
EXTENDS Transactions
CONSTANTS n1, n2, c1
TwoNodes == {n1, n2}
FirstNode == {n1}
SecondNode == {n2}
OneClient == {c1}
=============================================================================
