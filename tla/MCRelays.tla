------------------------------ MODULE MCRelays -------------------------------
(* Instances of Relays, with one child per level unless the height asks    *)
(* for more.                                                               *)
EXTENDS Relays

CONSTANTS r, a, b, u, v, w, m1, m2

(* The orchestrator talks to the players, and the last one answers.        *)
MCSource == Put(Singleton(m1, Orch), Singleton(m2, b))

(* With three players the tree is a chain, the deepest that the tables     *)
(* allow: the root r, then a, then b.                                      *)
Chain ==
    [players |-> {r, a, b}, ends |-> TRUE,
     target |-> Put(Singleton(m1, <<a, b>>), Singleton(m2, <<r, Orch>>))]

(* With six, the table of the root has two branches, one of which has two  *)
(* children and the other one.                                             *)
Wide ==
    [players |-> {r, a, b, u, v, w}, ends |-> FALSE,
     target |-> Singleton(m1, <<a, b>>)]

MCPlan == {Chain, Wide}
=============================================================================
