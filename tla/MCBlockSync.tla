---------------------------- MODULE MCBlockSync ----------------------------
(* Two participants, or two of a larger roster whose other members are in  *)
(* step, so that the answers of both complete a quorum.                    *)
EXTENDS BlockSync, TLC

CONSTANTS n1, n2

(* A participant that is two blocks behind.                                *)
MCStart == {n1 :> 2 @@ n2 :> 0}
=============================================================================
