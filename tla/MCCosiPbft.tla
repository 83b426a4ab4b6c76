----------------------------- MODULE MCCosiPbft -----------------------------
(* Instances of CosiPbft for TLC: four participants, one of which may be   *)
(* faulty, so that three of them are a quorum.                             *)
EXTENDS CosiPbft
CONSTANTS v1, v2
MCVal == {v1, v2}

(* What the pools hold: batches that depend on the leader or on the        *)
(* height, or the same one for all.                                        *)
Pools(G(_, _)) == [l \in 0 .. N - 1 |-> [h \in 1 .. MaxHeight + 1 |-> G(l, h)]]
GatherOwn == LET G(l, h) == IF l % 2 = 0 THEN {v1} ELSE {v2} IN Pools(G)
GatherNew == LET G(l, h) == IF h = 1 THEN {v1, v2} ELSE {v2} IN Pools(G)
GatherOne == LET G(l, h) == {v1} IN Pools(G)

(* Who can be reached: two leaders with two different quorums,             *)
(* or all but the leader.                                                  *)
Always(R(_)) == [l \in 0 .. N - 1 |-> [h \in 1 .. MaxHeight |-> R(l)]]
ReachOverlap == LET R(l) == IF l = 0 THEN {0, 1, 2} ELSE {1, 2, 3} IN Always(R)
ReachFollowers == LET R(l) == (0 .. N - 1) \ {l} IN Always(R)
(* A participant that misses two blocks and is needed for the next one.    *)
ReachLater == [l \in 0 .. N - 1 |->
                 [h \in 1 .. MaxHeight |-> IF h < 3 THEN {0, 1, 2} ELSE {0, 1, 3}]]

(* A part of the behaviours: nobody gives up before a block is confirmed,  *)
(* and the leader does not give up at all.                                 *)
Patient ==
    /\ viewMsgs # {} => doneMsgs # {}
    /\ step[0] = "gather" => blockMsgs = {} \/ doneMsgs # {}
=============================================================================
