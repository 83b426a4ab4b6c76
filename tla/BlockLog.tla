------------------------------ MODULE BlockLog ------------------------------
(* What the ordering service promises: one sequence of blocks, shared by   *)
(* all the participants.  One block after the other is confirmed, at the   *)
(* end, and a confirmed block is never replaced or removed.                *)
EXTENDS Sequences
CONSTANT Val         \* contents of blocks
VARIABLE confirmed   \* the blocks confirmed so far

Genesis == confirmed = << >>
ConfirmBlock == \E data \in Val : confirmed' = Append(confirmed, data)
OneChain == Genesis /\ [][ConfirmBlock]_confirmed
=============================================================================
