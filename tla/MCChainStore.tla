---------------------------- MODULE MCChainStore ----------------------------
(* Instances of ChainStore for TLC.                                        *)
EXTENDS ChainStore
CONSTANTS h1, r1, r2
OneHandler == {h1}
TwoReaders == {r1, r2}
=============================================================================
