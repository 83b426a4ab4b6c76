---------------------------- MODULE MCObservers -----------------------------
(* Instances of Observers for TLC.                                         *)
EXTENDS Observers
CONSTANTS l1
OneListener == {l1}
=============================================================================
