------------------------------ MODULE MCReplay -------------------------------
(* Instances of Replay for TLC; the configurations give the constants.      *)
EXTENDS Replay
=============================================================================
