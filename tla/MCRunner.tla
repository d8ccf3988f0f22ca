------------------------------ MODULE MCRunner ------------------------------
(* Instances of Runner for TLC; the configurations give the constants.     *)
EXTENDS Runner
=============================================================================
