------------------------------ MODULE MCEngine ------------------------------
(***************************************************************************)
(* Instances of Engine for TLC; the configurations give the constants.     *)
(* With a drop of 20%, 10 -> 9 is no dump and 10 -> 5, 9 -> 5 are.         *)
(***************************************************************************)
EXTENDS Engine
=============================================================================
