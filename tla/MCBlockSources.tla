--------------------------- MODULE MCBlockSources ---------------------------
(* An instance for TLC with the default settings, in seconds.              *)
EXTENDS BlockSources
=============================================================================
