----------------------------- MODULE MCNotifier ------------------------------
(* Instances of Notifier for TLC; the configurations give the constants.    *)
EXTENDS Notifier
=============================================================================
