------------------------------ MODULE MCRetry -------------------------------
(* One call of RpcClient, of any kind.                                      *)
EXTENDS Retry

Ended == retry \notin {"trying", "sleeping"} /\ UNCHANGED retryVars
Tries == attempt < MaxExponent + 4   \* bound
Init == \E c \in Calls : RetryInit(c)
Next == (Tries /\ (Try \/ Revert)) \/ Ended \/ (~Tries /\ UNCHANGED retryVars)
Spec == Init /\ [][Next]_retryVars
=============================================================================
