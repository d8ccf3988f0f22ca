-------------------------------- MODULE Retry --------------------------------
(***************************************************************************)
(* chain/rpc.py: retry_async and backoff_delay, through which every call   *)
(* of RpcClient goes.  The provider answers, fails transiently (network,   *)
(* time-out, 429, 5xx), fails permanently, or says the call reverts.  How  *)
(* long the pauses are is left out, but for the numbers they are made of.  *)
(***************************************************************************)
EXTENDS Integers

CONSTANTS
    CallAttempts,     \* rpc.call_max_attempts
    FloatBase,        \* retry_base_delay_sec is a float: left out, or written as one
    MaxExponent,      \* greatest n such that a float can hold 2^n (1023)
    MaxTransient      \* bound: transient failures the provider shows

ASSUME RetryConfig ==
    /\ CallAttempts \in Nat \ {0}
    /\ FloatBase \in BOOLEAN /\ MaxExponent \in Nat /\ MaxTransient \in Nat

VARIABLES
    call,          \* arguments of the running retry_async
    attempt,       \* its local of that name
    retry,         \* where it is, or how it ended
    permanents,    \* ghost: permanent errors of this call, up to CallAttempts
    transients     \* transient failures the provider has shown, in all calls

retryVars == <<call, attempt, retry, permanents, transients>>

Endless == 0    \* attempts=None

(* What RpcClient passes: block_number; block_timestamp; tx_sender;        *)
(* eth_call; get_logs on one block and on a range of them.                 *)
BlockNumber == [attempts |-> Endless, forever |-> FALSE, mayRevert |-> FALSE]
BlockTimestamp == [attempts |-> CallAttempts, forever |-> FALSE, mayRevert |-> FALSE]
TxSender == [attempts |-> 3, forever |-> FALSE, mayRevert |-> FALSE]
EthCall == [attempts |-> CallAttempts, forever |-> TRUE, mayRevert |-> TRUE]
LogsOfBlock == [attempts |-> CallAttempts, forever |-> TRUE, mayRevert |-> FALSE]
LogsOfRange == [attempts |-> 1, forever |-> TRUE, mayRevert |-> FALSE]

Calls == {BlockNumber, BlockTimestamp, TxSender, EthCall, LogsOfBlock, LogsOfRange}

RetryType ==
    /\ call \in Calls
    /\ attempt \in Nat
    /\ retry \in {"trying", "sleeping", "answered", "reverted", "failed", "overflowed"}
    /\ permanents \in 0 .. CallAttempts
    /\ transients \in 0 .. MaxTransient

RetryInit(c) ==
    /\ call = c /\ attempt = 1 /\ retry = "trying"
    /\ permanents = 0 /\ transients = 0

(* The next retry_async begins.                                            *)
NewCall(c) ==
    /\ call' = c /\ attempt' = 1 /\ retry' = "trying"
    /\ permanents' = 0 /\ transients' = transients

-----------------------------------------------------------------------------
(* backoff_delay multiplies the base by 2^(attempt - 1) before it cuts the *)
(* product at the maximum.  A float (the default 1.0, or 0.5 in the file)  *)
(* cannot be multiplied by any integer; the 1 of the shipped file stays an *)
(* integer, and so does the product.                                       *)
Overflows == FloatBase /\ attempt - 1 > MaxExponent

(* The limit is on all errors together; a transient one is let through     *)
(* when the call is to outlast them.                                       *)
Exhausted(transient) ==
    /\ call.attempts # Endless
    /\ attempt >= call.attempts
    /\ ~ (call.forever /\ transient)

Answer ==
    /\ retry = "trying"
    /\ retry' = "answered"
    /\ UNCHANGED <<call, attempt, permanents, transients>>

Revert ==
    /\ retry = "trying" /\ call.mayRevert
    /\ retry' = "reverted"
    /\ UNCHANGED <<call, attempt, permanents, transients>>

(* RpcError, an OverflowError out of the handler, or a pause.              *)
AfterError(transient) ==
    \/ Exhausted(transient) /\ retry' = "failed"
    \/ ~Exhausted(transient) /\ Overflows /\ retry' = "overflowed"
    \/ ~Exhausted(transient) /\ ~Overflows /\ retry' = "sleeping"

TransientError ==
    /\ retry = "trying" /\ transients < MaxTransient
    /\ transients' = transients + 1
    /\ AfterError(TRUE)
    /\ UNCHANGED <<call, attempt, permanents>>

PermanentError ==
    /\ retry = "trying"
    /\ permanents' = IF permanents < CallAttempts THEN permanents + 1 ELSE permanents
    /\ AfterError(FALSE)
    /\ UNCHANGED <<call, attempt, transients>>

WakeUp ==
    /\ retry = "sleeping"
    /\ retry' = "trying"
    /\ attempt' = attempt + 1
    /\ UNCHANGED <<call, permanents, transients>>

Try == Answer \/ TransientError \/ PermanentError \/ WakeUp
-----------------------------------------------------------------------------
(* rpc.py:55: attempts=None means that the call is tried for ever.         *)
NeverGivesUp == call = BlockNumber => retry \in {"trying", "sleeping", "answered"}
=============================================================================
