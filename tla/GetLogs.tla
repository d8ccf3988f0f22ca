------------------------------- MODULE GetLogs -------------------------------
(***************************************************************************)
(* chain/rpc.py: RpcClient.get_logs.  A range of blocks is asked for in    *)
(* one request; when the provider refuses it for good, the range is cut in *)
(* two and each half asked for in the same way.                            *)
(*                                                                         *)
(* The calls that wait for their halves are a stack of ranges; the logs    *)
(* that were fetched are the sequence of their blocks.  The module is a    *)
(* component: its caller begins a request and reads the outcome.           *)
(***************************************************************************)
EXTENDS Retry, Sequences

VARIABLES
    asked,      \* the range get_logs was called with
    todo,       \* ranges still to be fetched, the next one first
    got,        \* blocks whose logs were fetched, in the order of the result
    outcome     \* "idle" before the first call, "running", or how it ended

getLogsVars == <<retryVars, asked, todo, got, outcome>>

Range(a, b) == [from |-> a, to |-> b]
Next1 == todo[1]

(* Mutant: one try for a single block too.                                 *)
CallForAlike(r) == LogsOfRange

CallFor(r) == IF r.from = r.to THEN LogsOfBlock ELSE LogsOfRange

GetLogsType ==
    /\ RetryType
    /\ asked \in [from : Nat, to : Nat]
    /\ todo \in Seq([from : asked.from .. asked.to, to : asked.from .. asked.to])
    /\ got \in Seq(asked.from .. asked.to)
    /\ outcome \in {"idle", "running", "returned", "failed", "overflowed"}

GetLogsInit ==
    /\ asked = Range(0, 0)
    /\ todo = <<>> /\ got = <<>>
    /\ outcome = "idle"
    /\ RetryInit(LogsOfBlock)

(* The caller awaits get_logs(a, b).                                       *)
Request(a, b) ==
    /\ asked' = Range(a, b)
    /\ todo' = <<Range(a, b)>>
    /\ got' = <<>>
    /\ outcome' = "running"
    /\ NewCall(CallFor(Range(a, b)))

BlocksOf(r) == [i \in 1 .. r.to - r.from + 1 |-> r.from + i - 1]

(* The retry of the first range goes on.                                   *)
Ask ==
    /\ outcome = "running"
    /\ Try
    /\ UNCHANGED <<asked, todo, got, outcome>>

(* The ranges that are left, and the call for the first of them.           *)
GoOn(ranges) ==
    /\ todo' = ranges
    /\ IF ranges = <<>>
       THEN outcome' = "returned" /\ UNCHANGED retryVars
       ELSE NewCall(CallFor(ranges[1])) /\ UNCHANGED outcome

Fetched ==
    /\ outcome = "running" /\ retry = "answered"
    /\ got' = got \o BlocksOf(Next1)
    /\ GoOn(Tail(todo))
    /\ UNCHANGED asked

(* Mutant: rounding up, so that two blocks are cut into two and none.      *)
MiddleAbove(r) == (r.from + r.to + 1) \div 2

Middle(r) == (r.from + r.to) \div 2

(* Mutant: the middle block is asked for twice.                            *)
HalvesOverlap(r) == <<Range(r.from, Middle(r)), Range(Middle(r), r.to)>>

Halves(r) == <<Range(r.from, Middle(r)), Range(Middle(r) + 1, r.to)>>

Divide ==
    /\ outcome = "running" /\ retry = "failed"
    /\ Next1.from # Next1.to
    /\ GoOn(Halves(Next1) \o Tail(todo))
    /\ UNCHANGED <<asked, got>>

(* RpcError for one block, or an error that is none, leaves every call.    *)
Fail ==
    /\ outcome = "running"
    /\ \/ retry = "failed" /\ Next1.from = Next1.to /\ outcome' = "failed"
       \/ retry = "overflowed" /\ outcome' = "overflowed"
    /\ UNCHANGED <<retryVars, asked, todo, got>>

GetLogsStep == Ask \/ Fetched \/ Divide \/ Fail

-----------------------------------------------------------------------------
(* The result holds the logs of every block of the range once and in       *)
(* order, however the range was cut: group_by_block and the loop over the  *)
(* batch rely on it (rpc.py:166-188).                                      *)
ResultComplete == outcome = "returned" => got = BlocksOf(asked)

(* An RpcError names one block that the provider refused for good after    *)
(* all attempts; a range is never refused as a whole (rpc.py:166-188).     *)
RefusesOneBlock ==
    outcome = "failed" =>
        /\ Next1.from = Next1.to
        /\ attempt >= CallAttempts /\ permanents > 0
=============================================================================
