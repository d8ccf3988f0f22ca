-------------------------------- MODULE Replay --------------------------------
(***************************************************************************)
(* runner.py: run_replay, which main.py's replay() runs once.  The blocks  *)
(* of a range go through the engine batch by batch, each batch fetched by  *)
(* GetLogs.  Nothing is tried again: an exception ends the program, and    *)
(* the saved block of the live loop is neither read nor written.           *)
(***************************************************************************)
EXTENDS GetLogs

CONSTANTS
    From, To,         \* --replay's arguments
    BatchSettings     \* values of rpc.catchup_batch_blocks; none is refused

ASSUME ReplayConfig ==
    /\ From \in Nat /\ To \in Nat /\ From <= To
    /\ BatchSettings \subseteq Nat

VARIABLES
    replay,       \* where run_replay is, or how it ended
    batch,        \* its locals of these names
    start,
    block,        \* the block process_range has come to
    processed     \* ghost: what the engine was given, block by block

replayVars == <<replay, batch, start, block, processed>>
vars == <<getLogsVars, replayVars>>

TypeOK ==
    /\ GetLogsType
    /\ replay \in {"starting", "loop", "fetching", "processing", "finished", "died"}
    /\ batch \in Nat \ {0}
    /\ start \in From .. To + 1
    /\ block \in From .. To + 1
    /\ processed \in Seq((From .. To) \X BOOLEAN)

(* Mutant: the setting is taken as it is, as the live loop does.           *)
AtLeastOneNot(n) == n

AtLeastOne(n) == IF n > 1 THEN n ELSE 1

Init ==
    /\ GetLogsInit
    /\ replay = "starting"
    /\ \E n \in BatchSettings : batch = AtLeastOne(n)
    /\ start = From /\ block = From
    /\ processed = <<>>

(* engine.start(from_block)                                                *)
Start ==
    /\ replay = "starting"
    /\ replay' = "loop"
    /\ UNCHANGED <<getLogsVars, batch, start, block, processed>>

BatchEnd == IF start + batch - 1 < To THEN start + batch - 1 ELSE To

Fetch ==
    /\ replay = "loop" /\ start <= To
    /\ Request(start, BatchEnd)
    /\ replay' = "fetching"
    /\ UNCHANGED <<batch, start, block, processed>>

Fetching ==
    /\ replay = "fetching"
    /\ GetLogsStep
    /\ UNCHANGED replayVars

BatchFetched ==
    /\ replay = "fetching" /\ outcome = "returned"
    /\ replay' = "processing"
    /\ block' = start
    /\ UNCHANGED <<getLogsVars, batch, start, processed>>

(* What group_by_block finds for a block: a block without logs in the      *)
(* answer is processed as an empty one.                                    *)
HasLogs(b) == \E i \in DOMAIN got : got[i] = b

(* Mutant: the next batch begins with the last block of this one.          *)
AfterBatchOverlaps == asked.to

(* start = end + 1                                                         *)
AfterBatch == asked.to + 1

(* process_range: process_block for every block from start to end.         *)
ProcessBlock ==
    /\ replay = "processing"
    /\ processed' = Append(processed, <<block, HasLogs(block)>>)
    /\ block' = block + 1
    /\ IF block = asked.to
       THEN replay' = "loop" /\ start' = AfterBatch
       ELSE UNCHANGED <<replay, start>>
    /\ UNCHANGED <<getLogsVars, batch>>

Finish ==
    /\ replay = "loop" /\ start > To
    /\ replay' = "finished"
    /\ UNCHANGED <<getLogsVars, batch, start, block, processed>>

(* An exception of engine.start, of get_logs or of process_block.          *)
Die ==
    /\ \/ replay \in {"starting", "processing"}
       \/ replay = "fetching" /\ outcome \in {"failed", "overflowed"}
    /\ replay' = "died"
    /\ UNCHANGED <<getLogsVars, batch, start, block, processed>>

Ended == replay \in {"finished", "died"} /\ UNCHANGED vars

Step == Start \/ Fetch \/ Fetching \/ BatchFetched \/ ProcessBlock \/ Finish \/ Die

Next == Step \/ Ended

Spec == Init /\ [][Next]_vars

(* The coroutine runs, and the provider is not down for ever.              *)
LiveSpec == Spec /\ WF_vars(Step)

-----------------------------------------------------------------------------
(* However the provider cuts the batches, the engine is given the blocks   *)
(* of the range in order, each once and with its logs; a replay that       *)
(* finishes has given it all of them.  The window counts blocks, so that a *)
(* gap or a repetition would shift every later comparison                  *)
(* (runner.py:94-108; engine.py:102-105).                                  *)
ReplayedOnce ==
    /\ \A i \in 1 .. Len(processed) : processed[i] = <<From + i - 1, TRUE>>
    /\ replay = "finished" => Len(processed) = To - From + 1

(* Liveness: a replay ends, also with rpc.catchup_batch_blocks = 0, and    *)
(* however often its ranges are refused (runner.py:97; rpc.py:169-172).    *)
Ends == <>(replay \in {"finished", "died"})
=============================================================================
