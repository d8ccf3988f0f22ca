------------------------------- MODULE Runner -------------------------------
(***************************************************************************)
(* The live loop of the bot: runner.py's LiveRunner inside the supervisor  *)
(* of main.py's live().                                                    *)
(*                                                                         *)
(* The loop learns the head of the chain, catches up block by block or in  *)
(* batches, hands every block to the engine, saves its progress after each *)
(* one, counts the failures of the block it is stuck on and gives that     *)
(* block up after MaxFailures of them.  Anything it does not handle        *)
(* restarts it with empty memory from the saved block number.              *)
(*                                                                         *)
(* What a block contains does not matter here: process_block is one step   *)
(* that may fail (the Engine module models its inside).                    *)
(***************************************************************************)
EXTENDS Integers

CONSTANTS
    Confirmations,   \* rpc.confirmations
    MaxLag,          \* rpc.max_lag_blocks
    Batch,           \* rpc.catchup_batch_blocks
    MaxCatchup,      \* rpc.max_catchup_blocks, 0 = no limit
    MaxFailures,     \* rpc.max_block_failures
    FirstHead,       \* head of the chain when the bot is first started
    MaxHead,         \* bound: the chain stops growing here
    HeadSkew,        \* bound: how far behind the chain a reported head may be
    Crashes,         \* bound: process deaths
    DbErrors         \* bound: failing writes of the progress row

(* A batch of 0 blocks would make no progress, and a provider that is      *)
(* HeadSkew behind must still know the first block to process.             *)
ASSUME RunnerConfig ==
    /\ Confirmations \in Nat /\ MaxLag \in Nat /\ MaxCatchup \in Nat
    /\ Batch \in Nat \ {0} /\ MaxFailures \in Nat \ {0}
    /\ FirstHead \in Nat /\ MaxHead \in Nat /\ HeadSkew \in Nat
    /\ Crashes \in Nat /\ DbErrors \in Nat
    /\ FirstHead > Confirmations + HeadSkew
    /\ FirstHead <= MaxHead

VARIABLES
    chain,       \* newest block the provider can serve
    saved,       \* the last_block row of the state table, or NoBlock
    at,          \* where the coroutine is
    last,        \* self.last, NoBlock for None
    target,      \* argument of the running _catch_up, 0 outside of it
    end,         \* last block of the batch whose logs are held, 0 when none is
    failures,    \* self._failures, 0 for an absent key
    done,        \* ghost: blocks that were processed to the end, by any run
    runDone,     \* ghost: those this engine object has processed
    skipped,     \* ghost: blocks given up
    passedOver,  \* ghost: blocks left out by the choice of a start block
    blame,       \* ghost: failures each block really caused in this run (at most MaxFailures)
    crashes,     \* deaths still allowed
    dbErrors     \* database errors still allowed

ghosts == <<done, runDone, skipped, passedOver, blame>>
memory == <<last, target, end, failures>>
budgets == <<crashes, dbErrors>>
vars == <<chain, saved, at, memory, ghosts, budgets>>

NoBlock == -1
(* One block past the head: the failure of a write is charged to the block *)
(* after the one it was for.                                               *)
Blocks == 0 .. MaxHead + 1
NoCounts == [b \in Blocks |-> 0]

Places == {"down", "starting", "idle", "loop", "batch", "commit"}

TypeOK ==
    /\ chain \in FirstHead .. MaxHead
    /\ saved \in {NoBlock} \cup Blocks
    /\ at \in Places
    /\ last \in {NoBlock} \cup Blocks
    /\ target \in Blocks
    /\ end \in Blocks
    /\ failures \in [Blocks -> 0 .. MaxFailures - 1]
    /\ done \subseteq Blocks
    /\ runDone \subseteq Blocks
    /\ skipped \subseteq Blocks
    /\ passedOver \subseteq Blocks
    /\ blame \in [Blocks -> 0 .. MaxFailures]
    /\ crashes \in 0 .. Crashes
    /\ dbErrors \in 0 .. DbErrors

Init ==
    /\ chain = FirstHead
    /\ saved = NoBlock
    /\ at = "down"
    /\ last = NoBlock /\ target = 0 /\ end = 0
    /\ failures = NoCounts
    /\ done = {} /\ runDone = {} /\ skipped = {} /\ passedOver = {}
    /\ blame = NoCounts
    /\ crashes = Crashes /\ dbErrors = DbErrors

-----------------------------------------------------------------------------
(* The chain, and what the provider may answer for its head: any block of  *)
(* the last HeadSkew, for behind one address there are many nodes.         *)

Mine ==
    /\ chain < MaxHead
    /\ chain' = chain + 1
    /\ UNCHANGED <<saved, at, memory, ghosts, budgets>>

ReportedHeads == chain - HeadSkew .. chain

-----------------------------------------------------------------------------
(* Start of a run.                                                         *)

(* Mutant: an off-by-one in the resume point.                              *)
ResumeOneEarly(t) ==
    IF saved = NoBlock THEN t - 1
    ELSE IF MaxCatchup # 0 /\ t - saved > MaxCatchup THEN t - MaxCatchup
    ELSE IF saved > 0 THEN saved - 1 ELSE saved

(* Mutant: the limit applied to any lag.                                   *)
ResumeAtTheHead(t) ==
    IF saved = NoBlock \/ (MaxCatchup # 0 /\ t > saved) THEN t - 1 ELSE saved

(* _initial_last_block, for the target block t of the first head.          *)
InitialLast(t) ==
    IF saved = NoBlock THEN t - 1
    ELSE IF MaxCatchup # 0 /\ t - saved > MaxCatchup THEN t - MaxCatchup
    ELSE saved

(* run() up to engine.start: a new runner and a new engine, nothing of the *)
(* previous run but the database.                                          *)
Boot(h) ==
    /\ at = "down"
    /\ last' = InitialLast(h - Confirmations)
    /\ passedOver' = passedOver \cup {b \in Blocks : saved < b /\ b <= last'}
    /\ at' = "starting"
    /\ UNCHANGED <<chain, saved, target, end, failures, done, runDone, skipped, blame, budgets>>

(* Everything a runner and its engine keep in memory is gone.              *)
LoseMemory ==
    /\ at' = "down"
    /\ last' = NoBlock /\ target' = 0 /\ end' = 0
    /\ failures' = NoCounts
    /\ runDone' = {} /\ blame' = NoCounts

(* Mutant: the engine starts at the block after the next one.              *)
FirstBlockLate == last + 2

(* The block whose state engine.start may read: with no lag it is one that *)
(* does not exist yet.                                                     *)
FirstBlock == last + 1

(* engine.start: reads the quote tokens and the ETH/USD pool, unless the   *)
(* database has them; reads are repeated, so it may last.                  *)
Start ==
    /\ at = "starting"
    /\ at' = "idle"
    /\ UNCHANGED <<chain, saved, memory, ghosts, budgets>>

StartFails ==
    /\ at = "starting"
    /\ LoseMemory
    /\ UNCHANGED <<chain, saved, done, skipped, passedOver, budgets>>

-----------------------------------------------------------------------------
(* run()'s loop over heads, and _catch_up.                                 *)

Head(h) ==
    /\ at = "idle"
    /\ target' = h - Confirmations
    /\ at' = "loop"
    /\ UNCHANGED <<chain, saved, last, end, failures, ghosts, budgets>>

CaughtUp ==
    /\ at = "loop" /\ last >= target
    /\ at' = "idle"
    /\ target' = 0
    /\ UNCHANGED <<chain, saved, last, end, failures, ghosts, budgets>>

(* Mutant: a batch that is not cut at the target.                          *)
UncutBatchEnd ==
    IF target - last > MaxLag THEN last + Batch ELSE last + 1

(* The last block asked for: one block, or a batch when too far behind.    *)
BatchEnd ==
    IF target - last > MaxLag /\ last + Batch <= target THEN last + Batch
    ELSE IF target - last > MaxLag THEN target
    ELSE last + 1

Fetch ==
    /\ at = "loop" /\ last < target
    /\ end' = BatchEnd
    /\ at' = "batch"
    /\ UNCHANGED <<chain, saved, last, target, failures, ghosts, budgets>>

(* engine.process_block returns.                                           *)
Process ==
    /\ at = "batch"
    /\ done' = done \cup {last + 1}
    /\ runDone' = runDone \cup {last + 1}
    /\ at' = "commit"
    /\ UNCHANGED <<chain, saved, memory, skipped, passedOver, blame, budgets>>

(* The for loop over the batch, after its block b.                         *)
NextInBatch(b) ==
    \/ b < end /\ at' = "batch" /\ UNCHANGED end
    \/ b >= end /\ at' = "loop" /\ end' = 0

(* Mutant: the counter of a block that went through is kept.               *)
AdvanceKeepsCount ==
    /\ at = "commit"
    /\ last' = last + 1
    /\ saved' = last + 1
    /\ NextInBatch(last + 1)
    /\ UNCHANGED <<chain, target, failures, ghosts, budgets>>

(* Mutant: the end of the batch is saved with its first block.             *)
AdvanceSavesBatch ==
    /\ at = "commit"
    /\ last' = last + 1
    /\ failures' = [failures EXCEPT ![last + 1] = 0]
    /\ saved' = end
    /\ NextInBatch(last + 1)
    /\ UNCHANGED <<chain, target, ghosts, budgets>>

(* _advance after a processed block.                                       *)
Advance ==
    /\ at = "commit"
    /\ last' = last + 1
    /\ failures' = [failures EXCEPT ![last + 1] = 0]
    /\ saved' = last + 1
    /\ NextInBatch(last + 1)
    /\ UNCHANGED <<chain, target, ghosts, budgets>>

-----------------------------------------------------------------------------
(* The except branch of _catch_up, entered with self.last = l and the      *)
(* counters f: the failure is charged to the block after l, whatever       *)
(* failed.                                                                 *)

(* Mutant: one attempt too many.                                           *)
ExhaustedLate(l, f) == f[l + 1] >= MaxFailures

Exhausted(l, f) == f[l + 1] + 1 >= MaxFailures

(* Mutant: the failure is not counted.                                     *)
RetryUncounted(l, f) ==
    /\ ~Exhausted(l, f)
    /\ last' = l
    /\ failures' = f
    /\ at' = "loop"
    /\ UNCHANGED <<saved, skipped>>

(* Counted; the loop sleeps and tries again.                               *)
Retry(l, f) ==
    /\ ~Exhausted(l, f)
    /\ last' = l
    /\ failures' = [f EXCEPT ![l + 1] = @ + 1]
    /\ at' = "loop"
    /\ UNCHANGED <<saved, skipped>>

(* Skipped by _advance, as if it had been processed.                       *)
GiveUp(l, f) ==
    /\ Exhausted(l, f)
    /\ last' = l + 1
    /\ failures' = [f EXCEPT ![l + 1] = 0]
    /\ saved' = l + 1
    /\ skipped' = skipped \cup {l + 1}
    /\ at' = "loop"

(* The failure is handled; c is the block that really caused it.           *)
Handled(l, f, c) ==
    /\ Retry(l, f) \/ GiveUp(l, f)
    /\ blame' = [blame EXCEPT ![c] = IF @ < MaxFailures THEN @ + 1 ELSE @]
    /\ end' = 0
    /\ UNCHANGED <<target, runDone>>

(* The skip itself cannot be saved: the exception leaves the except branch *)
(* and run(), and the supervisor starts over.                              *)
Unhandled(l, f) ==
    /\ Exhausted(l, f)
    /\ dbErrors > 0
    /\ dbErrors' = dbErrors - 1
    /\ LoseMemory
    /\ UNCHANGED <<saved, skipped>>

(* get_logs fails on the range because of its block c.                     *)
FetchFails(c) ==
    /\ at = "loop" /\ last < target
    /\ c \in last + 1 .. BatchEnd
    /\ \/ Handled(last, failures, c) /\ UNCHANGED dbErrors
       \/ Unhandled(last, failures)
    /\ UNCHANGED <<chain, done, passedOver, crashes>>

(* process_block raises before it has changed the detector.                *)
ProcessFails ==
    /\ at = "batch"
    /\ \/ Handled(last, failures, last + 1) /\ UNCHANGED dbErrors
       \/ Unhandled(last, failures)
    /\ UNCHANGED <<chain, done, passedOver, crashes>>

(* Mutant: the row is written before self.last moves.                      *)
AdvanceWritesFirst ==
    /\ at = "commit"
    /\ dbErrors > 0
    /\ dbErrors' = dbErrors - 1
    /\ Handled(last, failures, last + 1)
    /\ UNCHANGED <<chain, done, passedOver, crashes>>

(* _advance after a processed block, the write failing: self.last and the  *)
(* counters have already moved when the except branch is entered.          *)
AdvanceDbError ==
    /\ at = "commit"
    /\ dbErrors > 0
    /\ dbErrors' = dbErrors - 1
    /\ Handled(last + 1, [failures EXCEPT ![last + 1] = 0], last + 1)
    /\ UNCHANGED <<chain, done, passedOver, crashes>>

(* The same with a second failing write, that of the skip.                 *)
AdvanceDbErrorTwice ==
    /\ at = "commit"
    /\ dbErrors > 1
    /\ dbErrors' = dbErrors - 2
    /\ Exhausted(last + 1, [failures EXCEPT ![last + 1] = 0])
    /\ LoseMemory
    /\ UNCHANGED <<chain, saved, done, skipped, passedOver, crashes>>

(* SIGTERM, kill or an exception nobody handles: systemd or the supervisor *)
(* starts the loop again.                                                  *)
Crash ==
    /\ at # "down"
    /\ crashes > 0
    /\ crashes' = crashes - 1
    /\ LoseMemory
    /\ UNCHANGED <<chain, saved, done, skipped, passedOver, dbErrors>>

-----------------------------------------------------------------------------
CatchUp ==
    \/ CaughtUp \/ Fetch \/ Process \/ ProcessFails
    \/ Advance \/ AdvanceDbError \/ AdvanceDbErrorTwice
    \/ \E c \in Blocks : FetchFails(c)

Next ==
    \/ Mine
    \/ \E h \in ReportedHeads : Boot(h) \/ Head(h)
    \/ Start \/ StartFails
    \/ CatchUp
    \/ Crash

Spec == Init /\ [][Next]_vars

(* The coroutine is always scheduled, and the provider does not report an  *)
(* old head for ever.  A start succeeds in the end if it is tried again and *)
(* again with a block that exists; nothing is assumed of one that reads a  *)
(* block not mined yet, nor that any more blocks are mined.                *)
Fairness ==
    /\ WF_vars(\E h \in ReportedHeads : Boot(h))
    /\ SF_vars(Start /\ FirstBlock <= chain)
    /\ SF_vars(Head(chain))
    /\ WF_vars(CatchUp)

LiveSpec == Spec /\ Fairness

-----------------------------------------------------------------------------
(* Safety.                                                                 *)

Decided == done \cup skipped \cup passedOver

(* No block is lost silently: every block up to the saved number, and up to *)
(* self.last, was processed, given up or passed over (runner.py:52-91).    *)
NoSilentLoss ==
    /\ 0 .. saved \subseteq Decided
    /\ 0 .. last \subseteq Decided

(* The engine gets each block at most once: its detector would otherwise   *)
(* hold two points for one block (runner.py:66-71, 83-86).                 *)
OncePerRun == at = "batch" => last + 1 \notin runDone

(* Only the block the loop is stuck on has a failure count: what is left   *)
(* of older failures cannot shorten the patience with a later block, and   *)
(* the dictionary does not grow (runner.py:71-73, 85).                     *)
FailuresOfNextOnly == \A b \in Blocks : failures[b] > 0 => b = last + 1

(* The bot never treats a block as decided before it has its               *)
(* confirmations, whatever heads the provider reports (runner.py:31, 50).  *)
OnlyConfirmed == Decided \subseteq 0 .. chain - Confirmations

(* A block up to the saved number is never given to an engine again, in    *)
(* this run or a later one (runner.py:32-43, 67).                          *)
CommittedNeverRedone == [][\A b \in runDone' \ runDone : b > saved]_vars

(* A start after the first never passes over any of the MaxCatchup newest  *)
(* confirmed blocks (runner.py:36-43).                                     *)
RecentNeverPassedOver ==
    [][\A b \in passedOver' \ passedOver :
          saved = NoBlock \/ (MaxCatchup > 0 /\ b <= chain - Confirmations - MaxCatchup)]_vars

(* README.md:61-62: a block is given up only when it could not be          *)
(* processed MaxFailures times in a row.                                   *)
SkipJustified == [][\A b \in skipped' \ skipped : blame'[b] >= MaxFailures]_vars

(* Liveness: every block that gets its confirmations is decided, however   *)
(* often it fails, and though a start may read a block that does not exist *)
(* yet (runner.py:45-50, 70-77).                                           *)
EveryBlockDecided ==
    \A b \in Blocks : (b <= chain - Confirmations) ~> (b \in Decided)

(* The abstract ledger.                                                    *)
Ledger == INSTANCE BlockLedger WITH
    TopBlock <- MaxHead + 1, NoCursor <- NoBlock, cursor <- saved, decided <- Decided
LedgerSpec == Ledger!Spec
=============================================================================
