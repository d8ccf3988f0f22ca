---------------------------- MODULE RunnerProofs ----------------------------
(***************************************************************************)
(* Proofs about the live loop, for every configuration, every length of    *)
(* the chain and any number of deaths and database errors.                 *)
(***************************************************************************)
EXTENDS Runner, TLAPS

(* Where the loop is and what its counters may be there.                   *)
Shape ==
    /\ at = "down" => last = NoBlock /\ failures = NoCounts /\ runDone = {}
    /\ at # "down" => last >= 0
    /\ last <= chain - Confirmations + 1
    /\ saved <= chain - Confirmations + 1
    /\ at # "down" => saved <= last
    /\ target <= chain - Confirmations
    /\ at \in {"batch", "commit"} => last < end /\ end <= target

(* What the engine of this run has been given.                             *)
Given ==
    /\ \A b \in runDone : b <= last \/ (at = "commit" /\ b = last + 1)
    /\ at = "commit" => last + 1 \in done

IInv ==
    /\ TypeOK
    /\ Shape
    /\ FailuresOfNextOnly
    /\ NoSilentLoss
    /\ Given

(* The start block is a real block, is not behind the saved one and not    *)
(* ahead of the confirmed ones (runner.py:30-43).                          *)
LEMMA StartBlock ==
    ASSUME TypeOK, saved <= chain - Confirmations + 1, NEW h \in ReportedHeads
    PROVE  LET l == InitialLast(h - Confirmations)
           IN  /\ l \in Int /\ l >= 0 /\ l >= saved
               /\ l <= chain - Confirmations + 1
               /\ h - Confirmations \in Nat
               /\ saved = NoBlock => l = h - Confirmations - 1
BY RunnerConfig DEF TypeOK, InitialLast, ReportedHeads, NoBlock, Blocks

(* The end of a batch lies between self.last and the target.               *)
LEMMA BatchBounds ==
    ASSUME TypeOK, last \in Int, last < target
    PROVE  BatchEnd \in Int /\ last < BatchEnd /\ BatchEnd <= target
BY RunnerConfig DEF TypeOK, BatchEnd, Blocks

(* The number that stands for "no batch" is a block number.                *)
LEMMA ZeroIsABlock == 0 \in Blocks
BY RunnerConfig DEF Blocks

(* The invariant holds at the start.                                      *)
LEMMA InitIInv == Init => IInv
BY RunnerConfig
   DEF Init, IInv, TypeOK, Shape, FailuresOfNextOnly, NoSilentLoss, Given, NoBlock, Blocks,
       NoCounts, Places, Decided

(* The failures a block is blamed for are counted up to MaxFailures.       *)
LEMMA BlameTyped ==
    ASSUME blame \in [Blocks -> 0 .. MaxFailures], NEW c \in Blocks,
           blame' = [blame EXCEPT ![c] = IF @ < MaxFailures THEN @ + 1 ELSE @]
    PROVE  blame' \in [Blocks -> 0 .. MaxFailures]
<1>1. (IF blame[c] < MaxFailures THEN blame[c] + 1 ELSE blame[c]) \in 0 .. MaxFailures
  BY RunnerConfig
<1>2. QED
  BY <1>1

(* A handled failure, entered with self.last = l and the counters f.       *)
LEMMA HandledKeepsIInv ==
    ASSUME IInv, NEW l \in Blocks, NEW f \in [Blocks -> 0 .. MaxFailures - 1], NEW c \in Blocks,
           l + 1 \in Blocks, saved <= l, l <= chain - Confirmations,
           \A b \in Blocks : f[b] > 0 => b = l + 1,
           0 .. l \subseteq Decided,
           \A b \in runDone : b <= l,
           Handled(l, f, c),
           dbErrors' \in 0 .. DbErrors,
           UNCHANGED <<chain, done, passedOver, crashes>>
    PROVE  IInv'
<1>1. CASE Retry(l, f)
  <2>1. failures' \in [Blocks -> 0 .. MaxFailures - 1] /\ blame' \in [Blocks -> 0 .. MaxFailures]
    <3>1. f[l + 1] + 1 \in 0 .. MaxFailures - 1
      BY <1>1, RunnerConfig DEF Retry, Exhausted
    <3>2. failures' \in [Blocks -> 0 .. MaxFailures - 1]
      BY <1>1, <3>1 DEF Retry
    <3>3. QED
      BY <3>2, BlameTyped DEF Handled, IInv, TypeOK
  <2>2. /\ chain' \in FirstHead .. MaxHead /\ saved' \in {NoBlock} \cup Blocks
        /\ at' \in Places /\ last' \in {NoBlock} \cup Blocks
        /\ target' \in Blocks /\ end' \in Blocks
        /\ done' \subseteq Blocks /\ runDone' \subseteq Blocks /\ skipped' \subseteq Blocks
        /\ passedOver' \subseteq Blocks /\ crashes' \in 0 .. Crashes
    BY <1>1, ZeroIsABlock DEF Handled, Retry, IInv, TypeOK, Places
  <2>2a. TypeOK'
    BY <2>1, <2>2 DEF TypeOK
  <2>3. Shape'
    BY <1>1, RunnerConfig DEF Handled, Retry, IInv, TypeOK, Shape, Blocks, NoBlock
  <2>4. FailuresOfNextOnly'
    BY <1>1 DEF Handled, Retry, FailuresOfNextOnly
  <2>5. NoSilentLoss' /\ Given'
    BY <1>1 DEF Handled, Retry, IInv, NoSilentLoss, Decided, Given
  <2>6. QED
    BY <2>2a, <2>3, <2>4, <2>5 DEF IInv
<1>2. CASE GiveUp(l, f)
  <2>1. failures' \in [Blocks -> 0 .. MaxFailures - 1] /\ blame' \in [Blocks -> 0 .. MaxFailures]
    <3>1. failures' \in [Blocks -> 0 .. MaxFailures - 1]
      BY <1>2, RunnerConfig DEF GiveUp
    <3>2. QED
      BY <3>1, BlameTyped DEF Handled, IInv, TypeOK
  <2>2. /\ chain' \in FirstHead .. MaxHead /\ saved' \in {NoBlock} \cup Blocks
        /\ at' \in Places /\ last' \in {NoBlock} \cup Blocks
        /\ target' \in Blocks /\ end' \in Blocks
        /\ done' \subseteq Blocks /\ runDone' \subseteq Blocks /\ skipped' \subseteq Blocks
        /\ passedOver' \subseteq Blocks /\ crashes' \in 0 .. Crashes
    BY <1>2, ZeroIsABlock DEF Handled, GiveUp, IInv, TypeOK, Places
  <2>2a. TypeOK'
    BY <2>1, <2>2 DEF TypeOK
  <2>3. Shape'
    BY <1>2, RunnerConfig DEF Handled, GiveUp, IInv, TypeOK, Shape, Blocks, NoBlock
  <2>4. FailuresOfNextOnly'
    BY <1>2 DEF Handled, GiveUp, FailuresOfNextOnly
  <2>5. NoSilentLoss'
    BY <1>2 DEF Handled, GiveUp, NoSilentLoss, Decided, Blocks
  <2>6. Given'
    BY <1>2 DEF Handled, GiveUp, Given, IInv, TypeOK, Blocks
  <2>7. QED
    BY <2>2a, <2>3, <2>4, <2>5, <2>6 DEF IInv
<1>3. QED
  BY <1>1, <1>2 DEF Handled

(* The end of a run, whatever ends it.                                     *)
LEMMA LoseMemoryKeepsIInv ==
    ASSUME IInv, LoseMemory, crashes' \in 0 .. Crashes, dbErrors' \in 0 .. DbErrors,
           UNCHANGED <<chain, saved, done, skipped, passedOver>>
    PROVE  IInv'
BY RunnerConfig
   DEF LoseMemory, IInv, TypeOK, Shape, FailuresOfNextOnly, NoSilentLoss, Given, NoBlock, Blocks,
       NoCounts, Places, Decided

(* Every step keeps it: one case for each action.                          *)
LEMMA NextIInv == IInv /\ [Next]_vars => IInv'
<1> SUFFICES ASSUME IInv, [Next]_vars PROVE IInv'
  OBVIOUS
<1>1. CASE Mine
  BY <1>1, RunnerConfig
     DEF Mine, memory, ghosts, budgets, IInv, TypeOK, Shape, FailuresOfNextOnly, NoSilentLoss, Given,
         Decided, Blocks, NoBlock, Places
<1>2. ASSUME NEW h \in ReportedHeads, Boot(h) PROVE IInv'
  <2> DEFINE l == InitialLast(h - Confirmations)
  <2>1. /\ l \in Int /\ l >= 0 /\ l >= saved /\ l <= chain - Confirmations + 1
    BY StartBlock DEF IInv, Shape
  <2>2. last' = l
    BY <1>2 DEF Boot
  <2> HIDE DEF l
  <2>3. last' \in Blocks
    BY <2>1, <2>2, RunnerConfig DEF IInv, TypeOK, Blocks
  <2>3a. TypeOK'
    BY <1>2, <2>3 DEF Boot, IInv, TypeOK, budgets, Places
  <2>3b. Shape'
    BY <1>2, <2>1, <2>2 DEF Boot, IInv, TypeOK, Shape, Blocks, NoBlock
  <2>4. NoSilentLoss'
    <3>1. saved' = saved /\ saved <= last' /\ saved \in Int
      BY <1>2, <2>1, <2>2, RunnerConfig DEF Boot, IInv, TypeOK, Blocks, NoBlock
    <3>2. ASSUME NEW b \in 0 .. last' PROVE b \in Decided'
      <4>1. CASE b <= saved
        BY <1>2, <3>1, <4>1 DEF Boot, IInv, NoSilentLoss, Decided
      <4>2. CASE saved < b
        BY <1>2, <2>3, <3>1, <4>2, RunnerConfig DEF Boot, Decided, Blocks
      <4>3. QED
        BY <3>1, <4>1, <4>2, <2>3 DEF Blocks
    <3>3. QED
      BY <3>1, <3>2, <2>3, RunnerConfig DEF NoSilentLoss, Blocks
  <2>5. FailuresOfNextOnly'
    BY <1>2, RunnerConfig DEF Boot, IInv, Shape, FailuresOfNextOnly, NoCounts
  <2>6. Given'
    BY <1>2 DEF Boot, IInv, Shape, Given
  <2>7. QED
    BY <2>3a, <2>3b, <2>4, <2>5, <2>6 DEF IInv
<1>3. ASSUME NEW h \in ReportedHeads, Head(h) PROVE IInv'
  BY <1>3, RunnerConfig, SMTT(60)
     DEF Head, ReportedHeads, ghosts, budgets, IInv, TypeOK, Shape, FailuresOfNextOnly, NoSilentLoss,
         Given, Decided, Blocks, NoBlock, Places
<1>4. CASE Start
  BY <1>4
     DEF Start, memory, ghosts, budgets, IInv, TypeOK, Shape, FailuresOfNextOnly, NoSilentLoss, Given,
         Decided, Places
<1>5. CASE StartFails
  BY <1>5, LoseMemoryKeepsIInv DEF StartFails, budgets, IInv, TypeOK
<1>6. CASE CaughtUp
  BY <1>6, RunnerConfig, SMTT(60)
     DEF CaughtUp, ghosts, budgets, IInv, TypeOK, Shape, FailuresOfNextOnly, NoSilentLoss, Given,
         Decided, Places, Blocks, NoBlock
<1>7. CASE Fetch
  <2>1. BatchEnd \in Int /\ last < BatchEnd /\ BatchEnd <= target
    BY <1>7, BatchBounds DEF Fetch, IInv, TypeOK, Blocks, NoBlock
  <2>2. QED
    BY <1>7, <2>1, RunnerConfig
       DEF Fetch, ghosts, budgets, IInv, TypeOK, Shape, FailuresOfNextOnly, NoSilentLoss, Given,
           Decided, Places, Blocks, NoBlock
<1>8. CASE Process
  BY <1>8, RunnerConfig
     DEF Process, memory, budgets, IInv, TypeOK, Shape, FailuresOfNextOnly, NoSilentLoss, Given,
         Decided, Places, Blocks, NoBlock
<1>9. CASE Advance
  <2>0. last + 1 \in Blocks /\ last + 1 <= target /\ target <= chain - Confirmations
    BY <1>9, RunnerConfig DEF Advance, IInv, TypeOK, Shape, Blocks, NoBlock
  <2>1. TypeOK'
    <3>0. 0 \in 0 .. MaxFailures - 1
      BY RunnerConfig
    <3>1. failures' \in [Blocks -> 0 .. MaxFailures - 1]
      BY <1>9, <3>0 DEF Advance, IInv, TypeOK
    <3>2. end' \in Blocks /\ at' \in Places
      BY <1>9, ZeroIsABlock DEF Advance, NextInBatch, IInv, TypeOK, Places
    <3>3. QED
      BY <1>9, <2>0, <3>1, <3>2 DEF Advance, ghosts, budgets, IInv, TypeOK
  <2>1a. Shape'
    BY <1>9, <2>0, RunnerConfig DEF Advance, NextInBatch, IInv, TypeOK, Shape, Blocks, NoBlock
  <2>2. FailuresOfNextOnly'
    BY <1>9 DEF Advance, IInv, TypeOK, Shape, FailuresOfNextOnly, Blocks, NoBlock
  <2>3. NoSilentLoss' /\ Given'
    BY <1>9 DEF Advance, NextInBatch, ghosts, IInv, TypeOK, Shape, NoSilentLoss, Given, Decided,
                Blocks, NoBlock
  <2>4. QED
    BY <2>1, <2>1a, <2>2, <2>3 DEF IInv
<1>a. ASSUME NEW c \in Blocks, last < target, at \in {"loop", "batch"},
             \/ Handled(last, failures, c) /\ UNCHANGED dbErrors
             \/ Unhandled(last, failures),
             UNCHANGED <<chain, done, passedOver, crashes>>
      PROVE  IInv'
  <2>1. /\ last \in Blocks /\ last + 1 \in Blocks /\ saved <= last
        /\ last <= chain - Confirmations
    BY <1>a, RunnerConfig DEF IInv, TypeOK, Shape, Blocks, NoBlock
  <2>2. /\ failures \in [Blocks -> 0 .. MaxFailures - 1]
        /\ \A b \in Blocks : failures[b] > 0 => b = last + 1
        /\ 0 .. last \subseteq Decided
        /\ \A b \in runDone : b <= last
        /\ crashes \in 0 .. Crashes /\ dbErrors \in 0 .. DbErrors
    BY <1>a DEF IInv, TypeOK, FailuresOfNextOnly, NoSilentLoss, Given
  <2>3. CASE Handled(last, failures, c) /\ UNCHANGED dbErrors
    BY <1>a, <2>1, <2>2, <2>3, HandledKeepsIInv
  <2>4. CASE Unhandled(last, failures)
    <3>1. dbErrors' \in 0 .. DbErrors
      BY <2>2, <2>4, RunnerConfig DEF Unhandled
    <3>2. QED
      BY <1>a, <2>2, <2>4, <3>1, LoseMemoryKeepsIInv DEF Unhandled
  <2>5. QED
    BY <1>a, <2>3, <2>4
<1>10. CASE ProcessFails
  <2>1. last + 1 \in Blocks /\ last < target
    BY <1>10, RunnerConfig DEF ProcessFails, IInv, TypeOK, Shape, Blocks, NoBlock
  <2>2. QED
    BY <1>10, <2>1, <1>a DEF ProcessFails
<1>11. ASSUME NEW c \in Blocks, FetchFails(c) PROVE IInv'
  BY <1>11, <1>a DEF FetchFails
<1>12. CASE AdvanceDbError
  <2> DEFINE f == [failures EXCEPT ![last + 1] = 0]
  <2>1. f \in [Blocks -> 0 .. MaxFailures - 1] /\ \A b \in Blocks : f[b] = 0
    BY <1>12, RunnerConfig DEF AdvanceDbError, IInv, TypeOK, Shape, FailuresOfNextOnly, Blocks, NoBlock
  <2>2. last \in Int /\ last + 1 \in Blocks /\ last + 2 \in Blocks /\ last + 1 <= chain - Confirmations
    BY <1>12, RunnerConfig DEF AdvanceDbError, IInv, TypeOK, Shape, Blocks, NoBlock
  <2>3. 0 .. last + 1 \subseteq Decided
    BY <1>12, <2>2 DEF AdvanceDbError, IInv, NoSilentLoss, Given, Decided, TypeOK, Blocks, NoBlock
  <2>4. saved <= last + 1 /\ \A b \in runDone : b <= last + 1
    BY <1>12, <2>2 DEF AdvanceDbError, IInv, Shape, Given, TypeOK, Blocks, NoBlock
  <2>5. Handled(last + 1, f, last + 1) /\ UNCHANGED <<chain, done, passedOver, crashes>>
    BY <1>12 DEF AdvanceDbError
  <2>6. dbErrors' \in 0 .. DbErrors
    BY <1>12, RunnerConfig DEF AdvanceDbError, IInv, TypeOK
  <2>7. (last + 1) + 1 \in Blocks
    <3>1. (last + 1) + 1 = last + 2
      BY <2>2
    <3>2. QED
      BY <2>2, <3>1
  <2> HIDE DEF f
  <2>8. QED
    BY <2>1, <2>2, <2>3, <2>4, <2>5, <2>6, <2>7, HandledKeepsIInv
<1>13. CASE AdvanceDbErrorTwice
  BY <1>13, LoseMemoryKeepsIInv, RunnerConfig DEF AdvanceDbErrorTwice, IInv, TypeOK
<1>14. CASE Crash
  BY <1>14, LoseMemoryKeepsIInv, RunnerConfig DEF Crash, IInv, TypeOK
<1>15. CASE UNCHANGED vars
  BY <1>15
     DEF vars, memory, ghosts, budgets, IInv, TypeOK, Shape, FailuresOfNextOnly, NoSilentLoss, Given,
         Decided
<1>16. QED
  BY <1>1, <1>2, <1>3, <1>4, <1>5, <1>6, <1>7, <1>8, <1>9, <1>10, <1>11, <1>12, <1>13, <1>14, <1>15
     DEF Next, CatchUp

(* IInv is an invariant of the loop.                                       *)
THEOREM Inductive == Spec => []IInv
BY InitIInv, NextIInv, PTL DEF Spec

(* Every variable keeps its type, whatever fails (runner.py:21-91).        *)
THEOREM TypeCorrect == Spec => []TypeOK
BY Inductive, PTL DEF IInv

(* No block up to the saved number is lost silently (runner.py:52-91).     *)
THEOREM LosesNothingSilently == Spec => []NoSilentLoss
BY Inductive, PTL DEF IInv

(* An engine gets no block twice (runner.py:66-71, 83-86).                 *)
THEOREM EngineGetsBlockOnce == Spec => []OncePerRun
<1>1. IInv => OncePerRun
  BY DEF IInv, TypeOK, Given, OncePerRun, Blocks, NoBlock
<1>2. QED
  BY <1>1, Inductive, PTL

(* Failure counts do not outlive the block they are about (runner.py:71-85). *)
THEOREM CountsOfNextOnly == Spec => []FailuresOfNextOnly
BY Inductive, PTL DEF IInv

-----------------------------------------------------------------------------
(* Action properties: committed blocks, and the abstract ledger.           *)

(* A block given to an engine lies past the saved one (runner.py:32-43, 67). *)
THEOREM CommittedStays == Spec => CommittedNeverRedone
<1>1. IInv /\ [Next]_vars => [\A b \in runDone' \ runDone : b > saved]_vars
  <2> SUFFICES ASSUME IInv, Next, NEW b \in runDone', b \notin runDone
               PROVE  b > saved
    BY DEF vars
  <2>1. CASE Process
    BY <2>1 DEF Process, IInv, TypeOK, Shape, Blocks, NoBlock
  <2>2. CASE ~Process
    <3>1. runDone' \subseteq runDone
      BY <2>2
         DEF Next, Mine, Boot, Head, Start, StartFails, CatchUp, CaughtUp, Fetch, ProcessFails, Advance,
             AdvanceDbError, AdvanceDbErrorTwice, FetchFails, Handled, Unhandled, LoseMemory, Crash, ghosts
    <3>2. QED
      BY <3>1
  <2>3. QED
    BY <2>1, <2>2
<1>2. QED
  BY <1>1, Inductive, PTL DEF Spec, CommittedNeverRedone

(* What is decided stays decided.                                          *)
LEMMA DecidedGrows ==
    ASSUME IInv, [Next]_vars
    PROVE  Decided \subseteq Decided'
BY DEF Next, Mine, Boot, Head, Start, StartFails, CatchUp, CaughtUp, Fetch, Process, ProcessFails,
       Advance, AdvanceDbError, AdvanceDbErrorTwice, FetchFails, Handled, Retry, GiveUp, Unhandled,
       LoseMemory, Crash, ghosts, vars, Decided

(* The saved number never moves back.                                      *)
LEMMA SavedGrows ==
    ASSUME IInv, [Next]_vars
    PROVE  saved' >= saved
<1>1. saved \in Int /\ last \in Int /\ (at # "down" => saved <= last)
  BY DEF IInv, TypeOK, Shape, Blocks, NoBlock
<1>2. saved' \in {saved, last + 1, last + 2} /\ (at = "down" => saved' = saved)
  BY <1>1
     DEF Next, Mine, Boot, Head, Start, StartFails, CatchUp, CaughtUp, Fetch, Process, ProcessFails,
         Advance, AdvanceDbError, AdvanceDbErrorTwice, FetchFails, Handled, Retry, GiveUp, Unhandled,
         LoseMemory, Crash, ghosts, vars
<1>3. QED
  BY <1>1, <1>2

(* The loop implements the ledger: its progress never moves back and never *)
(* past a block whose fate is open (runner.py:52-91).                      *)
THEOREM ImplementsLedger == Spec => LedgerSpec
<1>1. Init => Ledger!Init
  BY DEF Init, Ledger!Init, Decided
<1>2. IInv /\ IInv' /\ [Next]_vars => [Ledger!Progress]_<<saved, Decided>>
  <2> SUFFICES ASSUME IInv, IInv', [Next]_vars PROVE Ledger!Progress
    OBVIOUS
  <2>1. Decided \subseteq Decided' /\ saved' >= saved
    BY DecidedGrows, SavedGrows
  <2>2. Decided' \subseteq 0 .. MaxHead + 1 /\ saved' \in {NoBlock} \cup (0 .. MaxHead + 1)
    BY DEF IInv, TypeOK, Decided, Blocks
  <2>3. 0 .. saved' \subseteq Decided'
    BY DEF IInv, NoSilentLoss
  <2>4. QED
    BY <2>1, <2>2, <2>3 DEF Ledger!Progress
<1>3. QED
  BY <1>1, <1>2, Inductive, PTL DEF Spec, LedgerSpec, Ledger!Spec, Ledger!ledgerVars

-----------------------------------------------------------------------------
(* With at least two attempts a block, nothing is decided early.           *)

Confirmed ==
    /\ OnlyConfirmed
    /\ last <= chain - Confirmations

(* No step decides a block that is not confirmed.                          *)
LEMMA NextConfirmed ==
    ASSUME MaxFailures > 1, IInv, IInv', Confirmed, [Next]_vars
    PROVE  Confirmed'
<1> USE DEF Confirmed, OnlyConfirmed, Decided
<1>0. /\ last \in Int /\ chain \in Int /\ target \in Int /\ end \in Int
      /\ Confirmations \in Nat /\ MaxFailures \in Nat /\ chain - Confirmations >= 0
      /\ target <= chain - Confirmations
      /\ at \in {"batch", "commit"} => last + 1 <= target
  BY RunnerConfig DEF IInv, TypeOK, Shape, Blocks, NoBlock
<1>1. CASE Mine
  BY <1>1, <1>0 DEF Mine, memory, ghosts
<1>2. ASSUME NEW h \in ReportedHeads, Boot(h) PROVE Confirmed'
  <2> DEFINE l == InitialLast(h - Confirmations)
  <2>0. saved <= chain - Confirmations
    <3>1. saved \in {NoBlock} \cup Blocks /\ 0 .. saved \subseteq Decided
      BY DEF IInv, TypeOK, NoSilentLoss
    <3>2. CASE saved = NoBlock
      BY <3>2, <1>0 DEF NoBlock
    <3>3. CASE saved \in Blocks
      <4>1. saved \in 0 .. saved
        BY <3>3, RunnerConfig DEF Blocks
      <4>2. QED
        BY <4>1, <3>1
    <3>4. QED
      BY <3>1, <3>2, <3>3
  <2>1. l \in Int /\ l <= chain - Confirmations
    <3>1. h \in Int /\ h <= chain
      BY <1>0, RunnerConfig DEF ReportedHeads
    <3>2. QED
      BY <3>1, <2>0, <1>0, RunnerConfig DEF InitialLast, IInv, TypeOK, Blocks, NoBlock
  <2>2. last' = l /\ UNCHANGED <<chain, done, skipped>>
        /\ passedOver' = passedOver \cup {b \in Blocks : saved < b /\ b <= l}
    BY <1>2 DEF Boot
  <2> HIDE DEF l
  <2>3. {b \in Blocks : saved < b /\ b <= l} \subseteq 0 .. chain - Confirmations
    BY <2>1, <1>0, RunnerConfig DEF Blocks
  <2>4. QED
    BY <2>1, <2>2, <2>3
<1>3. ASSUME NEW h \in ReportedHeads, Head(h) PROVE Confirmed'
  BY <1>3 DEF Head, ghosts
<1>4. CASE Start \/ CaughtUp \/ Fetch \/ UNCHANGED vars
  BY <1>4 DEF Start, CaughtUp, Fetch, memory, ghosts, vars
<1>5. CASE StartFails \/ Crash \/ AdvanceDbErrorTwice
  BY <1>5, <1>0 DEF StartFails, Crash, AdvanceDbErrorTwice, LoseMemory, NoBlock
<1>6. CASE Process
  BY <1>6, <1>0 DEF Process, memory, IInv, Shape
<1>7. CASE Advance
  BY <1>7, <1>0 DEF Advance, ghosts, IInv, Shape
<1>8. ASSUME last + 1 <= target, UNCHANGED <<chain, done, passedOver>>, last >= -1,
             (\E c \in Blocks : Handled(last, failures, c)) \/ Unhandled(last, failures)
      PROVE  Confirmed'
  BY <1>8, <1>0 DEF Handled, Retry, GiveUp, Unhandled, LoseMemory, NoBlock
<1>9. CASE ProcessFails
  <2>1. last + 1 \in Blocks /\ last >= -1 /\ last + 1 <= target
    BY <1>9, RunnerConfig DEF ProcessFails, IInv, TypeOK, Shape, Blocks, NoBlock
  <2>2. QED
    BY <2>1, <1>8, <1>9 DEF ProcessFails
<1>10. ASSUME NEW c \in Blocks, FetchFails(c) PROVE Confirmed'
  <2>1. last >= -1 /\ last + 1 <= target
    BY <1>10, <1>0 DEF FetchFails, IInv, TypeOK, Blocks, NoBlock
  <2>2. QED
    BY <2>1, <1>8, <1>10 DEF FetchFails
<1>11. CASE AdvanceDbError
  <2> DEFINE f == [failures EXCEPT ![last + 1] = 0]
  <2>1. last + 2 \in Blocks /\ last + 2 # last + 1
    BY <1>11, RunnerConfig, <1>0 DEF AdvanceDbError, IInv, TypeOK, Shape, Blocks, NoBlock
  <2>2. f[last + 2] = failures[last + 2]
    BY <2>1 DEF IInv, TypeOK
  <2>3. failures[last + 2] = 0
    BY <2>1, <1>0 DEF IInv, TypeOK, FailuresOfNextOnly
  <2>4. ~Exhausted(last + 1, f)
    <3>1. f[(last + 1) + 1] = 0
      BY <2>2, <2>3, <1>0
    <3> HIDE DEF f
    <3>2. QED
      BY <3>1, <1>0 DEF Exhausted
  <2>5. Handled(last + 1, f, last + 1) /\ UNCHANGED <<chain, done, passedOver>> /\ at = "commit"
    BY <1>11 DEF AdvanceDbError
  <2> HIDE DEF f
  <2>6. QED
    BY <2>4, <2>5, <1>0 DEF Handled, Retry, GiveUp
<1>12. QED
  BY <1>1, <1>2, <1>3, <1>4, <1>5, <1>6, <1>7, <1>9, <1>10, <1>11 DEF Next, CatchUp

(* Whatever heads the provider reports, no block is decided before it has  *)
(* its confirmations (runner.py:31, 50), provided that a single failure is *)
(* not enough to give a block up.                                          *)
THEOREM DecidesConfirmedOnly ==
    ASSUME MaxFailures > 1
    PROVE  Spec => []OnlyConfirmed
<1>1. Init => Confirmed
  BY RunnerConfig DEF Init, Confirmed, OnlyConfirmed, Decided, NoBlock
<1>2. IInv /\ IInv' /\ Confirmed /\ [Next]_vars => Confirmed'
  BY NextConfirmed
<1>3. Confirmed => OnlyConfirmed
  BY DEF Confirmed
<1>4. QED
  BY <1>1, <1>2, <1>3, Inductive, PTL DEF Spec

-----------------------------------------------------------------------------
(* What is lost, and when.                                                 *)

(* After the first start, only blocks older than the catch-up limit are    *)
(* passed over (runner.py:36-43).                                          *)
THEOREM LosesOnlyOldBlocks == Spec => RecentNeverPassedOver
<1> DEFINE Recent == \A b \in passedOver' \ passedOver :
                        saved = NoBlock \/ (MaxCatchup > 0 /\ b <= chain - Confirmations - MaxCatchup)
<1>1. IInv /\ [Next]_vars => [Recent]_vars
  <2> SUFFICES ASSUME IInv, Next, NEW b \in passedOver', b \notin passedOver, saved # NoBlock
               PROVE  MaxCatchup > 0 /\ b <= chain - Confirmations - MaxCatchup
    OBVIOUS
  <2>1. ASSUME NEW h \in ReportedHeads, Boot(h)
        PROVE  MaxCatchup > 0 /\ b <= chain - Confirmations - MaxCatchup
    <3>1. last' = InitialLast(h - Confirmations) /\ saved < b /\ b <= last' /\ b \in Blocks
      BY <2>1 DEF Boot
    <3>2. h \in Int /\ h <= chain /\ chain \in Int /\ saved \in Int /\ b \in Int
      BY <3>1, RunnerConfig DEF ReportedHeads, IInv, TypeOK, Blocks, NoBlock
    <3>3. last' # saved
      BY <3>1, <3>2
    <3>4. MaxCatchup # 0 /\ last' = h - Confirmations - MaxCatchup
      BY <3>1, <3>3 DEF InitialLast
    <3>5. QED
      BY <3>1, <3>2, <3>4, RunnerConfig
  <2>2. CASE \A h \in ReportedHeads : ~Boot(h)
    BY <2>2
       DEF Next, Mine, Head, Start, StartFails, CatchUp, CaughtUp, Fetch, Process, ProcessFails,
           Advance, AdvanceDbError, AdvanceDbErrorTwice, FetchFails, Crash, ghosts
  <2>3. QED
    BY <2>1, <2>2
<1>2. QED
  BY <1>1, Inductive, PTL DEF Spec, RecentNeverPassedOver

(* Block by block, the count of the next block is at most what it really   *)
(* failed.                                                                 *)
Earned ==
    /\ \A b \in Blocks : failures[b] <= blame[b]
    /\ dbErrors = 0

(* No step counts a failure the block did not cause, nor gives it up early. *)
LEMMA NextEarned ==
    ASSUME Batch = 1, IInv, Earned, [Next]_vars
    PROVE  /\ Earned'
           /\ \A b \in skipped' \ skipped : blame'[b] >= MaxFailures
<1> DEFINE Goal == Earned' /\ \A b \in skipped' \ skipped : blame'[b] >= MaxFailures
<1>0. /\ failures \in [Blocks -> 0 .. MaxFailures - 1] /\ blame \in [Blocks -> 0 .. MaxFailures]
      /\ last \in Int /\ target \in Int /\ MaxFailures \in Nat
  BY RunnerConfig DEF IInv, TypeOK, Blocks, NoBlock
<1>1. CASE Mine \/ Start \/ CaughtUp \/ Fetch \/ Process \/ UNCHANGED vars
  BY <1>1 DEF Mine, Start, CaughtUp, Fetch, Process, vars, memory, ghosts, budgets, Earned
<1>2. CASE \E h \in ReportedHeads : Boot(h) \/ Head(h)
  BY <1>2 DEF Boot, Head, ghosts, budgets, Earned
<1>3. CASE StartFails \/ Crash
  BY <1>3 DEF StartFails, Crash, LoseMemory, NoCounts, budgets, Earned
<1>4. CASE Advance
  <2>1. \A b \in Blocks : failures'[b] <= failures[b]
    BY <1>4, <1>0 DEF Advance
  <2>2. \A b \in Blocks : failures'[b] \in 0 .. MaxFailures - 1
    BY <1>4, <1>0 DEF Advance
  <2>3. QED
    BY <1>4, <2>1, <2>2, <1>0 DEF Advance, ghosts, budgets, Earned
<1>5. CASE AdvanceDbError \/ AdvanceDbErrorTwice
  BY <1>5 DEF AdvanceDbError, AdvanceDbErrorTwice, Earned
<1>6. ASSUME last + 1 \in Blocks,
             \/ Handled(last, failures, last + 1) /\ UNCHANGED dbErrors
             \/ Unhandled(last, failures)
      PROVE  Goal
  <2> DEFINE n == last + 1
  <2>0. CASE Unhandled(last, failures)
    BY <2>0 DEF Unhandled, Earned
  <2>1. failures[n] <= blame[n] /\ failures[n] \in 0 .. MaxFailures /\ blame[n] \in 0 .. MaxFailures
    BY <1>0, <1>6 DEF Earned
  <2>2. CASE Handled(last, failures, n) /\ UNCHANGED dbErrors
    <3>1. blame'[n] = (IF blame[n] < MaxFailures THEN blame[n] + 1 ELSE blame[n])
          /\ \A b \in Blocks : b # n => blame'[b] = blame[b]
      BY <2>2, <1>0, <1>6 DEF Handled
    <3>2. CASE Retry(last, failures)
      <4>1. failures'[n] = failures[n] + 1 /\ failures[n] + 1 < MaxFailures
            /\ \A b \in Blocks : b # n => failures'[b] = failures[b]
        BY <3>2, <2>1, <1>0, <1>6 DEF Retry, Exhausted
      <4>2. \A b \in Blocks : failures'[b] <= blame'[b]
        BY <4>1, <3>1, <2>1, <1>0 DEF Earned
      <4>3. QED
        BY <4>2, <3>2, <2>2 DEF Retry, Earned
    <3>3. CASE GiveUp(last, failures)
      <4>1. failures'[n] = 0 /\ failures[n] + 1 >= MaxFailures
            /\ \A b \in Blocks : b # n => failures'[b] = failures[b]
        BY <3>3, <2>1, <1>0, <1>6 DEF GiveUp, Exhausted
      <4>2. \A b \in Blocks : failures'[b] <= blame'[b]
        BY <4>1, <3>1, <2>1, <1>0 DEF Earned
      <4>3. skipped' \ skipped \subseteq {n} /\ blame'[n] >= MaxFailures
        BY <4>1, <3>1, <2>1, <3>3, <1>0 DEF GiveUp
      <4>4. QED
        BY <4>2, <4>3, <2>2 DEF Earned
    <3>4. QED
      BY <3>2, <3>3, <2>2 DEF Handled
  <2>3. QED
    BY <1>6, <2>0, <2>2
<1>7. CASE ProcessFails
  <2>1. last + 1 \in Blocks
    BY <1>7, RunnerConfig DEF ProcessFails, IInv, TypeOK, Shape, Blocks, NoBlock
  <2>2. QED
    BY <2>1, <1>6, <1>7 DEF ProcessFails
<1>8. ASSUME NEW c \in Blocks, FetchFails(c) PROVE Goal
  <2>1. last < target /\ c \in last + 1 .. BatchEnd
    BY <1>8 DEF FetchFails
  <2>2. BatchEnd = last + 1
    BY <2>1, <1>0 DEF BatchEnd
  <2>3. c = last + 1
    BY <2>1, <2>2, <1>0
  <2>4. QED
    BY <2>3, <1>6, <1>8 DEF FetchFails
<1>9. QED
  BY <1>1, <1>2, <1>3, <1>4, <1>5, <1>7, <1>8 DEF Next, CatchUp

(* README.md:61-62: when blocks are fetched one at a time and the progress *)
(* row can always be written, a block is given up only after MaxFailures   *)
(* failures of its own (runner.py:70-77).                                  *)
THEOREM SkipsAreEarned ==
    ASSUME Batch = 1, DbErrors = 0
    PROVE  Spec => SkipJustified
<1>1. Init => Earned
  BY RunnerConfig DEF Init, Earned, NoCounts
<1>2. IInv /\ Earned /\ [Next]_vars => Earned'
  BY NextEarned
<1>3. IInv /\ Earned /\ [Next]_vars
         => [\A b \in skipped' \ skipped : blame'[b] >= MaxFailures]_vars
  BY NextEarned
<1>4. QED
  BY <1>1, <1>2, <1>3, Inductive, PTL DEF Spec, SkipJustified
-----------------------------------------------------------------------------
(* Why EveryBlockDecided holds: what is left of a run of _catch_up.  A      *)
(* block takes at most MaxFailures attempts, and an attempt three steps.   *)

CatchingUp == at \in {"loop", "batch", "commit"}

StepsOfAttempt == CASE at = "loop" -> 3 [] at = "batch" -> 2 [] at = "commit" -> 1

Attempts(t, l, f) == (t - l) * MaxFailures - f[l + 1]

Work == IF last < target THEN 3 * Attempts(target, last, failures) + StepsOfAttempt ELSE 0

(* Each step of _catch_up leaves it or leaves less of it to do, and no     *)
(* other step makes it more.                                               *)
CatchUpAdvances ==
    [][CatchingUp /\ CatchingUp' => Work' <= Work /\ (CatchUp => Work' < Work)]_vars

(* The attempts that are left at the block after l: all of the later       *)
(* blocks', and those of its own that have not been used.                  *)
LEMMA AttemptsLeft ==
    ASSUME NEW t \in Blocks, NEW l \in Nat, l < t, NEW f \in [Blocks -> 0 .. MaxFailures - 1],
           \A b \in Blocks : f[b] > 0 => b = l + 1
    PROVE  /\ Attempts(t, l, f) \in Nat \ {0}
           /\ l + 1 \in Blocks /\ f[l + 1] \in 0 .. MaxFailures - 1
           /\ l + 1 < t =>
                 /\ l + 2 \in Blocks /\ f[l + 2] = 0
                 /\ (t - (l + 1)) * MaxFailures <= Attempts(t, l, f) - 1
<1>1. /\ MaxFailures \in Nat \ {0} /\ t \in Nat /\ l + 1 \in Blocks
      /\ l + 1 < t => l + 2 \in Blocks
  BY RunnerConfig DEF Blocks
<1> DEFINE k == t - (l + 1)
           q == k * MaxFailures
<1>2. k \in Nat /\ t - l = k + 1
  BY <1>1
<1>3. q \in Nat /\ (t - l) * MaxFailures = q + MaxFailures
  BY <1>1, <1>2
<1>4. f[l + 1] \in 0 .. MaxFailures - 1
  BY <1>1
<1>5. Attempts(t, l, f) = q + MaxFailures - f[l + 1]
  BY <1>1, <1>3, <1>4 DEF Attempts
<1> HIDE DEF q
<1>6. Attempts(t, l, f) \in Nat \ {0} /\ q <= Attempts(t, l, f) - 1
  BY <1>1, <1>3, <1>4, <1>5
<1>7. ASSUME l + 1 < t PROVE f[l + 2] = 0
  <2>1. l + 2 \in Blocks /\ l + 2 # l + 1
    BY <1>1, <1>7
  <2>2. f[l + 2] \in 0 .. MaxFailures - 1 /\ ~ (f[l + 2] > 0)
    BY <2>1
  <2>3. QED
    BY <2>2, <1>1
<1>8. QED
  BY <1>1, <1>4, <1>6, <1>7 DEF q

(* The numbers of a state in which _catch_up runs.                         *)
LEMMA CatchingUpAt ==
    ASSUME IInv, CatchingUp
    PROVE  /\ last \in Nat /\ target \in Blocks /\ target \in Nat
           /\ failures \in [Blocks -> 0 .. MaxFailures - 1]
           /\ \A b \in Blocks : failures[b] > 0 => b = last + 1
           /\ at # "loop" => last < target
<1>1. at # "down"
  BY DEF CatchingUp
<1>2. last \in {NoBlock} \cup Blocks /\ last >= 0 /\ target \in Blocks
  BY <1>1 DEF IInv, TypeOK, Shape
<1>3. last \in Nat /\ target \in Nat
  BY <1>2, RunnerConfig DEF Blocks, NoBlock
<1>4. ASSUME at # "loop" PROVE last < target
  <2>1. last < end /\ end <= target /\ end \in Blocks
    BY <1>4 DEF CatchingUp, IInv, TypeOK, Shape
  <2>2. QED
    BY <1>3, <2>1, RunnerConfig DEF Blocks
<1>5. QED
  BY <1>2, <1>3, <1>4 DEF IInv, TypeOK, FailuresOfNextOnly

LEMMA CatchingUpNext ==
    ASSUME IInv', CatchingUp'
    PROVE  /\ last' \in Nat /\ target' \in Blocks /\ target' \in Nat
           /\ failures' \in [Blocks -> 0 .. MaxFailures - 1]
           /\ \A b \in Blocks : failures'[b] > 0 => b = last' + 1
<1>1. at' # "down"
  BY DEF CatchingUp
<1>2. last' \in {NoBlock} \cup Blocks /\ last' >= 0 /\ target' \in Blocks
  BY <1>1 DEF IInv, TypeOK, Shape
<1>3. last' \in Nat /\ target' \in Nat
  BY <1>2, RunnerConfig DEF Blocks, NoBlock
<1>4. QED
  BY <1>2, <1>3 DEF IInv, TypeOK, FailuresOfNextOnly

(* While there is a block to process, there is something left to do.       *)
LEMMA WorkLeft ==
    ASSUME IInv, CatchingUp
    PROVE  /\ Work \in Nat
           /\ last < target =>
                 /\ Work = 3 * Attempts(target, last, failures) + StepsOfAttempt
                 /\ StepsOfAttempt \in 1 .. 3 /\ Attempts(target, last, failures) \in Nat \ {0}
<1>1. StepsOfAttempt \in 1 .. 3
  BY DEF CatchingUp, StepsOfAttempt
<1>2. last < target => Attempts(target, last, failures) \in Nat \ {0}
  BY CatchingUpAt, AttemptsLeft
<1>3. QED
  BY <1>1, <1>2 DEF Work

LEMMA WorkLeftNext ==
    ASSUME IInv', CatchingUp'
    PROVE  Work' \in Nat
<1>1. StepsOfAttempt' \in 1 .. 3
  BY DEF CatchingUp, StepsOfAttempt
<1>2. last' < target' => Attempts(target', last', failures') \in Nat \ {0}
  BY CatchingUpNext, AttemptsLeft
<1>3. QED
  BY <1>1, <1>2 DEF Work

(* A handled failure takes an attempt, or all that its block had.          *)
LEMMA HandledAdvances ==
    ASSUME TypeOK, NEW l \in Nat, l <= target, NEW f \in [Blocks -> 0 .. MaxFailures - 1],
           \A b \in Blocks : f[b] > 0 => b = l + 1,
           NEW c \in Blocks, Handled(l, f, c)
    PROVE  Work' = 0 \/ (l < target /\ Work' <= 3 * Attempts(target, l, f))
<1>1. target' = target /\ at' = "loop" /\ target \in Nat /\ MaxFailures \in Nat \ {0}
  BY RunnerConfig DEF Handled, Retry, GiveUp, TypeOK, Blocks
<1>2. StepsOfAttempt' = 3
  BY <1>1 DEF StepsOfAttempt
<1>3. CASE ~ (last' < target)
  BY <1>1, <1>3 DEF Work
<1>4. CASE last' < target /\ Retry(l, f)
  <2>1. last' = l /\ failures' = [f EXCEPT ![l + 1] = @ + 1] /\ l < target
    BY <1>4 DEF Retry
  <2>2. Attempts(target, l, f) \in Nat /\ l + 1 \in Blocks /\ f[l + 1] \in Nat
    BY <2>1, AttemptsLeft DEF TypeOK
  <2>3. failures'[l + 1] = f[l + 1] + 1
    BY <2>1, <2>2
  <2>4. (target - l) * MaxFailures \in Int
    BY <1>1
  <2>5. Work' = 3 * ((target - l) * MaxFailures - (f[l + 1] + 1)) + 3
    BY <1>1, <1>2, <2>1, <2>3 DEF Work, Attempts
  <2> DEFINE p == (target - l) * MaxFailures
  <2>6. Work' = 3 * (p - (f[l + 1] + 1)) + 3 /\ Attempts(target, l, f) = p - f[l + 1] /\ p \in Int
    BY <2>4, <2>5 DEF Attempts
  <2> HIDE DEF p
  <2>7. QED
    BY <2>1, <2>2, <2>6
<1>5. CASE last' < target /\ GiveUp(l, f)
  <2>1. last' = l + 1 /\ failures' = [f EXCEPT ![l + 1] = 0] /\ l + 1 < target /\ l < target
    BY <1>1, <1>5 DEF GiveUp
  <2> DEFINE q == (target - (l + 1)) * MaxFailures
  <2>2. /\ Attempts(target, l, f) \in Nat /\ l + 1 \in Blocks /\ l + 2 \in Blocks /\ f[l + 2] = 0
        /\ q <= Attempts(target, l, f) - 1
    BY <2>1, AttemptsLeft DEF TypeOK
  <2>3. failures'[l + 2] = 0
    BY <2>1, <2>2
  <2>4. q \in Int
    BY <1>1
  <2>5. last' + 1 = l + 2
    BY <2>1
  <2>6. Work' = 3 * (q - 0) + 3
    BY <1>1, <1>2, <2>1, <2>3, <2>5 DEF Work, Attempts
  <2> HIDE DEF q
  <2>7. QED
    BY <2>1, <2>2, <2>4, <2>6
<1>6. QED
  BY <1>3, <1>4, <1>5 DEF Handled

(* One case for each step of _catch_up that does not leave it.             *)
LEMMA CatchUpWorks ==
    ASSUME IInv, IInv', CatchUp, CatchingUp, CatchingUp'
    PROVE  Work' < Work
<1> DEFINE A == Attempts(target, last, failures)
           S == StepsOfAttempt
<1>0. /\ last \in Nat /\ target \in Nat /\ target \in Blocks /\ MaxFailures \in Nat \ {0}
      /\ failures \in [Blocks -> 0 .. MaxFailures - 1]
      /\ \A b \in Blocks : failures[b] > 0 => b = last + 1
      /\ TypeOK
  BY CatchingUpAt, RunnerConfig DEF IInv
<1>1. last < target
  <2>1. at = "loop" => Fetch \/ \E c \in Blocks : FetchFails(c)
    BY DEF CatchUp, CaughtUp, Process, ProcessFails, Advance, AdvanceDbError, AdvanceDbErrorTwice, CatchingUp
  <2>2. QED
    BY <2>1, CatchingUpAt DEF Fetch, FetchFails
<1>2. Work = 3 * A + S /\ S \in 1 .. 3 /\ A \in Nat \ {0}
  BY <1>1, WorkLeft
<1>3. CASE Fetch \/ Process
  <2>1. UNCHANGED <<last, target, failures>> /\ S' < S
    BY <1>3 DEF Fetch, Process, memory, StepsOfAttempt
  <2>2. Work' = 3 * A + S' /\ S' \in 1 .. 3
    BY <1>1, <2>1 DEF Work, Attempts, StepsOfAttempt, CatchingUp
  <2> DEFINE S1 == S'
  <2>3. S1 < S /\ Work' = 3 * A + S1 /\ S1 \in 1 .. 3
    BY <2>1, <2>2
  <2> HIDE DEF A, S, S1
  <2>4. QED
    BY <1>2, <2>3
<1>4. ASSUME NEW c \in Blocks, Handled(last, failures, c) PROVE Work' < Work
  <2>1. Work' = 0 \/ Work' <= 3 * A
    BY <1>0, <1>1, <1>4, HandledAdvances
  <2> HIDE DEF A, S
  <2>2. Work' \in Int
    BY WorkLeftNext
  <2>3. QED
    BY <1>2, <2>1, <2>2
<1>5. CASE ProcessFails
  <2>1. last + 1 \in Blocks
    BY <1>0, <1>1, AttemptsLeft
  <2>2. ~ Unhandled(last, failures)
    BY DEF Unhandled, LoseMemory, CatchingUp
  <2>3. QED
    BY <1>4, <1>5, <2>1, <2>2 DEF ProcessFails
<1>6. ASSUME NEW c \in Blocks, FetchFails(c) PROVE Work' < Work
  <2>1. ~ Unhandled(last, failures)
    BY DEF Unhandled, LoseMemory, CatchingUp
  <2>2. QED
    BY <1>4, <1>6, <2>1 DEF FetchFails
<1>7. CASE Advance
  <2>1. last' = last + 1 /\ target' = target /\ failures' = [failures EXCEPT ![last + 1] = 0]
    BY <1>7 DEF Advance
  <2>2. S' \in 2 .. 3
    BY <1>7 DEF Advance, NextInBatch, StepsOfAttempt
  <2>3. CASE ~ (last + 1 < target)
    <3>1. Work' = 0
      BY <2>1, <2>3 DEF Work
    <3> HIDE DEF A, S
    <3>2. QED
      BY <3>1, <1>2
  <2>4. CASE last + 1 < target
    <3> DEFINE q == (target - (last + 1)) * MaxFailures
    <3>1. last + 1 \in Blocks /\ last + 2 \in Blocks /\ failures[last + 2] = 0 /\ q <= A - 1
      BY <1>0, <1>1, <2>4, AttemptsLeft
    <3>2. failures'[last + 2] = 0 /\ last' + 1 = last + 2
      BY <1>0, <2>1, <3>1
    <3> DEFINE S1 == S'
    <3>3. Work' = 3 * (q - 0) + S1 /\ q \in Int /\ S1 \in 2 .. 3
      BY <1>0, <2>1, <2>2, <2>4, <3>2 DEF Work, Attempts
    <3> HIDE DEF q, A, S, S1
    <3>4. QED
      BY <1>2, <3>1, <3>3
  <2>5. QED
    BY <2>3, <2>4
<1>8. CASE AdvanceDbError
  <2> DEFINE f == [failures EXCEPT ![last + 1] = 0]
  <2>1. last + 1 \in Blocks
    BY <1>0, <1>1, AttemptsLeft
  <2>2. Handled(last + 1, f, last + 1)
    BY <1>8 DEF AdvanceDbError
  <2>3. f \in [Blocks -> 0 .. MaxFailures - 1] /\ \A b \in Blocks : f[b] = 0
    BY <1>0, <2>1
  <2>4. last + 1 \in Nat /\ last + 1 <= target
    BY <1>0, <1>1
  <2> HIDE DEF f
  <2>5. Work' = 0 \/ (last + 1 < target /\ Work' <= 3 * Attempts(target, last + 1, f))
    BY <1>0, <2>1, <2>2, <2>3, <2>4, HandledAdvances
  <2>6. CASE Work' = 0
    <3> HIDE DEF A, S
    <3>1. QED
      BY <2>6, <1>2
  <2>7. CASE last + 1 < target /\ Work' <= 3 * Attempts(target, last + 1, f)
    <3> DEFINE q == (target - (last + 1)) * MaxFailures
    <3>1. last + 2 \in Blocks /\ q <= A - 1
      BY <1>0, <1>1, <2>7, AttemptsLeft
    <3>2. (last + 1) + 1 = last + 2 /\ q \in Int
      BY <1>0
    <3>3. Attempts(target, last + 1, f) = q
      BY <2>3, <3>1, <3>2 DEF Attempts
    <3> HIDE DEF q, A, S
    <3>4. Work' \in Int
      BY WorkLeftNext
    <3>5. QED
      BY <1>2, <2>7, <3>1, <3>2, <3>3, <3>4
  <2>8. QED
    BY <2>5, <2>6, <2>7
<1>9. ~ (CaughtUp \/ AdvanceDbErrorTwice)
  BY DEF CaughtUp, AdvanceDbErrorTwice, LoseMemory, CatchingUp
<1>10. QED
  BY <1>3, <1>5, <1>6, <1>7, <1>8, <1>9 DEF CatchUp

(* A run of _catch_up cannot go on for ever, however often fetching,       *)
(* processing and saving fail: n blocks take less than 3 n MaxFailures + 3 *)
(* steps (runner.py:52-91).                                                *)
THEOREM CatchUpEnds == Spec => [](CatchingUp => Work \in Nat) /\ CatchUpAdvances
<1>1. IInv => (CatchingUp => Work \in Nat)
  BY WorkLeft
<1>2. ASSUME IInv, IInv', [Next]_vars, CatchingUp, CatchingUp'
      PROVE  Work' <= Work /\ (CatchUp => Work' < Work)
  <2>1. CASE CatchUp
    <3>1. Work \in Nat /\ Work' \in Nat /\ Work' < Work
      BY <1>2, <2>1, CatchUpWorks, WorkLeft, WorkLeftNext
    <3>2. QED
      BY <3>1
  <2>2. CASE ~CatchUp
    <3>1. UNCHANGED <<at, last, target, failures>>
      BY <1>2, <2>2
         DEF Next, Mine, Boot, Head, Start, StartFails, Crash, LoseMemory, CatchingUp, memory, vars
    <3>2. Work' = Work
      BY <3>1 DEF Work, Attempts, StepsOfAttempt
    <3>3. Work \in Nat
      BY <1>2, WorkLeft
    <3>4. QED
      BY <2>2, <3>2, <3>3
  <2>3. QED
    BY <2>1, <2>2
<1>3. IInv /\ IInv' /\ [Next]_vars
        => [CatchingUp /\ CatchingUp' => Work' <= Work /\ (CatchUp => Work' < Work)]_vars
  BY <1>2
<1>4. QED
  BY <1>1, <1>3, Inductive, PTL DEF Spec, CatchUpAdvances
=============================================================================
