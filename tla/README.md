# Verification of the dump bot

TLA+ models of the Ethereum dump bot in this repository, the TLC runs that check
them, and TLAPS proofs about all of them.  The bot reads every block of the
chain, follows Uniswap V2/V3 pools, raises an alert when a token falls by
`drop_pct` within `window_blocks`, and sends the alert to Telegram.  Source
paths below are relative to `src/`.

* [The system](#the-system)
* [Modules](#modules)
* [Runs](#runs)
* [Proofs](#proofs)
* [Where code and documentation differ](#where-code-and-documentation-differ)
* [What is not modelled](#what-is-not-modelled)
* [Plan](#plan)

## The system

One asyncio process.  `main.py` `live()` is a supervisor: it makes an `Engine`
and a `LiveRunner`, runs them, and after any exception waits and makes new ones.
What survives is the SQLite database, the queue of the notifier (as long as the
process lives) and nothing else.

| Component | State it keeps | Operations | What makes it correct |
|---|---|---|---|
| Live runner, supervisor (`runner.py`, `main.py`) | `last`, `_failures`; the `last_block` row | choose a start block, catch up one by one or in batches, save progress, count failures, give a block up, restart | no block is lost silently or processed twice by an engine; the saved number never runs ahead; only confirmed blocks; every block is decided in the end |
| Engine (`engine.py`) | detector states, ETH price, `refreshed_at`, `_last_gc`, `_ts_anchor` | `start`, `process_block` | the detector sees exactly the states at the ends of blocks; no false and no missed alert |
| Detector (`detector/`) | per pool: two series, burns, swaps, time of last alert | record, prune, `is_candidate`, `evaluate`, `gc` | window, cooldown and rug-pull rules, also across unloading |
| ETH price, V3 balances (`pricing/`) | `eth_usd`; `quote_amount`, `refreshed_at` | bootstrap, `on_event`; `due`, `refresh`, `forget` | the liquidity an alert is judged by is current |
| Pool cache (`pools/cache.py`) | `pools`, `tokens` and the tables of those names | load, `resolve`, `ensure_tokens` | exactly the genuine pools of the configuration are watched, with their metadata |
| Multicall (`chain/multicall.py`) | none | `call`, `call_single` | results by position, bad calls isolated cheaply |
| RPC client (`chain/rpc.py`) | none of importance | `retry_async`, `get_logs`, ... | complete, ordered logs; errors reach the caller that can handle them, the others are outlasted |
| Block sources (`chain/block_source.py`) | last head seen, when; the WebSocket's failures in a row | `heads` of either source | heads keep coming after any silence; few requests; a delay never stays; a live connection is kept |
| Replay (`runner.py`, `main.py`) | place in the range | `run_replay` | every block once, in order, with its logs; it ends |
| Notifier (`notify/notifiers.py`) | queue, worker task | `send`, worker, `send_text`, `close` | order; nothing lost silently; the engine never waits; `close` ends |
| Storage (`storage/db.py`) | the database | one transaction per write | |
| Formatting, masking, configuration, decoders | none | pure functions | |

How they interact: the runner calls the source for heads, the RPC client for
logs and the engine for each block; the engine calls the pool cache (which calls
multicall, which calls the RPC client), the trackers, the detector, and the
notifier's `send`, which only puts the alert into a queue that the worker task
empties.  The only real concurrency inside the process is main coroutine /
worker; around it are the chain, a provider made of many nodes, Telegram, and
whoever stops the process.  What is hard is therefore failure in the middle of
things: each `await` and each database write may fail, and a restart may come
between any two of them.  `PROJECT.json` lists these hazards at their lines.

## Modules

### Runner, BlockLedger

`Runner` is `LiveRunner` and the supervisor.  `at` says where the coroutine is:

| `at` | code |
|---|---|
| `down` | no runner; `Boot` is `run()` up to `engine.start` |
| `starting` | in `engine.start` |
| `idle` | waits for a head (`Head` starts `_catch_up`) |
| `loop` | top of the while loop (`Fetch` is `get_logs`, `CaughtUp` the exit) |
| `batch` | before `process_block` of block `last + 1` |
| `commit` | after it, before `_advance` |

The except branch is `Retry` (count, sleep) or `GiveUp` (skip by `_advance`),
used by `FetchFails`, `ProcessFails` and `AdvanceDbError`, which differ in what
`self.last` and the counters are when the branch is entered: `_advance` moves
both *before* its write, so a failing write is charged to the next block.
`Unhandled` and `AdvanceDbErrorTwice` are a write that fails in the except branch
itself; `Crash` is a signal or an exception nobody handles.  `done`, `runDone`,
`skipped`, `passedOver` and `blame` are ghosts: they record what happened to
each block and never guard an action.

`BlockLedger` is the promise without the mechanism: a cursor and a set of decided
blocks, the cursor never moves back and never past an undecided block.  `Runner`
implements it with `cursor <- saved` and `decided <- done ∪ skipped ∪ passedOver`
(property `LedgerSpec`).

### BlockSeries, Detector, Engine

`BlockSeries` and `Detector` hold the detector as pure operators on the record of a
pool (`Record...`, `Pruned`, the rules) and on the function of all of them (`Put`,
`StateOf`, `Gc`); none is recursive.  `Engine` is `process_block` cut at its awaits: `Begin` (events of
the block), `Bootstrap` (ETH price), `Prime` (state before the block of pools the
detector does not know), `Apply` (events, state at the end of the block),
`Refresh` (V3 balances), `Dismiss`/`Evaluate` per touched pool (with the reading
of the block's time), `Finish` (unloading).  `SkipBlock` is the runner giving a
block up, `Restart` the supervisor's new engine, wherever the old one was.

The chain chooses operations for each pool: swaps, burns, pokes (V3 burns of
amount 0) and silent changes of a V3 balance.  A pool starts with a state or does
not exist yet.  Its true price, liquidity and burns at the ends of the last
blocks are kept beside the engine, and the properties compare the two.  Prices
and liquidities are small numbers; percentages are compared by
cross-multiplication.  Time counts slots of 12 seconds.

A failure of a kind may happen once in a behaviour (`happened`), `Faults` in all;
which properties hold under which failures is part of their statement
(`Without`).

### Notifier

`BackgroundNotifier`, its worker and `TelegramNotifier.send_text`.  `unfinished`
is the counter behind `queue.join()`.  Telegram may accept a message whose answer
is lost, which the client sees as an exception.  `phase` is where `live()` is:
`Close` starts the draining, `Joined` and `DrainTimeout` end it, `Kill` is a death
without it.

### Retry, GetLogs, Replay

`Retry` is `retry_async` with the arguments each method of `RpcClient` passes, and
`backoff_delay` as far as its numbers may overflow.  `GetLogs` runs it for a range
of blocks; the recursion of `get_logs` is a stack of ranges (`todo`).  It is a
component: `Request` is the call, `GetLogsStep` whatever happens until `outcome`
says how it ended.  `Replay` is `run_replay`, its caller: `Fetch` requests a
batch, `ProcessBlock` is one turn of `process_range`'s loop, `Die` an exception
out of any of its calls, which `replay()` in `main.py` does not catch.  The batch
setting may be 0 there, for the code takes `max(1, ...)` of it.

### Multicall, PoolCache, Resolve

`Multicall` is the halving of chunks, a stack too, and the fallback of
`pools/cache.py` that asks failed calls again.  A contract behaves well, reverts
or eats the gas; an aggregate with an eater reverts or fails the calls after it.

`PoolCache` is memory and tables of pools and tokens.  `resolve` is three steps
(`Ask`, `Metadata`, `Decide`), the last two each with a commit of their own that
may fail after memory was changed.  `Load` starts a run with any of the
configurations.  What contracts say is given by constants; `Findings` is what
`resolve` may take it for, which for an address asked together with an eater of
gas is not always the truth (`beside` remembers those addresses).

`Resolve` joins the two: `Ask` is spelled out as the four calls of each address
through `Multicall` (`Begin`, `Reading`, `Finish`), sorted, in one list, told apart
by position.  It implements `PoolCache` (property `CacheSpec`; the variables of
that module are its own, so that the refinement mapping is the identity and the
steps of a read are stutters).  So the abstract module says what `resolve`
promises, and `Resolve` that halving, sorting and the fallback keep it.

### BlockSources

Both sources of `chain/block_source.py` and the chain, second by second: `Tick`
lets a second pass wherever the coroutine may be suspended, and a slot end with a
block or without.  The consumer's work on a head happens at the `yield`
(`at = "working"`).  What the code counts in numbers of blocks the module counts
backwards from the newest: `behind` is how many blocks newer than the last head
there are.  A connection is `open`, `silent` (dead, but nobody has noticed) or
`broken`.  A fault is a lagging node, a request that fails, a lost notification,
a message that is no head, a connection that goes bad or cannot be made, or a
crash of the consumer, after which the supervisor makes a new source.  The ghosts
`age`, `spare` and `disturbed` are for the properties only.

### MC modules

`MC<Module>` extends its module; `MCPoolCache` defines the contracts and the
configurations, `MCResolve` also how each of their functions behaves; `MCRetry`
makes a specification of one call.

Definitions under a comment "Mutant:" are wrong variants of the definition that
follows them (an off-by-one, a dropped guard, a missing reset); none is used by a
specification.  `PROJECT.json` pairs each property of a passing run with a variant
under which TLC finds it violated, so that no property holds for want of a case.

## Runs

`tlc -config X.cfg M`; `PROJECT.json` lists the pairs.  Deadlock is checked in
all of them; stuttering at the end of an instance is an action of its own
(`Wait`, `Stopped`, `Ended`, `NothingToAsk`).

| Run | Properties | Instance and why it is enough |
|---|---|---|
| `MCRunner_impatient` | `NoSilentLoss` `CommittedNeverRedone` `RecentNeverPassedOver` `LedgerSpec` | heads 3–6, confirmations 1, heads up to 1 behind, batches of 3 at a lag above 1, limit 3, one failure is enough to skip, 1 death, 2 failing writes: batches cut by the target, a write failing twice, skips in a batch, a restart far behind. 214 k states |
| `MCRunner_live` | `TypeOK` `OncePerRun` `FailuresOfNextOnly` `OnlyConfirmed` `EveryBlockDecided` | heads 2–4, no confirmations (the default, so that a start may ask for a block not mined yet), heads up to 1 behind, batches of 3, limit 2 at a start, two failures to skip, 1 death, 1 failing write; fair: a write failing in a batch and in the except branch, skips in a batch. Other confirmations are in `MCRunner_impatient` and in the theorem `DecidesConfirmedOnly`. 132 k states |
| `MCEngine_v2` | `TypeOK` `NoMissedDump` `RugpullExact` `CooldownKept` `WindowExact` | one V2 pool quoted in ETH, blocks 5–8, every sequence of ≤ 2 operations in a block, window 1, unloading at every block after 1 quiet one, cooldown 4; a skipped block or a restart. Two prices and two liquidities on either side of the thresholds; the window is left and entered again several times. 906 k states |
| `MCEngine_v3` | `NoFalseAlert` `LiquidityFresh` `NoMissedV3Dump` | one V3 pool quoted in ETH, window 2, balances due every 2 blocks, unloading every 2, cooldown 2; two of five kinds of failures: the price of ETH is unknown when a balance is read, or a pool is unloaded and back before its next read is due. 3.2 M states |
| `MCNotifier_alerts` | `TypeOK` `DrainedIsSettled` `InOrder` `EveryAlertSettled` `CloseReturns` | queue of 2, 3 attempts, 4 alerts: the queue overflows while one is sent. 33 k states |
| `MCReplay_ranges` | `TypeOK` `ResultComplete` `RefusesOneBlock` `ReplayedOnce` `Ends` | blocks 3–9, batches of 1 (setting 0), 4 and 7, so that the last one is cut and halves are of unequal size; 3 attempts, 6 transient failures, a float base whose pause overflows at the fifth attempt; fair. 13 k states |
| `MCResolve_pools` | `TypeOK` `Aligned` `RequiredRight` `StarvedOnlyBehindEater` `OneBadCallIsCheap` `WatchedRightly` `MetadataKnown` `CacheSpec` | 4 contracts (V3 pool, V2 pool with an unreadable token, pool of another factory, eater of gas that claims the factory and comes second), 3 configurations, 3 failures or restarts; one or two unknown addresses at a time, eight calls in chunks of 6 and 2, one undecodable answer per read: the eater shares a chunk with some of the next address's calls and not with others. 677 k states |
| `MCBlockSources_heads` | `TypeOK` `FewRequests` `CatchesUp` `HealthyKept` `HeadsKeepComing` | the default settings in seconds (interval 2, quiet pause 10, idle time-out 60, backoff 1–60), slots of 12 s of which one in two may be missed, work on a head of up to 14 s, so longer than the pause and than a slot; 3 faults; fair. Distances beyond 2 blocks are not told apart, the consumer leaves at most 2 notifications waiting, and the base of the pause is a float, whose pause overflows at the second failure. 557 k states |
| `MCRunner_batchCharged` `MCEngine_restart` `MCRetry_endless` `MCPoolCache_broken` | one each | violated: see [below](#where-code-and-documentation-differ) |

What the less obvious properties say:

* `OncePerRun`, `CommittedNeverRedone`: a block whose progress write was lost
  with the process is processed again by a *new* engine (the comment at
  `runner.py:67`, "без повторов", holds up to that), but never twice by one, and
  never once it is committed.
* `OnlyConfirmed` needs `MaxFailures > 1`: with 1, a failing progress write gives
  up the block after the one it was for, which may not have its confirmations.
  The default is 10.
* `WindowExact`: maximum and current price of the pruned window equal those of
  the true prices at the ends of the window's blocks and at its start, as far
  back as this engine can know: to the block before its first one.
* `NoMissedDump`: the abstract promise of the detector, stated of the chain alone.
* `NoMissedV3Dump`: the same of V3 pools that are worth enough at the end of the
  block, whatever was known of their liquidity before.  `refreshed_at` may say that
  a balance need not be read though nothing of it is recorded: the price of the
  quote token was unknown at the read (`liquidity.py:56-58`), or the pool was
  unloaded since (`engine.py:163-170`).  A suspected dump is read all the same.
* `CooldownKept`: holds through the unloading of quiet pools, whose rule counts
  blocks while the cooldown runs on time stamps; the gap of slots without a block
  only makes it safer.  For V3 pools it needs that unloading does not come too soon
  (`KeepsCooldown`; [below](#where-code-and-documentation-differ)).
* `KeepsWindow`: a pool must not be unloaded while something of it may still be in
  the window.  What is in force before a block is read again for an unloaded pool,
  but not the maximum of the blocks before that.  `StateGc + 2 >= Window` is sharp:
  with a window of 4 and unloading after 1 quiet block TLC finds `WindowExact`
  violated.  By default unloading takes a thousand windows.
* `StarvedOnlyBehindEater`, `WatchedRightly`: what is not asked again may be
  misjudged, but only behind an eater of the same chunk; every genuine pool that
  never shared a read with one is watched.
* `OneBadCallIsCheap`: the comment at `multicall.py:82-84`, for one eater and no
  undecodable answer: at most 2·log2 of the chunk size more requests.
* `CacheSpec`: `Resolve` implements `PoolCache`.
* `FewRequests`: a budget of requests for each head: with the default settings the two
  of the docstring when the block is on time, and the requests of one slot more for
  each slot missed.
* `CatchesUp`: how old a polled head is when it is given never exceeds the bound
  that its predecessor left: the interval, or, if that one was late or took long,
  a slot less than then.  This is what "без потери скорости"
  (`block_source.py:28-34`) amounts to.
* `HealthyKept`: an open connection only ends by a fault, however slow the
  consumer is; `HeadsKeepComing`: infinitely many newer heads, whatever went bad.
* `ReplayedOnce`: batches and halves meet without gap or overlap.
* `RefusesOneBlock`: with one limit for all errors together, a transient failure
  never makes `get_logs` give up a range.

**Fairness.** `Runner!LiveSpec`: the coroutine is scheduled (`WF` on the steps of
`_catch_up` and on booting); `engine.start` succeeds if it is tried again and again
with a block that has been mined, and the provider does not report only old heads for
ever (`SF`).  Nothing is assumed of a start at a block that does not exist yet, nor that
there will be another block: that a start asks for a block it can have is up to the
code (`FirstBlock`).  Fetching and
processing may fail *every* time: `EveryBlockDecided` rests on the counting of
failures, not on luck.  `Notifier!LiveSpec` only assumes that `wait_for` returns.
That the worker makes progress is a premise of `EveryAlertSettled` alone: each
post has a time-out, but nothing bounds the pause Telegram may ask for, and
`CloseReturns` holds without it.  `Replay!LiveSpec`: the coroutine runs and the provider's
transient failures end (`MaxTransient`).  `BlockSources!Spec`: what is due is run
and time goes on (`WF` on `Run`); faults are finite in number and never forced.
No fairness is asked of the chain beyond time: at most `MaxMissed` slots in a row
are empty.

## Proofs

`RunnerProofs`, `DetectorProofs`, `EngineProofs`, `NotifierProofs`, `ReplayProofs`,
`MulticallProofs`, `ResolveProofs` (which proves about `PoolCache` too) and
`BlockSourcesProofs`, for every value of the constants that satisfies the assumption
of the module.  In particular the bounds (`MaxHead`, `Crashes`, `MaxBlock`, `MaxOps`,
`Faults`, `MaxAlerts`, `MaxTransient`, ...) are arbitrary, and so are pools and prices,
window, cooldown and thresholds, ranges, batch and chunk sizes, contracts and
configurations, intervals and pauses.  Every invariant and every action property of a
passing run is a theorem; liveness is not (see the end of this section).

**Runner.** `RunnerConfig` assumes a batch of at least one block, at least one
failure to skip, and a first head above the confirmations.  The invariant `IInv`
adds to the types:

* `Shape`: `saved <= last` while a run lives, `last` and `saved` at most one block
  past the confirmed head (a failing write again), `target` confirmed, and within
  a batch `last < end <= target`.  Without it nothing bounds `_advance`.
* `FailuresOfNextOnly`: needed because a counter left over from an earlier block
  would be read when `last` reaches it.
* `NoSilentLoss`, also for `last`: the saved number only ever becomes `last`.
* `Given`: what this engine was given lies at or below `last`, or is the block to
  be committed.  It makes `OncePerRun` and `CommittedNeverRedone` follow.

`HandledKeepsIInv` treats the except branch once for all its callers.  From `IInv`
follow `TypeCorrect`, `LosesNothingSilently`, `EngineGetsBlockOnce`,
`CountsOfNextOnly`, `CommittedStays`, `LosesOnlyOldBlocks` and `ImplementsLedger`
(decided blocks stay decided, the saved number never falls, and never passes an
undecided block).  `DecidesConfirmedOnly` has a second invariant, `Confirmed`, and
needs `MaxFailures > 1`.  `SkipsAreEarned` states where the divergence about
skipped blocks ends: with batches of one block and writes that do not fail, a
block is only given up after `MaxFailures` failures of its own (invariant
`Earned`: the count kept never exceeds the failures caused).

`CatchUpEnds` is the part of `EveryBlockDecided` that needs no fairness.  `Work` counts
what `_catch_up` may still do: `MaxFailures` tries of three steps for each block up to
`target`, less the failures the next block has had (`Attempts`) and the steps already
made of the attempt that runs (`StepsOfAttempt`).  Every step that stays in `_catch_up`
lowers it, successful or not, and nothing else raises it: `n` blocks take fewer than
`3 * n * MaxFailures + 3` steps though everything fails each time.  What makes it hard
is that `_advance` moves `last` before its write, so that a failing write starts the
counting for the *next* block; `FailuresOfNextOnly` bounds what it finds there.

**Notifier.** The invariant says where every alert is (`Placed`: settled, held or
queued), that `join()`'s counter is right (`Counted`), and how queue, worker and
chat are ordered (`Sorted`); `InOrder` alone is not inductive, for it says nothing
of alerts that are still on their way.  From it follow `TypeCorrect`,
`DrainLosesNothing` and `AlertsInOrder`, lost answers and retries included.
`AlertsAreNotPutOff` is the safety core of `EveryAlertSettled`: `WorkBefore(a)`, the
steps of the worker that may come before alert `a` is settled, is at most
`2 * Attempts * (MaxQueue + 1)`; each step of the worker lowers it and no other step,
no later alert in particular, raises it.  It stands on `Sorted`: an alert has one
place in the queue, and that place only moves up.

**Replay.** The invariant says what the stack of ranges is (`Running`): `todo`
`Covers` what is left of the range asked for, each range beginning right after the
one before it, and `got` is the blocks before that.  `CoversTail` and `CoversHalves`
show that fetching the first range, or cutting it, keeps this; when nothing is left
`got` is the whole range (`LogsComplete`).  `Request1` ties a request that failed to
its attempts, so that only a single block is ever refused (`OnlyOneBlockRefused`).
`Progress` repeats the argument one level up: `processed` is the blocks from `From`
to just before `start`, or `block` (`ReplayExact`).

`ReplayEnds` is the safety core of `Ends`.  `Left` is six natural numbers: transient
failures still to come, batches, where in the loop, blocks of the range that runs, the
width of the next request, and its tries; every step lowers them lexicographically
(a cut leaves the blocks and halves the width, a retry leaves the width and uses a
try).  `CallsEndSo` says how a call of `retry_async` alone may end, and `TriedForEver`
where the divergence about endless retries ends: with an integer base of the pause
`NeverGivesUp` holds.

**Multicall, PoolCache, Resolve.** `ReadInv` (`MulticallProofs`) has the same form:
the chunks `Left` follow the results, each inside one of the chunks that `call`
made, and each result so far is `Justified`, its own contract's answer or a failure
behind an eater of *that* chunk.  `CacheInv` (`ResolveProofs`) says of every row,
found, in memory or in the table, that it is right for its address whatever
configuration it was written under (`RowRight`): the status may be out of date, the
factory and the pair are not, and a genuine pool is called fake only in `beside`.  In
memory it is classified under this run's configuration besides (`Under`), and what is
`Fresh` is about to be.  An address that only the table knows was passed over for its
factory, so that its row is not a misjudged one and asking again may forget what it
was asked beside.  `MetadataKnown` is carried along: memory learns the tokens of a
pool before the pool, so a commit that fails in between does no harm.  `ResolveInv`
joins the two: the calls of a read are those of `order`, so that `FoundAt` reads the
answers of its own address, and `FoundOut` is one of `Findings` (`FinishIsAsk`).
`WatchedRightly` and `MetadataKnown` then hold in `Resolve` by the refinement
(`WatchesRightly`, `KnowsMetadata`), without another induction.

`OneBadCallIsCheap` counts requests (`BadCallIsCheap`), by the invariant `CostInv`.  Its
part `Dearest(e)`: the requests made, the chunks left, and twice the halvings that the
chunk with the one eater may still need, stay within the bound.  It takes that
`Log2Up` falls by one when a chunk is halved, which is a fact about a recursive function
and so needs an induction; it is done by taking the least element of the set of
counter-examples (`Least`, `Induction`).  The other part, `Twofold`, gives `ReadsEnd`:
whatever its contracts do, the chunks of a read of `n` calls in `p` chunks take at most
`2n - p` requests.

`BrokenAreKnown` and `BrokenAreIgnored` say where the divergence about broken tokens
ends.  Under one configuration, and while each commit of metadata succeeds
(`TokensSaved`), memory and tables call broken what is (`BrokenInv`), but for addresses
asked beside an eater.  Both hypotheses are needed; TLC has a counterexample without
either of them.

**Detector, Engine.** `DetectorProofs` has the lemmas on series and pool states: what
adding and pruning do (`AddIs`, `PruneIs`), and how a series stands to a history.  It
`Follows` the history when each point is in force until the next, and the carry until
the first; it is `Complete` when nothing else was in force before.  Then pruning
leaves exactly the values of the window (`ValuesSound`, `ValuesComplete`).

`EngineProofs` builds on the invariant `Sound`: types, what the steps of
`process_block` know of the chain (`Grounded`), that the ETH price is known after
`Bootstrap` (`EthInv`), that every series follows the chain up to the last block told
(`Follow`), and that touched pools are known (`Known`).  The price series of every
pool is covered, and the liquidity of V2 pools, the same induction for both (`Kinds`).
On it stand, each with what it needs besides:

* `WindowIsExact`: `Exact`, that the series are complete too.  The case that makes it
  hard is unloading, after which a series starts anew: `Quiet` says that a pool has
  kept its price since its last block, so that what was forgotten was the same price,
  or is out of the window.  This is where `KeepsWindow` is needed.
* `AlertsAreTrue` (`NoFalseAlert`): only `Sound`; it needs no read to succeed.
* `LiquidityIsFresh`: `Fresh`, a pool is judged by the liquidity of the block or by
  none: none while the price of its quote token is unknown, for V3 that of the read
  which a suspected dump causes.
* `CooldownIsKept`: `Memory`, an alert is remembered in the state of its pool
  (`Held`) or its cooldown is over (`Over`).  Unloading goes by the last block, so
  the distance of that block from the alert has to be bounded (`Slack`): a fall in
  the window needs a price recorded in it (`FallIsRecent`, from `Shaped`).
* `DumpsAreReported` (`NoMissedDump`): `Exact`, and that a pool in its cooldown has
  an alert to show for it (`Told`).  `V3DumpsAreReported` (`NoMissedV3Dump`) adds
  `Weighed`: the balance of a V3 pool that is suspected was read in this block, and
  what was read is in its window if the price of the quote token is known.
* `RugpullIsExact`: `Exact`, and `Burns`: the withdrawals kept are those of the
  window and of the run.

`EngineConfig` assumes a first block above `StateGc` and `GcEvery`, as on the chain.

**BlockSources.** The invariant has a part for each property.  `Budget` (`PollsSparingly`):
while no block is due the requests still allowed are one for each `Interval` from the
end of the pause to the end of the slot, and one for the block; the lemmas on `Ceil`
say that one interval needs one request less.  `Lateness` (`PauseCostsNothing`): how
late the next head can be, by the pause and by the work, never exceeds the bound left by
the one before.  `Heard` (`HealthyNeverDropped`): an open connection has been silent no
longer than the chain has been without a block.  This theorem has a hypothesis on the
settings, `IdleTimeout >= BlockTime * (MaxMissed + 1)`, by which the time-out outlasts
the longest gap of the chain.  It is sharp; with the default of 60 seconds four slots in
a row may be missed.

`PolledHeadsCome` is the safety core of `HeadsKeepComing` for the polling source:
`ToHead`, the seconds until there is a newer head and the source has asked for it, is at
most `MaxWork + Quiet`, or the longest gap of the chain and an interval, or a sleep of the
supervisor; every second lowers it, and between two seconds there are at most three
steps (`Turn`), unless one is a fault or gives the head.

Only model-checked: the liveness properties, `EveryBlockDecided`, `EveryAlertSettled`,
`CloseReturns`, `Ends` and `HeadsKeepComing`, for the prover has no rules for fairness
and ENABLED here.  For all but `CloseReturns`, which takes one step, a measure that every
step lowers is proved (`CatchUpEnds`, `AlertsAreNotPutOff`, `ReplayEnds`,
`PolledHeadsCome`; of `HeadsKeepComing` only the polling half), so that what is left to
TLC is that a fair step remains enabled.  No module declares a `RECURSIVE` operator.

## Where code and documentation differ

* **A skipped block need not have failed** (`MCRunner_batchCharged`).
  `README.md:61-62` says a block is skipped when it cannot be processed
  `max_block_failures` times in a row; `runner.py:71` charges a batch's failure to
  its first block.  The same line charges a failing progress write of one block to
  the next (`runner.py:83-86`).  `SkipsAreEarned`: with batches of one and writes that
  do not fail, the README is right.
* **A restart forgets cooldowns** (`MCEngine_restart`; `README.md:44`,
  `detector/window.py:68`, `main.py:113-116`).
* **An endless retry ends** (`MCRetry_endless`; `rpc.py:32`, `rpc.py:55`) if the
  base of its pause is a float: attempt 1025 raises `OverflowError`, after about 17
  hours at pauses of up to 60 s.  The configuration is not converted
  (`config.py:119-124`, `142`), so the base is a float if `retry_base_delay_sec` is
  left out (1.0, `config.py:46`) or written as one.  The shipped `config.yaml:14`
  writes the integer 1, with which nothing overflows (`TriedForEver`).  The run has a
  float base and a smaller exponent.
* **A pool with a broken token is tracked** after a change of the quote tokens,
  until the next start (`MCPoolCache_broken`; `cache.py:105-109`, `README.md:28-29`).
  A change is not the only way: when the commit of new token metadata fails
  (`cache.py:210-213`) memory has learnt them all the same, nothing writes them again,
  and the next start finds the row without its tokens.  `BrokenAreIgnored`: it takes
  one of the two, or an eater of gas.

Seen while modelling, without a run: a pool may be unloaded within its cooldown,
against the comment at `detector.py:131-132`.  The rule counts from `last_block`,
which an alert does not move, and a V3 pool may alert in a block that only pokes it,
blocks after its last swap.  It takes a `state_gc_blocks` below the cooldown plus the
window, which the defaults are far from; with one V3 pool, a window of 4, a cooldown
of 2 blocks and unloading after 2 quiet ones TLC finds `CooldownRespected` violated
without any failure.  A genuine pool whose `token0()`, `token1()`
or `fee()` failed behind an eater of gas is stored as `ignored_fake`
(`cache.py:153-154`) and stays so for good (`cache.py:91`), while `cache.py:19` has
that status mean "factory() врёт" and `README.md:27-28` a pool its factory does
not know; `cache.py:113-114` protects `factory()` alone.  "Без потери скорости"
(`block_source.py:33`) is true of blocks on time only: after a slow block the quiet
pause, counted from when the head was *seen*, delays the next heads, by two
seconds less each time with the defaults.  The WebSocket's idle time-out is reset
by every message, not by blocks (`block_source.py:80-83`).  The wall clock as a last resort for a block's
time (`engine.py:297`) is ahead of the blocks during a catch-up, and stored as the
time of an alert it prolongs the cooldown; the docstring of `eth_call`
(`rpc.py:145-146`) promises `attempts` tries for permanent errors while the code
counts transient ones with them; the jitter makes pauses up to 1.2 times the
maximum that `rpc.py:31` names.

## What is not modelled

* Configuration, ABI decoding, token decoders, text of alerts, masking of
  secrets, deployment: sequential or pure code; see `PROJECT.json`.
* The swap an alert names (`main_swap`), and with it pre- and post-prices of swaps.
* Floats: prices are small integers, thresholds compared exactly.
* web3's handling of a WebSocket whose messages are not read in time, and the
  jitter of pauses.  `BlockSources` asks nothing of how long a request takes: one
  that is tried again takes its second, all others none.
* The second read of `resolve` (getPair, getPool) call by call: every call of it
  is asked again when it fails, and of trusted contracts; by `RequiredRight` its
  answers are `Genuine`.
* A power loss: with WAL and `synchronous=NORMAL` the last commits may be undone,
  which sets the progress back but cannot set it ahead of older commits.
* An exception in the middle of `process_block` after the detector has changed.
  The reads made there catch `RpcError`; only the overflow of a pause (with a float
  base) gets through,
  which leaves the block half applied and has it processed again.
* A provider that answers `eth_getLogs` wrongly (an empty list for a block it does
  not have), and reorganisations, which the program does not roll back
  (`README.md:256`).
* `catchup_batch_blocks = 0`, which the configuration accepts and the live loop
  does not survive.

## Plan

Done: `Runner` with `BlockLedger`, `Engine` on `Detector` and `BlockSeries`,
`Notifier`, `Retry` with `GetLogs` and `Replay`, `Multicall` and `PoolCache` with their
composition `Resolve`, and `BlockSources`; all checked and proved.  Next:

1. The WebSocket's half of `HeadsKeepComing`: that `ToHead` also counts down through
   time-outs and attempts to connect.  Notifications that wait while others are lost may
   reach the bound `MaxBehind`, where heads are not told apart.
2. `Pricing`: prices from reserves and square roots, ETH price and stablecoin
   orientation as operators, against a reference definition on small integers;
   `MainSwap` against the rule of `README.md:57-58`.
3. A composition of `Runner` and `Engine`: half-applied blocks, and replay giving
   the same alerts as a live run without failures.
4. Storage after a power loss.
