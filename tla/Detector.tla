------------------------------ MODULE Detector ------------------------------
(***************************************************************************)
(* detector/detector.py's DumpDetector as operators on self.states, a      *)
(* function from the pools the detector knows to their PoolState.          *)
(*                                                                         *)
(* Time is counted in slots of 12 seconds (SECONDS_PER_BLOCK).  Percentages *)
(* are compared by cross-multiplying, so exactly.  The swaps of a pool only *)
(* serve to name the main swap in the text of an alert; here they leave    *)
(* nothing but their effect on the life of the state.  Of the withdrawals  *)
(* the blocks are kept, not how many there were.                           *)
(***************************************************************************)
EXTENDS BlockSeries, Functions

CONSTANTS
    Window,         \* detector.window_blocks
    DropPct,        \* detector.drop_pct
    MinLiquidity,   \* detector.min_liquidity_usd
    Cooldown,       \* detector.cooldown_min, in slots
    RugpullPct,     \* detector.rugpull_liquidity_drop_pct
    StateGc         \* detector.state_gc_blocks

ASSUME DetectorConfig ==
    /\ Window \in Nat \ {0}
    /\ DropPct \in 1 .. 100 /\ RugpullPct \in 0 .. 100
    /\ MinLiquidity \in Nat /\ Cooldown \in Nat /\ StateGc \in Nat

NoTime == -1

NewState ==
    [price |-> EmptySeries, liquidity |-> EmptySeries, burns |-> {},
     lastAlert |-> NoTime, lastBlock |-> 0]

(* state(): the state of a pool, created when it is first asked for.       *)
StateOf(states, pool) == IF pool \in DOMAIN states THEN states[pool] ELSE NewState

(* The pools of the function new have its states, the rest keep theirs.    *)
Put(states, new) ==
    [p \in DOMAIN states \cup DOMAIN new |-> IF p \in DOMAIN new THEN new[p] ELSE states[p]]

HasPrice(states, pool) == pool \in DOMAIN states /\ HasValue(states[pool].price)

(* _touch and the record_ methods, each on the state of its pool.          *)
Touched(st, block) == [st EXCEPT !.lastBlock = IF block > @ THEN block ELSE @]

RecordPrice(st, block, price) == [Touched(st, block) EXCEPT !.price = Add(@, block, price)]

RecordInitialPrice(st, block, price) ==
    IF st.price.current = NoValue THEN [st EXCEPT !.price = Add(@, block, price)] ELSE st

RecordSwap(st, block) == Touched(st, block)

RecordBurn(st, block) == [Touched(st, block) EXCEPT !.burns = @ \cup {block}]

RecordLiquidity(st, block, usd) == [st EXCEPT !.liquidity = Add(@, block, usd)]

(* Mutant: burns stay for ever.                                            *)
PruneKeepsBurns(st, block) ==
    [st EXCEPT !.price = Prune(@, block, Window),
               !.liquidity = Prune(@, block, Window)]

(* PoolState.prune, which current_drop runs before it looks at a pool.     *)
Pruned(st, block) ==
    [st EXCEPT !.price = Prune(@, block, Window),
               !.liquidity = Prune(@, block, Window),
               !.burns = {b \in @ : b > block - Window}]

-----------------------------------------------------------------------------
(* Rules.                                                                  *)

(* drop_pct(before, after) >= pct, and > pct.                              *)
DropsAtLeast(before, after, pct) == (before - after) * 100 >= pct * before
DropsMoreThan(before, after, pct) == (before - after) * 100 > pct * before

(* is_candidate, of a pruned state: a missing or zero price drops by 0.    *)
Candidate(st) ==
    /\ Top(st.price) > 0 /\ st.price.current > 0
    /\ DropsAtLeast(Top(st.price), st.price.current, DropPct)

EnoughLiquidity(st) ==
    /\ st.liquidity.current # NoValue
    /\ Top(st.liquidity) >= MinLiquidity

InCooldown(st, now) == st.lastAlert # NoTime /\ now - st.lastAlert < Cooldown

Rugpull(st) ==
    /\ st.burns # {}
    /\ Top(st.liquidity) > 0
    /\ DropsMoreThan(Top(st.liquidity), st.liquidity.current, RugpullPct)

(* evaluate() returns a Signal.                                            *)
Fires(st, now) == Candidate(st) /\ EnoughLiquidity(st) /\ ~InCooldown(st, now)

-----------------------------------------------------------------------------
(* Mutant: a pool with an alert is unloaded like any other.                *)
StaleDespiteAlert(st, block) == st.lastBlock < block - StateGc

(* gc()'s condition.                                                       *)
Stale(st, block) ==
    /\ st.lastBlock < block - StateGc
    /\ st.lastAlert = NoTime \/ block - st.lastBlock > Cooldown

Gc(states, block) ==
    Restrict(states, {p \in DOMAIN states : ~Stale(states[p], block)})
=============================================================================
