------------------------------- MODULE Engine -------------------------------
(***************************************************************************)
(* engine.py's Engine.process_block: from the events of a block to alerts. *)
(*                                                                         *)
(* The chain decides what happens to each pool in a block; the engine only *)
(* learns it from the events of the pools that emitted any, from reads of  *)
(* contract state that may fail, and from a memory that a restart empties. *)
(* Each await of process_block ends a step.  The true state of the pools   *)
(* at the end of the last blocks is kept beside it, for the properties.    *)
(*                                                                         *)
(* An operation of a pool is abstracted to what it leaves behind: the      *)
(* price of the token and the pool's liquidity in USD.  V2 reports both in *)
(* a Sync; V3 reports the price in a Swap, its balance has to be read.     *)
(***************************************************************************)
EXTENDS Detector, FiniteSets

CONSTANTS
    V2Pools, V3Pools,   \* tracked pools of each version
    EthQuoted,          \* those quoted in a token whose price is that of ETH
    Prices,             \* token prices
    Liquidities,        \* USD values of a pool
    RefreshBlocks,      \* detector.v3_liquidity_refresh_blocks
    GcEvery,            \* GC_EVERY_BLOCKS
    FirstBlock,         \* first block of the instance
    MaxBlock,           \* bound: last block of the instance
    MaxOps,             \* bound: operations of a pool in a block
    MissedSlots,        \* bound: slots without a block
    CatchingUp,         \* slots between a block and the wall clock
    Faults,             \* bound: failing reads, skipped blocks and restarts
    FaultKinds          \* which of them the instance allows, once each

Pools == V2Pools \cup V3Pools

ASSUME EngineConfig ==
    /\ V2Pools \cap V3Pools = {} /\ EthQuoted \subseteq Pools
    /\ Prices \subseteq Nat \ {0} /\ Liquidities \subseteq Nat
    /\ RefreshBlocks \in Nat /\ GcEvery \in Nat \ {0}
    /\ FirstBlock \in Nat /\ MaxBlock \in Nat /\ MaxBlock >= FirstBlock
    /\ FirstBlock > GcEvery /\ FirstBlock > StateGc
    /\ MaxOps \in Nat /\ MissedSlots \in Nat /\ CatchingUp \in Nat /\ Faults \in Nat
    /\ FaultKinds \subseteq {"eth", "prime", "refresh", "time", "skip", "restart"}

VARIABLES
    \* the chain
    now,            \* newest block the engine is given
    time,           \* its time stamp, in slots
    price,          \* price[p][k]: price of p at the end of block now - k
    liquidity,      \* liquidity[p][k]: liquidity of p at the end of block now - k
    burnt,          \* burnt[p]: the k with a withdrawal in block now - k
    ops,            \* operations of each pool in block now, until it is done
    missed,         \* slots without a block so far
    \* Engine with its EthPriceTracker, V3BalanceTracker and DumpDetector
    at,             \* where process_block is
    states,         \* detector.states
    ethKnown,       \* eth.eth_usd is not None
    refreshedAt,    \* v3liq.refreshed_at
    lastGc,         \* _last_gc
    anchor,         \* _ts_anchor
    todo,           \* touched pools still to be evaluated
    \* ghosts
    alerts,         \* the alerts emitted
    runFrom,        \* first block given to this engine object
    happened        \* the kinds of failures there have been

chainVars == <<now, time, price, liquidity, burnt, missed>>
engineVars == <<states, ethKnown, refreshedAt, lastGc, anchor>>
vars == <<chainVars, ops, at, engineVars, todo, alerts, runFrom, happened>>

NoAnchor == [block |-> 0, time |-> NoTime]
Back == 0 .. Window

(* "silent" changes the balance of a V3 pool without any event the bot     *)
(* reads (Mint, Collect); "poke" is a V3 Burn of amount 0.                 *)
Op == [kind : {"swap", "burn", "poke", "silent"}, price : Prices, liquidity : Liquidities]
Emitting == {"swap", "burn", "poke"}

TypeOK ==
    /\ now \in FirstBlock - 1 .. MaxBlock
    /\ time \in Nat
    /\ price \in [Pools -> [Back -> Prices \cup {NoValue}]]
    /\ liquidity \in [Pools -> [Back -> Liquidities \cup {NoValue}]]
    /\ burnt \in [Pools -> SUBSET Back]
    /\ \A p \in Pools : \A i \in DOMAIN ops[p] : ops[p][i] \in Op
    /\ at \in {"idle", "eth", "prime", "apply", "refresh", "evaluate"}
    /\ DOMAIN states \subseteq Pools
    /\ \A p \in DOMAIN states :
          /\ states[p].price.current \in Prices \cup {NoValue}
          /\ states[p].liquidity.current \in Liquidities \cup {NoValue}
          /\ states[p].lastBlock \in {0} \cup (FirstBlock .. now)
    /\ ethKnown \in BOOLEAN
    /\ DOMAIN refreshedAt \subseteq V3Pools
    /\ lastGc \in 0 .. now
    /\ todo \subseteq Pools
    /\ runFrom \in FirstBlock .. MaxBlock + 1
    /\ happened \subseteq FaultKinds

Fault(kind) ==
    /\ kind \in FaultKinds \ happened /\ Cardinality(happened) < Faults
    /\ happened' = happened \cup {kind}

-----------------------------------------------------------------------------
(* The chain.                                                              *)

Where(s, kinds) == {i \in DOMAIN s : s[i].kind \in kinds}
LastOf(s, kinds) == s[Max(Where(s, kinds))]

(* The price before the i-th of the operations s of a block: that of the   *)
(* last swap, or the one at the start of the block.                        *)
PriceBefore(p, s, i) ==
    LET swaps == {j \in 1 .. i - 1 : s[j].kind = "swap"}
    IN  IF swaps = {} THEN price[p][0] ELSE s[Max(swaps)].price

(* Only a swap moves the price, and it is the first thing a new pool sees; *)
(* every change of a V2 pool emits a Sync.                                 *)
Legal(p, s) ==
    /\ p \in V2Pools => \A i \in DOMAIN s : s[i].kind \in {"swap", "burn"}
    /\ \A i \in DOMAIN s : s[i].kind # "swap" => s[i].price = PriceBefore(p, s, i)
    /\ \A i \in DOMAIN s : s[i].kind = "poke" =>
          s[i].liquidity = IF i = 1 THEN liquidity[p][0] ELSE s[i - 1].liquidity

OpSeqs(p) == {s \in UNION {[1 .. n -> Op] : n \in 0 .. MaxOps} : Legal(p, s)}

Shifted(f, value) == [k \in Back |-> IF k = 0 THEN value ELSE f[k - 1]]

NextBlock(chosen) ==
    /\ now < MaxBlock
    /\ now' = now + 1
    /\ price' = [p \in Pools |->
          Shifted(price[p], IF chosen[p] = <<>> THEN price[p][0] ELSE Last(chosen[p]).price)]
    /\ liquidity' = [p \in Pools |->
          Shifted(liquidity[p], IF chosen[p] = <<>> THEN liquidity[p][0] ELSE Last(chosen[p]).liquidity)]
    /\ burnt' = [p \in Pools |->
          {k + 1 : k \in burnt[p] \ {Window}}
             \cup IF Where(chosen[p], {"burn"}) = {} THEN {} ELSE {0}]
    /\ \E gap \in 0 .. MissedSlots - missed :
          /\ missed' = missed + gap
          /\ time' = time + 1 + gap

BlockChoices == {c \in [Pools -> UNION {OpSeqs(p) : p \in Pools}] : \A p \in Pools : c[p] \in OpSeqs(p)}

-----------------------------------------------------------------------------
(* process_block.                                                          *)

Init ==
    /\ now = FirstBlock - 1 /\ time = 0 /\ missed = 0
    /\ \E v \in [Pools -> (Prices \X Liquidities) \cup {<<NoValue, NoValue>>}] :
          /\ price = [p \in Pools |-> [k \in Back |-> v[p][1]]]
          /\ liquidity = [p \in Pools |-> [k \in Back |-> v[p][2]]]
    /\ burnt = [p \in Pools |-> {}]
    /\ ops = [p \in Pools |-> <<>>]
    /\ at = "idle" /\ todo = {}
    /\ states = <<>> /\ ethKnown = FALSE /\ refreshedAt = <<>> /\ lastGc = 0 /\ anchor = NoAnchor
    /\ alerts = {} /\ runFrom = FirstBlock
    /\ happened = {}

TouchedPools == {p \in Pools : Where(ops[p], Emitting) # {}}
QuoteKnown(p, known) == p \in EthQuoted => known

(* A block with events: of these pools, or of others only.                 *)
Begin ==
    /\ at = "idle"
    /\ \E chosen \in BlockChoices : NextBlock(chosen) /\ ops' = chosen
    /\ at' = "eth"
    /\ UNCHANGED <<engineVars, todo, alerts, runFrom, happened>>

(* A block without a single event: process_block returns at once.          *)
EmptyBlock ==
    /\ at = "idle"
    /\ \E chosen \in BlockChoices :
          /\ NextBlock(chosen)
          /\ \A p \in Pools : Where(chosen[p], Emitting) = {}
    /\ UNCHANGED <<ops, at, engineVars, todo, alerts, runFrom, happened>>

(* The loop gives the block up: the engine never sees it.                  *)
SkipBlock ==
    /\ at = "idle"
    /\ Fault("skip")
    /\ \E chosen \in BlockChoices : NextBlock(chosen)
    /\ UNCHANGED <<ops, at, engineVars, todo, alerts, runFrom>>

(* The ETH price is read from the pool's state when it is not known yet,   *)
(* by start() or before a block; RpcError is only logged.                  *)
Bootstrap ==
    /\ at = "eth"
    /\ \/ ethKnown' = TRUE /\ UNCHANGED happened
       \/ ~ethKnown /\ Fault("eth") /\ UNCHANGED ethKnown
    /\ at' = "prime"
    /\ UNCHANGED <<chainVars, ops, states, refreshedAt, lastGc, anchor, todo, alerts, runFrom>>

NeedPrime == {p \in TouchedPools : ~HasPrice(states, p)}

(* _prime for one pool, whose state at the end of the previous block was   *)
(* read, with or without its balance.                                      *)
PrimePool(st, p, withBalance) ==
    LET priced == RecordInitialPrice(st, now - 1, price[p][1])
    IN  IF withBalance /\ QuoteKnown(p, ethKnown)
        THEN RecordLiquidity(priced, now - 1, liquidity[p][1])
        ELSE priced

(* read: the pools whose calls succeeded; balances: those whose balance    *)
(* could be read too (one call for V2).                                    *)
Prime ==
    /\ at = "prime"
    /\ \E read \in SUBSET NeedPrime : \E balances \in SUBSET read :
          /\ read \cap V2Pools \subseteq balances
          /\ \/ balances = NeedPrime /\ UNCHANGED happened
             \/ balances # NeedPrime /\ Fault("prime")
          /\ states' = Put(states,
                [p \in {q \in read : price[q][1] # NoValue} |->
                    PrimePool(StateOf(states, p), p, p \in balances)])
    /\ at' = "apply"
    /\ UNCHANGED <<chainVars, ops, ethKnown, refreshedAt, lastGc, anchor, todo, alerts, runFrom>>

(* The kinds of events that the detector is told of, and those that give a *)
(* price.                                                                  *)
Recorded(p) == Where(ops[p], {"swap", "burn"}) # {}
Pricing(p) == IF p \in V2Pools THEN Emitting ELSE {"swap"}

RecordEvents(st, p) ==
    LET swapped == IF Where(ops[p], {"swap"}) = {} THEN st ELSE RecordSwap(st, now)
    IN  IF Where(ops[p], {"burn"}) = {} THEN swapped ELSE RecordBurn(swapped, now)

(* Mutant: every state inside the block reaches the detector.              *)
ApplyEachEvent(st, p, known) ==
    LET priced == FoldLeft(LAMBDA acc, op : RecordPrice(acc, now, op.price),
                           RecordEvents(st, p), ops[p])
    IN  IF p \in V2Pools /\ QuoteKnown(p, known)
        THEN RecordLiquidity(priced, now, LastOf(ops[p], Emitting).liquidity) ELSE priced

(* The events of a pool, and its state at the end of the block.            *)
ApplyEvents(st, p, known) ==
    LET recorded == RecordEvents(st, p)
        priced == IF Where(ops[p], Pricing(p)) = {} THEN recorded
                  ELSE RecordPrice(recorded, now, LastOf(ops[p], Pricing(p)).price)
    IN  IF p \in V2Pools /\ QuoteKnown(p, known)
        THEN RecordLiquidity(priced, now, LastOf(ops[p], Emitting).liquidity) ELSE priced

(* The ETH/USD pool may trade in the block too, before these pools or after *)
(* them.                                                                   *)
Apply ==
    /\ at = "apply"
    /\ \E before \in BOOLEAN, after \in BOOLEAN :
          /\ states' = Put(states,
                [p \in {q \in Pools : Recorded(q)} |->
                    ApplyEvents(StateOf(states, p), p, ethKnown \/ before)])
          /\ ethKnown' = (ethKnown \/ before \/ after)
    /\ at' = "refresh"
    /\ UNCHANGED <<chainVars, ops, refreshedAt, lastGc, anchor, todo, alerts, runFrom, happened>>

Due(p) == p \notin DOMAIN refreshedAt \/ now - refreshedAt[p] >= Max({1, RefreshBlocks})

IsCandidate(p) == p \in DOMAIN states /\ Candidate(Pruned(states[p], now))

(* Mutant: the version of a pool is not looked at.                         *)
NeedRefreshOfAll ==
    {p \in TouchedPools : Where(ops[p], {"burn"}) # {} \/ Due(p) \/ IsCandidate(p)}

(* Mutant: a suspected dump does not cause a read.                         *)
NeedRefreshWhenDue ==
    {p \in TouchedPools \cap V3Pools : Where(ops[p], {"burn"}) # {} \/ Due(p)}

(* Mutant: a suspected dump causes a read only if a liquidity is recorded. *)
NeedRefreshOfKnown ==
    {p \in TouchedPools \cap V3Pools :
        \/ Where(ops[p], {"burn"}) # {} \/ Due(p)
        \/ IsCandidate(p) /\ states[p].liquidity.current # NoValue}

(* _refresh_v3_liquidity's pools.                                          *)
NeedRefresh ==
    {p \in TouchedPools \cap V3Pools : Where(ops[p], {"burn"}) # {} \/ Due(p) \/ IsCandidate(p)}

(* The balances of the pools in read are known; the rest keep the old ones. *)
Refresh ==
    /\ at = "refresh"
    /\ \E read \in SUBSET NeedRefresh :
          /\ \/ read = NeedRefresh /\ UNCHANGED happened
             \/ read # NeedRefresh /\ Fault("refresh")
          /\ refreshedAt' = [p \in DOMAIN refreshedAt \cup read |->
                                IF p \in read THEN now ELSE refreshedAt[p]]
          /\ states' = Put(states,
                [p \in {q \in read : QuoteKnown(q, ethKnown)} |->
                    RecordLiquidity(StateOf(states, p), now, liquidity[p][0])])
    /\ todo' = TouchedPools
    /\ at' = "evaluate"
    /\ UNCHANGED <<chainVars, ops, ethKnown, lastGc, anchor, alerts, runFrom>>

(* _block_ts: the time stamp, read or known from a read for this block, or *)
(* else an estimate from the last one read, or else the wall clock.        *)
ReadTime(t) == t = time /\ anchor' = [block |-> now, time |-> time] /\ UNCHANGED happened

EstimatedTime(t) ==
    /\ anchor.block # now
    /\ Fault("time")
    /\ t = IF anchor = NoAnchor THEN time + CatchingUp ELSE anchor.time + (now - anchor.block)
    /\ UNCHANGED anchor

AlertOf(p, st) ==
    [pool |-> p, block |-> now, time |-> time,
     before |-> Top(st.price), after |-> st.price.current,
     liquidity |-> st.liquidity.current, rugpull |-> Rugpull(st), run |-> runFrom]

(* is_candidate, evaluate and _emit for one touched pool.                  *)
Dismiss(p) ==
    /\ at = "evaluate" /\ p \in todo
    /\ ~IsCandidate(p)
    /\ states' = IF p \in DOMAIN states THEN [states EXCEPT ![p] = Pruned(@, now)] ELSE states
    /\ todo' = todo \ {p}
    /\ UNCHANGED <<chainVars, ops, at, ethKnown, refreshedAt, lastGc, anchor, alerts, runFrom, happened>>

Evaluate(p) ==
    /\ at = "evaluate" /\ p \in todo
    /\ IsCandidate(p)
    /\ \E t \in {time, time + CatchingUp, anchor.time + (now - anchor.block)} :
          /\ ReadTime(t) \/ EstimatedTime(t)
          /\ LET st == Pruned(states[p], now)
             IN  \/ /\ Fires(st, t)
                    /\ states' = [states EXCEPT ![p] = [st EXCEPT !.lastAlert = t]]
                    /\ alerts' = alerts \cup {AlertOf(p, st)}
                 \/ /\ ~Fires(st, t)
                    /\ states' = [states EXCEPT ![p] = st]
                    /\ UNCHANGED alerts
    /\ todo' = todo \ {p}
    /\ UNCHANGED <<chainVars, ops, at, ethKnown, refreshedAt, lastGc, runFrom>>

GcDue == now - lastGc >= GcEvery

(* The end of process_block.                                               *)
Finish ==
    /\ at = "evaluate" /\ todo = {}
    /\ \/ /\ GcDue
          /\ lastGc' = now
          /\ refreshedAt' = Restrict(refreshedAt, DOMAIN refreshedAt \cap DOMAIN states)
          /\ states' = Gc(states, now)
       \/ /\ ~GcDue
          /\ UNCHANGED <<lastGc, refreshedAt, states>>
    /\ ops' = [p \in Pools |-> <<>>]
    /\ at' = "idle"
    /\ UNCHANGED <<chainVars, ethKnown, anchor, todo, alerts, runFrom, happened>>

(* The run ends and a new engine is made; the block that was not finished  *)
(* is processed again.                                                     *)
Restart ==
    /\ Fault("restart")
    /\ states' = <<>> /\ ethKnown' = FALSE /\ refreshedAt' = <<>>
    /\ lastGc' = 0 /\ anchor' = NoAnchor
    /\ todo' = {}
    /\ \/ at = "idle" /\ runFrom' = now + 1 /\ UNCHANGED at
       \/ at # "idle" /\ runFrom' = now /\ at' = "eth"
    /\ UNCHANGED <<chainVars, ops, alerts>>

(* Bound: after MaxBlock the loop only waits for the next head.            *)
Wait == at = "idle" /\ now = MaxBlock /\ UNCHANGED vars

Next ==
    \/ Wait
    \/ Begin \/ EmptyBlock \/ SkipBlock
    \/ Bootstrap \/ Prime \/ Apply \/ Refresh
    \/ \E p \in Pools : Dismiss(p) \/ Evaluate(p)
    \/ Finish
    \/ Restart

Spec == Init /\ [][Next]_vars

-----------------------------------------------------------------------------
(* What the chain really did, as far back as this engine can know: the     *)
(* window reaches to the end of block now - Window, a run to the end of    *)
(* the block before its first one.                                         *)

Seen(p, run) == {k \in Back : now - k >= run - 1 /\ price[p][k] # NoValue}
TrueTop(p, run) == Max({price[p][k] : k \in Seen(p, run)})
TrueLiquidityTop(p, run) == Max({liquidity[p][k] : k \in Seen(p, run)})
TrueBurn(p, run) == \E k \in burnt[p] : k < Window /\ now - k >= run

AlertsNow == {a \in alerts : a.block = now}
Without(kinds) == happened \cap kinds = {}

(* A pool is unloaded by its last block, of which a block that only pokes  *)
(* a V3 pool is none: what the bot still needs of it outlives the          *)
(* unloading when state_gc_blocks is long enough (by default it is a       *)
(* thousand windows).                                                      *)
KeepsWindow == StateGc + 2 >= Window
KeepsCooldown(p) == p \in V2Pools \/ Window <= 3 \/ StateGc + 3 >= Cooldown + Window

(* When a pool is judged, its window holds exactly the prices at the ends  *)
(* of the blocks of the window, the one in force at its start included,    *)
(* and nothing from inside a block (README.md:46-53, engine.py:118-148,    *)
(* window.py:23-38), whatever was unloaded, or lost by a restart.  A failed *)
(* read of the state before the block, or a block given up, breaks this.   *)
WindowExact ==
    at = "evaluate" /\ KeepsWindow /\ Without({"prime", "skip"}) => \A p \in todo :
        LET s == Pruned(StateOf(states, p), now).price
        IN  Top(s) = TrueTop(p, runFrom) /\ s.current = price[p][0]

(* An alert is about a fall between two states the pool really had at the  *)
(* end of blocks, the later one now, unless a block was given up           *)
(* (README.md:41, 46-48; detector.py:93-116).                              *)
NoFalseAlert ==
    Without({"skip"}) => \A a \in AlertsNow :
        /\ a.after = price[a.pool][0]
        /\ \E k \in Back : price[a.pool][k] = a.before
        /\ DropsAtLeast(a.before, a.after, DropPct)

(* The dump of a pool has an alert in this block, or falls into the        *)
(* cooldown of one.                                                        *)
Reported(p) == \E a \in alerts : a.pool = p /\ (a.block = now \/ time - a.time < Cooldown)

(* A V2 pool that really dumped, and was worth enough before, has an alert *)
(* by the end of the block, or had one less than the cooldown ago          *)
(* (README.md:39-44; engine.py:152-161), when the reads it takes succeed.  *)
NoMissedDump ==
    at = "evaluate" /\ todo = {} /\ KeepsWindow /\ Without({"eth", "prime", "skip", "time"}) =>
        \A p \in TouchedPools \cap V2Pools :
            /\ DropsAtLeast(TrueTop(p, runFrom), price[p][0], DropPct)
            /\ TrueLiquidityTop(p, runFrom) >= MinLiquidity
            => Reported(p)

(* So has a V3 pool that really dumped and is worth enough at the end of   *)
(* the block, however little is known of its liquidity until then: its     *)
(* balance may never have been read, have been read while the price of its *)
(* quote token was unknown and so not been recorded, or not be due because *)
(* of a read before it was unloaded (README.md:36-44; engine.py:274-286;   *)
(* liquidity.py:35-58), when the reads of the block itself succeed.        *)
NoMissedV3Dump ==
    at = "evaluate" /\ todo = {} /\ KeepsWindow /\ Without({"prime", "refresh", "skip", "time"}) =>
        \A p \in TouchedPools \cap V3Pools :
            /\ QuoteKnown(p, ethKnown)
            /\ DropsAtLeast(TrueTop(p, runFrom), price[p][0], DropPct)
            /\ liquidity[p][0] >= MinLiquidity
            => Reported(p)

(* README.md:44: no alert for a pool less than the cooldown after another. *)
CooldownOf(pools) ==
    \A a \in alerts, b \in alerts :
        a.pool = b.pool /\ a.pool \in pools /\ a.block < b.block => b.time - a.time >= Cooldown

CooldownRespected == CooldownOf(Pools)

(* As long as the process lives and time stamps are read, it is kept, the  *)
(* unloading of quiet pools included (detector.py:87-91, 128-141), of V3   *)
(* pools when that does not come too soon.                                 *)
CooldownKept == Without({"restart", "time"}) => CooldownOf({p \in Pools : KeepsCooldown(p)})

(* The mark of a rug pull on a V2 alert is right: liquidity was withdrawn  *)
(* within the window and it fell by more than RugpullPct (README.md:55-56; *)
(* detector.py:109-110).                                                   *)
RugpullExact ==
    KeepsWindow /\ Without({"eth", "prime", "skip"}) => \A a \in AlertsNow : a.pool \in V2Pools =>
        (a.rugpull <=> /\ TrueBurn(a.pool, a.run)
                       /\ DropsMoreThan(TrueLiquidityTop(a.pool, a.run), liquidity[a.pool][0], RugpullPct))

(* The liquidity an alert shows is that of the block, for V3 too, which is *)
(* read only now and then (README.md:36-38; engine.py:274-286).            *)
LiquidityFresh ==
    Without({"refresh"}) => \A a \in AlertsNow : a.liquidity = liquidity[a.pool][0]
=============================================================================
