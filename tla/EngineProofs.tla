---------------------------- MODULE EngineProofs ----------------------------
(***************************************************************************)
(* What process_block guarantees for any pools, operations, failures and   *)
(* thresholds, and for any length of a run.                                *)
(***************************************************************************)
EXTENDS Engine, DetectorProofs

EngineType ==
    /\ TypeOK
    /\ ops \in [Pools -> Seq(Op)]
    /\ at # "idle" => now >= FirstBlock
    /\ todo # {} => at = "evaluate"
    /\ states = [p \in DOMAIN states |-> states[p]]
    /\ \A p \in DOMAIN states : states[p] \in PoolStates
    /\ anchor \in [block : Int, time : Int]

-----------------------------------------------------------------------------
(* The chain.                                                              *)

LEMMA Numbers ==
    /\ Window \in Nat /\ Window >= 1 /\ 0 \in Back /\ 1 \in Back /\ Back = 0 .. Window
    /\ FirstBlock \in Nat /\ FirstBlock >= 1 /\ MaxBlock \in Nat /\ MaxBlock >= FirstBlock
    /\ StateGc \in Nat /\ Cooldown \in Nat /\ MinLiquidity \in Nat /\ GcEvery \in Nat
    /\ CatchingUp \in Nat /\ FirstBlock > StateGc
    /\ Prices \subseteq Nat \ {0} /\ Liquidities \subseteq Nat
    /\ V2Pools \subseteq Pools /\ V3Pools \subseteq Pools
    /\ \A p \in Pools : p \in V2Pools \/ p \in V3Pools
    /\ \A p \in V2Pools : p \notin V3Pools
BY DetectorConfig, EngineConfig DEF Back, Pools

LEMMA OpIs ==
    ASSUME NEW o \in Op
    PROVE  /\ o.kind \in {"swap", "burn", "poke", "silent"}
           /\ o.price \in Prices /\ o.liquidity \in Liquidities
           /\ o.price \in Int /\ o.price # NoValue /\ o.liquidity \in Int /\ o.liquidity # NoValue
<1>1. o.kind \in {"swap", "burn", "poke", "silent"} /\ o.price \in Prices /\ o.liquidity \in Liquidities
  BY DEF Op
<1>2. Prices \subseteq Nat \ {0} /\ Liquidities \subseteq Nat
  BY Numbers
<1>3. o.price \in Nat /\ o.price # 0 /\ o.liquidity \in Nat
  BY <1>1, <1>2
<1>4. QED
  BY <1>1, <1>3 DEF NoValue

(* The operations of some kinds, and the last of them.                     *)
LEMMA WhereIs ==
    ASSUME NEW s \in Seq(Op), NEW K
    PROVE  /\ Where(s, K) \in SUBSET (1 .. Len(s)) /\ Len(s) \in Nat
           /\ \A i \in 1 .. Len(s) : s[i] \in Op
           /\ \A i \in 1 .. Len(s) : i \in Where(s, K) <=> s[i].kind \in K
           /\ Where(s, K) # {} =>
                 /\ Max(Where(s, K)) \in Where(s, K)
                 /\ \A i \in Where(s, K) : i <= Max(Where(s, K))
                 /\ LastOf(s, K) \in Op
<1>1. /\ Where(s, K) \in SUBSET (1 .. Len(s)) /\ Len(s) \in Nat
      /\ \A i \in 1 .. Len(s) : s[i] \in Op
      /\ \A i \in 1 .. Len(s) : i \in Where(s, K) <=> s[i].kind \in K
  BY DEF Where
<1>2. ASSUME Where(s, K) # {}
      PROVE  /\ Max(Where(s, K)) \in Where(s, K)
             /\ \A i \in Where(s, K) : i <= Max(Where(s, K))
  BY <1>1, <1>2, MaxOf
<1>3. ASSUME Where(s, K) # {} PROVE LastOf(s, K) \in Op
  BY <1>1, <1>2, <1>3 DEF LastOf
<1>4. QED
  BY <1>1, <1>2, <1>3

LEMMA ChosenIs ==
    ASSUME NEW chosen \in BlockChoices
    PROVE  /\ chosen \in [Pools -> Seq(Op)]
           /\ \A p \in Pools : Legal(p, chosen[p])
<1>1. ASSUME NEW p \in Pools PROVE chosen[p] \in Seq(Op) /\ Legal(p, chosen[p])
  <2>1. chosen[p] \in OpSeqs(p)
    BY DEF BlockChoices
  <2>2. PICK n \in 0 .. MaxOps : chosen[p] \in [1 .. n -> Op]
    BY <2>1 DEF OpSeqs
  <2>3. n \in Nat
    BY EngineConfig
  <2>4. QED
    BY <2>1, <2>2, <2>3 DEF OpSeqs
<1>2. chosen \in [Pools -> UNION {OpSeqs(p) : p \in Pools}]
  BY DEF BlockChoices
<1>3. QED
  BY <1>1, <1>2

(* What a block does to one pool.                                          *)
LEMMA ChainStep ==
    ASSUME EngineType, NEW chosen \in BlockChoices, NextBlock(chosen)
    PROVE  /\ price' \in [Pools -> [Back -> Prices \cup {NoValue}]]
           /\ liquidity' \in [Pools -> [Back -> Liquidities \cup {NoValue}]]
           /\ burnt' \in [Pools -> SUBSET Back]
           /\ now' = now + 1 /\ now' \in FirstBlock .. MaxBlock
           /\ time' \in Nat /\ time' >= time + 1
           /\ \A p \in Pools : \A k \in 1 .. Window :
                 price'[p][k] = price[p][k - 1] /\ liquidity'[p][k] = liquidity[p][k - 1]
           /\ \A p \in Pools :
                 /\ price'[p][0] = IF chosen[p] = <<>> THEN price[p][0] ELSE Last(chosen[p]).price
                 /\ liquidity'[p][0] = IF chosen[p] = <<>> THEN liquidity[p][0] ELSE Last(chosen[p]).liquidity
           /\ \A p \in Pools : \A k \in Back :
                 k \in burnt'[p] <=> IF k = 0 THEN Where(chosen[p], {"burn"}) # {} ELSE k - 1 \in burnt[p]
<1>1. /\ price \in [Pools -> [Back -> Prices \cup {NoValue}]]
      /\ liquidity \in [Pools -> [Back -> Liquidities \cup {NoValue}]]
      /\ burnt \in [Pools -> SUBSET Back]
      /\ now \in FirstBlock - 1 .. MaxBlock /\ time \in Nat
  BY DEF EngineType, TypeOK
<1>2. ASSUME NEW p \in Pools, chosen[p] # <<>>
      PROVE  Last(chosen[p]).price \in Prices /\ Last(chosen[p]).liquidity \in Liquidities
  <2>1. chosen[p] \in Seq(Op)
    BY ChosenIs
  <2>2. chosen[p][Len(chosen[p])] \in Op
    BY <1>2, <2>1
  <2>3. QED
    BY <2>2, OpIs DEF Last
<1>3. ASSUME NEW p \in Pools, NEW k \in Back
      PROVE  /\ price'[p][k] = IF k = 0 THEN (IF chosen[p] = <<>> THEN price[p][0] ELSE Last(chosen[p]).price)
                               ELSE price[p][k - 1]
             /\ liquidity'[p][k] = IF k = 0 THEN (IF chosen[p] = <<>> THEN liquidity[p][0] ELSE Last(chosen[p]).liquidity)
                               ELSE liquidity[p][k - 1]
             /\ k # 0 => k - 1 \in Back
  BY Numbers DEF NextBlock, Shifted
<1>4. price' \in [Pools -> [Back -> Prices \cup {NoValue}]]
  <2>1. price' = [p \in Pools |->
          [k \in Back |-> IF k = 0 THEN (IF chosen[p] = <<>> THEN price[p][0] ELSE Last(chosen[p]).price)
                               ELSE price[p][k - 1]]]
    BY DEF NextBlock, Shifted
  <2>2. QED
    BY <2>1, <1>1, <1>2, Numbers
<1>5. liquidity' \in [Pools -> [Back -> Liquidities \cup {NoValue}]]
  <2>1. liquidity' = [p \in Pools |->
          [k \in Back |-> IF k = 0 THEN (IF chosen[p] = <<>> THEN liquidity[p][0] ELSE Last(chosen[p]).liquidity)
                               ELSE liquidity[p][k - 1]]]
    BY DEF NextBlock, Shifted
  <2>2. QED
    BY <2>1, <1>1, <1>2, Numbers
<1>6. ASSUME NEW p \in Pools
      PROVE  /\ burnt'[p] \in SUBSET Back
             /\ \A k \in Back : k \in burnt'[p] <=>
                    IF k = 0 THEN Where(chosen[p], {"burn"}) # {} ELSE k - 1 \in burnt[p]
  <2>1. burnt'[p] = {k + 1 : k \in burnt[p] \ {Window}}
                      \cup IF Where(chosen[p], {"burn"}) = {} THEN {} ELSE {0}
    BY DEF NextBlock
  <2>2. burnt[p] \subseteq 0 .. Window
    BY <1>1, Numbers
  <2>3. QED
    BY <2>1, <2>2, Numbers
<1>7. burnt' \in [Pools -> SUBSET Back]
  <2>1. burnt' = [p \in Pools |-> burnt'[p]]
    BY DEF NextBlock
  <2>2. QED
    BY <2>1, <1>6
<1>8. now' = now + 1 /\ now' \in FirstBlock .. MaxBlock
  BY <1>1, Numbers DEF NextBlock
<1>9. time' \in Nat /\ time' >= time + 1
  <2>1. PICK gap \in 0 .. MissedSlots - missed : time' = time + 1 + gap
    BY DEF NextBlock
  <2>2. gap \in Nat
    BY <2>1
  <2>3. QED
    BY <2>1, <2>2, <1>1
<1>10. \A p \in Pools : \A k \in 1 .. Window : k \in Back /\ k # 0
  BY Numbers
<1>11. QED
  BY <1>3, <1>4, <1>5, <1>6, <1>7, <1>8, <1>9, <1>10, Numbers

-----------------------------------------------------------------------------
(* Types.                                                                  *)

(* The states after some were written.                                     *)
LEMMA PutIs ==
    ASSUME NEW sts, NEW new
    PROVE  /\ DOMAIN Put(sts, new) = DOMAIN sts \cup DOMAIN new
           /\ Put(sts, new) = [p \in DOMAIN Put(sts, new) |-> Put(sts, new)[p]]
           /\ \A p \in DOMAIN new : Put(sts, new)[p] = new[p]
           /\ \A p \in DOMAIN sts : p \notin DOMAIN new => Put(sts, new)[p] = sts[p]
BY DEF Put

(* Nothing but the chain and the place of the coroutine moves.             *)
LEMMA ChainType ==
    ASSUME EngineType, NEW chosen \in BlockChoices, NextBlock(chosen),
           ops' \in [Pools -> Seq(Op)], at' \in {"idle", "eth"}, happened' \subseteq FaultKinds,
           UNCHANGED <<engineVars, todo, alerts, runFrom>>, at = "idle"
    PROVE  EngineType'
<1>1. /\ price' \in [Pools -> [Back -> Prices \cup {NoValue}]]
      /\ liquidity' \in [Pools -> [Back -> Liquidities \cup {NoValue}]]
      /\ burnt' \in [Pools -> SUBSET Back]
      /\ now' = now + 1 /\ now' \in FirstBlock .. MaxBlock /\ time' \in Nat
  BY ChainStep
<1>2. now \in FirstBlock - 1 .. MaxBlock /\ FirstBlock \in Nat /\ MaxBlock \in Nat
  BY Numbers DEF EngineType, TypeOK
<1>3. now' \in FirstBlock - 1 .. MaxBlock /\ now' >= FirstBlock
      /\ (\A x : x \in {0} \cup (FirstBlock .. now) => x \in {0} \cup (FirstBlock .. now'))
      /\ (lastGc \in 0 .. now => lastGc \in 0 .. now')
  BY <1>1, <1>2
<1>4. \A p \in Pools : \A i \in DOMAIN ops'[p] : ops'[p][i] \in Op
  OBVIOUS
<1>5. /\ states' = states /\ ethKnown' = ethKnown /\ refreshedAt' = refreshedAt /\ lastGc' = lastGc
      /\ anchor' = anchor /\ todo' = todo /\ alerts' = alerts /\ runFrom' = runFrom
  BY DEF engineVars
<1>6. todo = {}
  BY DEF EngineType
<1>7. TypeOK'
  BY <1>1, <1>3, <1>4, <1>5 DEF EngineType, TypeOK
<1>8. QED
  BY <1>3, <1>5, <1>6, <1>7 DEF EngineType

(* An action of the engine that only moves on and writes states.           *)
LEMMA StatesType ==
    ASSUME EngineType, at # "idle", UNCHANGED <<chainVars, runFrom>>, ops' \in [Pools -> Seq(Op)],
           at' \in {"idle", "eth", "prime", "apply", "refresh", "evaluate"},
           states' = [p \in DOMAIN states' |-> states'[p]], DOMAIN states' \subseteq Pools,
           \A p \in DOMAIN states' :
               /\ states'[p] \in PoolStates
               /\ states'[p].price.current \in Prices \cup {NoValue}
               /\ states'[p].liquidity.current \in Liquidities \cup {NoValue}
               /\ states'[p].lastBlock \in {0} \cup (FirstBlock .. now),
           ethKnown' \in BOOLEAN, DOMAIN refreshedAt' \subseteq V3Pools, lastGc' \in 0 .. now,
           anchor' \in [block : Int, time : Int],
           todo' \subseteq Pools, todo' # {} => at' = "evaluate", happened' \subseteq FaultKinds
    PROVE  EngineType'
<1>1. /\ now' = now /\ time' = time /\ price' = price /\ liquidity' = liquidity /\ burnt' = burnt
      /\ runFrom' = runFrom
  BY DEF chainVars
<1>2. \A p \in Pools : \A i \in DOMAIN ops'[p] : ops'[p][i] \in Op
  OBVIOUS
<1>3. TypeOK'
  BY <1>1, <1>2 DEF EngineType, TypeOK
<1>4. QED
  BY <1>1, <1>3 DEF EngineType

-----------------------------------------------------------------------------
(* What the steps of process_block write to a pool.                        *)

LEMMA StateOfIs ==
    ASSUME EngineType, NEW p
    PROVE  /\ StateOf(states, p) \in PoolStates
           /\ StateOf(states, p).price.current \in Prices \cup {NoValue}
           /\ StateOf(states, p).liquidity.current \in Liquidities \cup {NoValue}
           /\ StateOf(states, p).lastBlock \in {0} \cup (FirstBlock .. now)
           /\ p \in DOMAIN states => StateOf(states, p) = states[p]
           /\ p \notin DOMAIN states => StateOf(states, p) = NewState
<1>1. CASE p \in DOMAIN states
  BY <1>1 DEF StateOf, EngineType, TypeOK
<1>2. CASE p \notin DOMAIN states
  BY <1>2, NewStateIs DEF StateOf, NewState, EmptySeries
<1>3. QED
  BY <1>1, <1>2

(* The chain as the engine reads it.                                       *)
LEMMA ChainIs ==
    ASSUME EngineType, NEW p \in Pools, NEW k \in {0, 1}
    PROVE  /\ price[p][k] \in Prices \cup {NoValue} /\ liquidity[p][k] \in Liquidities \cup {NoValue}
           /\ price[p][k] \in Int /\ liquidity[p][k] \in Int
           /\ now \in Int /\ now <= MaxBlock /\ now >= FirstBlock - 1 /\ now \in Nat
<1>1. /\ price \in [Pools -> [Back -> Prices \cup {NoValue}]]
      /\ liquidity \in [Pools -> [Back -> Liquidities \cup {NoValue}]]
      /\ now \in FirstBlock - 1 .. MaxBlock
  BY DEF EngineType, TypeOK
<1>2. k \in Back
  BY Numbers
<1>3. price[p][k] \in Prices \cup {NoValue} /\ liquidity[p][k] \in Liquidities \cup {NoValue}
  BY <1>1, <1>2
<1>4. Prices \subseteq Nat \ {0} /\ Liquidities \subseteq Nat
  BY Numbers
<1>5. price[p][k] \in Int /\ liquidity[p][k] \in Int
  <2> DEFINE a == price[p][k]
             b == liquidity[p][k]
  <2>1. a \in Prices \cup {NoValue} /\ b \in Liquidities \cup {NoValue} /\ NoValue \in Int
    BY <1>3 DEF NoValue
  <2> HIDE DEF a, b, NoValue
  <2>2. a \in Int /\ b \in Int
    BY <2>1, <1>4
  <2>3. QED
    BY <2>2 DEF a, b
<1>6. now \in Int /\ now <= MaxBlock /\ now >= FirstBlock - 1 /\ now \in Nat
  BY <1>1, Numbers
<1>7. QED
  BY <1>3, <1>5, <1>6

LEMMA PrimePoolIs ==
    ASSUME EngineType, NEW p \in Pools, NEW st \in PoolStates, NEW b
    PROVE  LET t == PrimePool(st, p, b)
           IN  /\ t \in PoolStates
               /\ t.price = IF st.price.current = NoValue THEN Add(st.price, now - 1, price[p][1]) ELSE st.price
               /\ t.liquidity = IF b /\ QuoteKnown(p, ethKnown)
                                 THEN Add(st.liquidity, now - 1, liquidity[p][1]) ELSE st.liquidity
               /\ t.burns = st.burns /\ t.lastAlert = st.lastAlert /\ t.lastBlock = st.lastBlock
<1>1. now - 1 \in Int /\ price[p][1] \in Int /\ liquidity[p][1] \in Int
  BY ChainIs
<1> DEFINE u == RecordInitialPrice(st, now - 1, price[p][1])
<1>2. /\ u \in PoolStates
      /\ u.price = IF st.price.current = NoValue THEN Add(st.price, now - 1, price[p][1]) ELSE st.price
      /\ u.liquidity = st.liquidity
      /\ u.burns = st.burns /\ u.lastAlert = st.lastAlert /\ u.lastBlock = st.lastBlock
  BY <1>1, RecordInitialPriceIs
<1>3. PrimePool(st, p, b) = IF b /\ QuoteKnown(p, ethKnown)
                            THEN RecordLiquidity(u, now - 1, liquidity[p][1]) ELSE u
  BY DEF PrimePool
<1> HIDE DEF u
<1>4. CASE b /\ QuoteKnown(p, ethKnown)
  BY <1>1, <1>2, <1>3, <1>4, RecordLiquidityIs
<1>5. CASE ~(b /\ QuoteKnown(p, ethKnown))
  BY <1>2, <1>3, <1>5
<1>6. QED
  BY <1>4, <1>5

LEMMA RecordEventsIs ==
    ASSUME EngineType, NEW p \in Pools, NEW st \in PoolStates, st.lastBlock <= now
    PROVE  LET t == RecordEvents(st, p)
           IN  /\ t \in PoolStates
               /\ t.price = st.price /\ t.liquidity = st.liquidity /\ t.lastAlert = st.lastAlert
               /\ t.burns = IF Where(ops[p], {"burn"}) = {} THEN st.burns ELSE st.burns \cup {now}
               /\ t.lastBlock = IF Recorded(p) THEN now ELSE st.lastBlock
<1>1. now \in Nat /\ st.lastBlock \in Nat
  BY ChainIs, PartsOf
<1> DEFINE A == Where(ops[p], {"swap"}) = {}
           B == Where(ops[p], {"burn"}) = {}
           u == IF A THEN st ELSE RecordSwap(st, now)
           t == IF B THEN u ELSE RecordBurn(u, now)
<1>2. Recorded(p) <=> ~A \/ ~B
  BY DEF Recorded, Where
<1>3. RecordEvents(st, p) = t
  BY DEF RecordEvents
<1>4. /\ u \in PoolStates /\ u.price = st.price /\ u.liquidity = st.liquidity
      /\ u.burns = st.burns /\ u.lastAlert = st.lastAlert
      /\ u.lastBlock = IF A THEN st.lastBlock ELSE now
  <2>1. CASE A
    BY <2>1
  <2>2. CASE ~A
    <3> HIDE DEF A
    <3>1. Later(now, st.lastBlock) = now
      BY <1>1 DEF Later
    <3>2. u = Touched(st, now)
      BY <2>2 DEF RecordSwap
    <3> DEFINE r == Touched(st, now)
    <3>3. /\ r \in PoolStates /\ r.price = st.price /\ r.liquidity = st.liquidity
          /\ r.burns = st.burns /\ r.lastAlert = st.lastAlert /\ r.lastBlock = now
      BY <1>1, <3>1, TouchedIs
    <3> HIDE DEF u, r
    <3>4. QED
      BY <2>2, <3>2, <3>3 DEF r
  <2>3. QED
    BY <2>1, <2>2
<1> HIDE DEF A, B, u
<1>5. /\ t \in PoolStates /\ t.price = st.price /\ t.liquidity = st.liquidity /\ t.lastAlert = st.lastAlert
      /\ t.burns = IF B THEN st.burns ELSE st.burns \cup {now}
      /\ t.lastBlock = IF ~A \/ ~B THEN now ELSE st.lastBlock
  <2>1. CASE B
    BY <2>1, <1>4
  <2>2. CASE ~B
    <3>1. Later(now, u.lastBlock) = now
      BY <1>1, <1>4 DEF Later
    <3>2. t = RecordBurn(u, now)
      BY <2>2
    <3>3. QED
      BY <1>1, <1>4, <2>2, <3>1, <3>2, RecordBurnIs, ZenonT(60)
  <2>3. QED
    BY <2>1, <2>2
<1>6. QED
  BY <1>2, <1>3, <1>5 DEF B

LEMMA ApplyEventsIs ==
    ASSUME EngineType, NEW p \in Pools, NEW st \in PoolStates, st.lastBlock <= now, NEW known, Recorded(p)
    PROVE  LET t == ApplyEvents(st, p, known)
           IN  /\ t \in PoolStates
               /\ t.price = IF Where(ops[p], Pricing(p)) = {} THEN st.price
                             ELSE Add(st.price, now, LastOf(ops[p], Pricing(p)).price)
               /\ t.liquidity = IF p \in V2Pools /\ QuoteKnown(p, known)
                                 THEN Add(st.liquidity, now, LastOf(ops[p], Emitting).liquidity)
                                 ELSE st.liquidity
               /\ t.burns = IF Where(ops[p], {"burn"}) = {} THEN st.burns ELSE st.burns \cup {now}
               /\ t.lastAlert = st.lastAlert /\ t.lastBlock = now
<1>1. now \in Nat /\ st.lastBlock \in Nat
  BY ChainIs, PartsOf
<1> DEFINE u == RecordEvents(st, p)
           A == Where(ops[p], Pricing(p)) = {}
           x == LastOf(ops[p], Pricing(p)).price
           w == IF A THEN u ELSE RecordPrice(u, now, x)
           y == LastOf(ops[p], Emitting).liquidity
           B == p \in V2Pools /\ QuoteKnown(p, known)
<1>2. /\ u \in PoolStates
      /\ u.price = st.price /\ u.liquidity = st.liquidity /\ u.lastAlert = st.lastAlert
      /\ u.burns = IF Where(ops[p], {"burn"}) = {} THEN st.burns ELSE st.burns \cup {now}
      /\ u.lastBlock = now
  BY RecordEventsIs
<1>3. ~A => x \in Int
  <2>1. ops[p] \in Seq(Op)
    BY DEF EngineType
  <2>2. ~A => LastOf(ops[p], Pricing(p)) \in Op
    BY <2>1, WhereIs
  <2>3. QED
    BY <2>2, OpIs
<1>4. y \in Int
  <2>1. ops[p] \in Seq(Op)
    BY DEF EngineType
  <2>2. Where(ops[p], Emitting) # {}
    BY DEF Recorded, Where, Emitting
  <2>3. LastOf(ops[p], Emitting) \in Op
    BY <2>1, <2>2, WhereIs
  <2>4. QED
    BY <2>3, OpIs
<1>5. ApplyEvents(st, p, known) = IF B THEN RecordLiquidity(w, now, y) ELSE w
  BY DEF ApplyEvents
<1> HIDE DEF u, A, x, y, B
<1>6. /\ w \in PoolStates
      /\ w.price = IF A THEN st.price ELSE Add(st.price, now, x)
      /\ w.liquidity = st.liquidity /\ w.burns = u.burns /\ w.lastAlert = st.lastAlert /\ w.lastBlock = now
  <2>1. CASE A
    BY <2>1, <1>2
  <2>2. CASE ~A
    <3>1. Later(now, u.lastBlock) = now
      BY <1>1, <1>2 DEF Later
    <3>2. w = RecordPrice(u, now, x)
      BY <2>2
    <3> DEFINE r == RecordPrice(u, now, x)
    <3>3. /\ r \in PoolStates /\ r.price = Add(u.price, now, x) /\ r.liquidity = u.liquidity
          /\ r.burns = u.burns /\ r.lastAlert = u.lastAlert /\ r.lastBlock = now
      BY <1>1, <1>2, <1>3, <2>2, <3>1, RecordPriceIs
    <3> HIDE DEF w, r
    <3>4. QED
      BY <1>2, <2>2, <3>2, <3>3 DEF r
  <2>3. QED
    BY <2>1, <2>2
<1> HIDE DEF w
<1>7. LET t == ApplyEvents(st, p, known)
      IN  /\ t \in PoolStates
          /\ t.price = IF A THEN st.price ELSE Add(st.price, now, x)
          /\ t.liquidity = IF B THEN Add(st.liquidity, now, y) ELSE st.liquidity
          /\ t.burns = u.burns /\ t.lastAlert = st.lastAlert /\ t.lastBlock = now
  <2>1. CASE B
    BY <2>1, <1>1, <1>4, <1>5, <1>6, RecordLiquidityIs
  <2>2. CASE ~B
    BY <2>2, <1>5, <1>6
  <2>3. QED
    BY <2>1, <2>2
<1>8. QED
  BY <1>2, <1>7 DEF A, x, y, B

LEMMA PrimeDoes ==
    ASSUME EngineType, Prime
    PROVE  /\ at = "prime" /\ at' = "apply"
           /\ states' = [p \in DOMAIN states' |-> states'[p]]
           /\ DOMAIN states \subseteq DOMAIN states' /\ DOMAIN states' \subseteq Pools
           /\ \A p \in DOMAIN states' :
                 \/ p \in DOMAIN states /\ states'[p] = states[p]
                 \/ /\ p \in NeedPrime /\ price[p][1] # NoValue
                    /\ \E b \in BOOLEAN : /\ p \in V2Pools => b
                                         /\ states'[p] = PrimePool(StateOf(states, p), p, b)
           /\ "prime" \notin happened' => \A p \in NeedPrime : price[p][1] # NoValue =>
                 p \in DOMAIN states' /\ states'[p] = PrimePool(StateOf(states, p), p, TRUE)
           /\ happened \subseteq happened' /\ happened' \subseteq FaultKinds
<1>0. PICK read \in SUBSET NeedPrime : \E balances \in SUBSET read :
          /\ read \cap V2Pools \subseteq balances
          /\ \/ balances = NeedPrime /\ UNCHANGED happened
             \/ balances # NeedPrime /\ Fault("prime")
          /\ states' = Put(states,
                [p \in {q \in read : price[q][1] # NoValue} |->
                    PrimePool(StateOf(states, p), p, p \in balances)])
  BY DEF Prime
<1>1. PICK balances \in SUBSET read :
          /\ read \cap V2Pools \subseteq balances
          /\ \/ balances = NeedPrime /\ UNCHANGED happened
             \/ balances # NeedPrime /\ Fault("prime")
          /\ states' = Put(states,
                [p \in {q \in read : price[q][1] # NoValue} |->
                    PrimePool(StateOf(states, p), p, p \in balances)])
  BY <1>0
<1> DEFINE D == {q \in read : price[q][1] # NoValue}
           new == [p \in D |-> PrimePool(StateOf(states, p), p, p \in balances)]
<1>2. /\ DOMAIN states' = DOMAIN states \cup D
      /\ states' = [p \in DOMAIN states' |-> states'[p]]
      /\ \A p \in D : states'[p] = PrimePool(StateOf(states, p), p, p \in balances)
      /\ \A p \in DOMAIN states : p \notin D => states'[p] = states[p]
  <2>1. DOMAIN new = D /\ \A p \in D : new[p] = PrimePool(StateOf(states, p), p, p \in balances)
    OBVIOUS
  <2>2. states' = Put(states, new)
    BY <1>1
  <2> HIDE DEF new, D
  <2>3. /\ DOMAIN Put(states, new) = DOMAIN states \cup DOMAIN new
        /\ Put(states, new) = [p \in DOMAIN Put(states, new) |-> Put(states, new)[p]]
        /\ \A p \in DOMAIN new : Put(states, new)[p] = new[p]
        /\ \A p \in DOMAIN states : p \notin DOMAIN new => Put(states, new)[p] = states[p]
    BY PutIs
  <2> HIDE DEF Put
  <2>4. QED
    BY <2>1, <2>2, <2>3
<1>3. D \subseteq NeedPrime /\ NeedPrime \subseteq Pools /\ DOMAIN states \subseteq Pools
  BY DEF NeedPrime, TouchedPools, EngineType, TypeOK
<1>4. ASSUME "prime" \notin happened' PROVE read = NeedPrime /\ balances = NeedPrime
  BY <1>1, <1>4 DEF Fault
<1>5. happened \subseteq happened' /\ happened' \subseteq FaultKinds
  BY <1>1 DEF Fault, EngineType, TypeOK
<1>6. at = "prime" /\ at' = "apply"
  BY DEF Prime
<1>7. \A p \in NeedPrime : "prime" \notin happened' /\ price[p][1] # NoValue => p \in D /\ (p \in balances) = TRUE
  BY <1>4
<1>8. \A p \in D : /\ p \in NeedPrime /\ price[p][1] # NoValue /\ (p \in balances) \in BOOLEAN
                   /\ p \in V2Pools => p \in balances
  BY <1>1
<1> HIDE DEF new, D
<1>9. ASSUME NEW p \in DOMAIN states', p \notin DOMAIN states \/ states'[p] # states[p]
      PROVE  /\ p \in NeedPrime /\ price[p][1] # NoValue
             /\ \E b \in BOOLEAN : /\ p \in V2Pools => b
                                  /\ states'[p] = PrimePool(StateOf(states, p), p, b)
  <2>1. p \in D
    BY <1>2, <1>9
  <2>2. QED
    BY <2>1, <1>2, <1>8
<1>10. ASSUME "prime" \notin happened', NEW p \in NeedPrime, price[p][1] # NoValue
       PROVE  p \in DOMAIN states' /\ states'[p] = PrimePool(StateOf(states, p), p, TRUE)
  <2>1. p \in D /\ (p \in balances) = TRUE
    BY <1>7, <1>10
  <2>2. states'[p] = PrimePool(StateOf(states, p), p, p \in balances)
    BY <2>1, <1>2
  <2>3. QED
    BY <2>1, <2>2, <1>2
<1>11. QED
  BY <1>2, <1>3, <1>5, <1>6, <1>9, <1>10

LEMMA ApplyDoes ==
    ASSUME EngineType, Apply
    PROVE  /\ at = "apply" /\ at' = "refresh"
           /\ states' = [p \in DOMAIN states' |-> states'[p]]
           /\ DOMAIN states' \subseteq Pools
           /\ \A p \in Pools : p \in DOMAIN states' <=> p \in DOMAIN states \/ Recorded(p)
           /\ \E known \in BOOLEAN :
                 /\ ethKnown => known
                 /\ known => ethKnown'
                 /\ \A p \in Pools : Recorded(p) => states'[p] = ApplyEvents(StateOf(states, p), p, known)
           /\ \A p \in DOMAIN states : ~Recorded(p) => states'[p] = states[p]
           /\ ethKnown' \in BOOLEAN
<1>1. PICK before \in BOOLEAN, after \in BOOLEAN :
          /\ states' = Put(states,
                [p \in {q \in Pools : Recorded(q)} |->
                    ApplyEvents(StateOf(states, p), p, ethKnown \/ before)])
          /\ ethKnown' = (ethKnown \/ before \/ after)
  BY DEF Apply
<1> DEFINE D == {q \in Pools : Recorded(q)}
           known == ethKnown \/ before
           new == [p \in D |-> ApplyEvents(StateOf(states, p), p, known)]
<1>2. /\ DOMAIN states' = DOMAIN states \cup D
      /\ states' = [p \in DOMAIN states' |-> states'[p]]
      /\ \A p \in D : states'[p] = ApplyEvents(StateOf(states, p), p, known)
      /\ \A p \in DOMAIN states : p \notin D => states'[p] = states[p]
  <2>1. DOMAIN new = D /\ \A p \in D : new[p] = ApplyEvents(StateOf(states, p), p, known)
    OBVIOUS
  <2>2. states' = Put(states, new)
    BY <1>1
  <2> HIDE DEF new, D
  <2>3. /\ DOMAIN Put(states, new) = DOMAIN states \cup DOMAIN new
        /\ Put(states, new) = [p \in DOMAIN Put(states, new) |-> Put(states, new)[p]]
        /\ \A p \in DOMAIN new : Put(states, new)[p] = new[p]
        /\ \A p \in DOMAIN states : p \notin DOMAIN new => Put(states, new)[p] = states[p]
    BY PutIs
  <2> HIDE DEF Put
  <2>4. QED
    BY <2>1, <2>2, <2>3
<1>3. DOMAIN states \subseteq Pools
  BY DEF EngineType, TypeOK
<1>4. /\ known \in BOOLEAN /\ (ethKnown => known) /\ (known => ethKnown') /\ ethKnown' \in BOOLEAN
  BY <1>1 DEF EngineType, TypeOK
<1>5. at = "apply" /\ at' = "refresh"
  BY DEF Apply
<1> HIDE DEF new, known
<1>6. \A p \in Pools : p \in D <=> Recorded(p)
  OBVIOUS
<1> HIDE DEF D
<1>7. \A p \in Pools : Recorded(p) => states'[p] = ApplyEvents(StateOf(states, p), p, known)
  BY <1>2, <1>6
<1>8. \A p \in DOMAIN states : ~Recorded(p) => states'[p] = states[p]
  BY <1>2, <1>3, <1>6
<1>9. /\ DOMAIN states' \subseteq Pools
      /\ \A p \in Pools : p \in DOMAIN states' <=> p \in DOMAIN states \/ Recorded(p)
  BY <1>2, <1>3, <1>6 DEF D
<1>10. QED
  BY <1>2, <1>4, <1>5, <1>7, <1>8, <1>9

LEMMA RefreshDoes ==
    ASSUME EngineType, Refresh
    PROVE  /\ at = "refresh" /\ at' = "evaluate" /\ todo' = TouchedPools
           /\ states' = [p \in DOMAIN states' |-> states'[p]]
           /\ DOMAIN states \subseteq DOMAIN states' /\ DOMAIN states' \subseteq Pools
           /\ \A p \in DOMAIN states' :
                 \/ p \in DOMAIN states /\ states'[p] = states[p]
                 \/ /\ p \in NeedRefresh /\ QuoteKnown(p, ethKnown)
                    /\ states'[p] = RecordLiquidity(StateOf(states, p), now, liquidity[p][0])
           /\ "refresh" \notin happened' => \A p \in NeedRefresh : QuoteKnown(p, ethKnown) =>
                 p \in DOMAIN states' /\ states'[p] = RecordLiquidity(StateOf(states, p), now, liquidity[p][0])
           /\ DOMAIN refreshedAt' \subseteq V3Pools
           /\ happened \subseteq happened' /\ happened' \subseteq FaultKinds
<1>1. PICK read \in SUBSET NeedRefresh :
          /\ \/ read = NeedRefresh /\ UNCHANGED happened
             \/ read # NeedRefresh /\ Fault("refresh")
          /\ refreshedAt' = [p \in DOMAIN refreshedAt \cup read |->
                                IF p \in read THEN now ELSE refreshedAt[p]]
          /\ states' = Put(states,
                [p \in {q \in read : QuoteKnown(q, ethKnown)} |->
                    RecordLiquidity(StateOf(states, p), now, liquidity[p][0])])
  BY DEF Refresh
<1> DEFINE D == {q \in read : QuoteKnown(q, ethKnown)}
           new == [p \in D |-> RecordLiquidity(StateOf(states, p), now, liquidity[p][0])]
<1>2. /\ DOMAIN states' = DOMAIN states \cup D
      /\ states' = [p \in DOMAIN states' |-> states'[p]]
      /\ \A p \in D : states'[p] = RecordLiquidity(StateOf(states, p), now, liquidity[p][0])
      /\ \A p \in DOMAIN states : p \notin D => states'[p] = states[p]
  <2>1. DOMAIN new = D /\ \A p \in D : new[p] = RecordLiquidity(StateOf(states, p), now, liquidity[p][0])
    OBVIOUS
  <2>2. states' = Put(states, new)
    BY <1>1
  <2> HIDE DEF new, D
  <2>3. /\ DOMAIN Put(states, new) = DOMAIN states \cup DOMAIN new
        /\ Put(states, new) = [p \in DOMAIN Put(states, new) |-> Put(states, new)[p]]
        /\ \A p \in DOMAIN new : Put(states, new)[p] = new[p]
        /\ \A p \in DOMAIN states : p \notin DOMAIN new => Put(states, new)[p] = states[p]
    BY PutIs
  <2> HIDE DEF Put
  <2>4. QED
    BY <2>1, <2>2, <2>3
<1>3. NeedRefresh \subseteq V3Pools /\ NeedRefresh \subseteq Pools /\ DOMAIN states \subseteq Pools
  BY Numbers DEF NeedRefresh, EngineType, TypeOK
<1>4. \A p \in D : p \in NeedRefresh /\ QuoteKnown(p, ethKnown)
  OBVIOUS
<1>5. ASSUME "refresh" \notin happened' PROVE \A p \in NeedRefresh : QuoteKnown(p, ethKnown) => p \in D
  BY <1>1, <1>5 DEF Fault
<1>6. happened \subseteq happened' /\ happened' \subseteq FaultKinds
  BY <1>1 DEF Fault, EngineType, TypeOK
<1>7. at = "refresh" /\ at' = "evaluate" /\ todo' = TouchedPools
  BY DEF Refresh
<1>8. DOMAIN refreshedAt' \subseteq V3Pools
  <2>1. DOMAIN refreshedAt' = DOMAIN refreshedAt \cup read
    BY <1>1
  <2>2. QED
    BY <2>1, <1>3 DEF EngineType, TypeOK
<1> HIDE DEF new, D
<1>9. QED
  BY <1>2, <1>3, <1>4, <1>5, <1>6, <1>7, <1>8

(* What is_candidate and evaluate do with the pool they are asked about,    *)
(* and what they leave alone.                                              *)
LEMMA JudgedDoes ==
    ASSUME EngineType, NEW p \in Pools, Dismiss(p) \/ Evaluate(p)
    PROVE  /\ at = "evaluate" /\ p \in todo /\ todo' = todo \ {p}
           /\ UNCHANGED <<chainVars, ops, at, ethKnown, refreshedAt, lastGc, runFrom>>
           /\ anchor' \in [block : Int, time : Int]
           /\ happened \subseteq happened' /\ happened' \subseteq FaultKinds
           /\ states' = [q \in DOMAIN states' |-> states'[q]] /\ DOMAIN states' = DOMAIN states
           /\ \A q \in DOMAIN states : q # p => states'[q] = states[q]
           /\ \/ /\ p \in DOMAIN states => states'[p] = Pruned(states[p], now)
                 /\ alerts' = alerts
                 /\ \/ ~IsCandidate(p)
                    \/ /\ p \in DOMAIN states
                       /\ \E t \in Int : /\ "time" \notin happened' => t = time
                                         /\ ~Fires(Pruned(states[p], now), t)
              \/ /\ p \in DOMAIN states
                 /\ \E t \in Int : /\ "time" \notin happened' => t = time
                                   /\ Fires(Pruned(states[p], now), t)
                                   /\ states'[p] = [Pruned(states[p], now) EXCEPT !.lastAlert = t]
                 /\ alerts' = alerts \cup {AlertOf(p, Pruned(states[p], now))}
<1>1. CASE Dismiss(p)
  <2>1. /\ at = "evaluate" /\ p \in todo /\ todo' = todo \ {p} /\ ~IsCandidate(p)
        /\ UNCHANGED <<chainVars, ops, at, ethKnown, refreshedAt, lastGc, anchor, alerts, runFrom, happened>>
    BY <1>1 DEF Dismiss
  <2>2. /\ states' = [q \in DOMAIN states' |-> states'[q]] /\ DOMAIN states' = DOMAIN states
        /\ \A q \in DOMAIN states : q # p => states'[q] = states[q]
        /\ p \in DOMAIN states => states'[p] = Pruned(states[p], now)
    <3>1. CASE p \in DOMAIN states
      <4> DEFINE x == Pruned(states[p], now)
      <4>1. states' = [states EXCEPT ![p] = x]
        BY <1>1, <3>1 DEF Dismiss
      <4> HIDE DEF x
      <4>2. states = [q \in DOMAIN states |-> states[q]]
        BY DEF EngineType
      <4>3. /\ states' = [q \in DOMAIN states' |-> states'[q]] /\ DOMAIN states' = DOMAIN states
            /\ \A q \in DOMAIN states : q # p => states'[q] = states[q]
            /\ states'[p] = x
        BY <3>1, <4>1, <4>2
      <4>4. QED
        BY <4>3 DEF x
    <3>2. CASE p \notin DOMAIN states
      BY <1>1, <3>2 DEF Dismiss, EngineType
    <3>3. QED
      BY <3>1, <3>2
  <2>3. happened' \subseteq FaultKinds /\ anchor' \in [block : Int, time : Int]
    BY <2>1 DEF EngineType, TypeOK
  <2>4. QED
    BY <2>1, <2>2, <2>3
<1>2. CASE Evaluate(p)
  <2> DEFINE x == Pruned(states[p], now)
             y(t) == [x EXCEPT !.lastAlert = t]
             a == AlertOf(p, x)
  <2>1. PICK t \in {time, time + CatchingUp, anchor.time + (now - anchor.block)} :
          /\ ReadTime(t) \/ EstimatedTime(t)
          /\ \/ Fires(x, t) /\ states' = [states EXCEPT ![p] = y(t)] /\ alerts' = alerts \cup {a}
             \/ ~Fires(x, t) /\ states' = [states EXCEPT ![p] = x] /\ UNCHANGED alerts
    BY <1>2 DEF Evaluate
  <2>2. /\ at = "evaluate" /\ p \in todo /\ todo' = todo \ {p} /\ p \in DOMAIN states
        /\ UNCHANGED <<chainVars, ops, at, ethKnown, refreshedAt, lastGc, runFrom>>
    BY <1>2 DEF Evaluate, IsCandidate
  <2>3. time \in Nat /\ now \in Int /\ anchor \in [block : Int, time : Int] /\ CatchingUp \in Nat
    BY ChainIs, Numbers DEF EngineType, TypeOK
  <2>4. t \in Int
    BY <2>1, <2>3
  <2>5. /\ "time" \notin happened' => t = time
        /\ anchor' \in [block : Int, time : Int]
        /\ happened \subseteq happened' /\ happened' \subseteq FaultKinds
    <3>1. CASE ReadTime(t)
      BY <2>3, <3>1 DEF ReadTime, EngineType, TypeOK
    <3>2. CASE EstimatedTime(t)
      BY <2>3, <3>2 DEF EstimatedTime, Fault, EngineType, TypeOK
    <3>3. QED
      BY <2>1, <3>1, <3>2
  <2>6. states = [q \in DOMAIN states |-> states[q]]
    BY DEF EngineType
  <2>7. ASSUME NEW z, states' = [states EXCEPT ![p] = z]
        PROVE  /\ states' = [q \in DOMAIN states' |-> states'[q]] /\ DOMAIN states' = DOMAIN states
               /\ \A q \in DOMAIN states : q # p => states'[q] = states[q]
               /\ states'[p] = z
    BY <2>2, <2>6, <2>7
  <2> HIDE DEF x, y, a
  <2>8. CASE Fires(x, t) /\ states' = [states EXCEPT ![p] = y(t)] /\ alerts' = alerts \cup {a}
    <3>1. /\ states' = [q \in DOMAIN states' |-> states'[q]] /\ DOMAIN states' = DOMAIN states
          /\ \A q \in DOMAIN states : q # p => states'[q] = states[q]
          /\ states'[p] = y(t)
      BY <2>7, <2>8
    <3>2. \E t_1 \in Int : /\ "time" \notin happened' => t_1 = time
                           /\ Fires(x, t_1) /\ states'[p] = y(t_1)
      BY <3>1, <2>4, <2>5, <2>8
    <3>3. QED
      BY <2>2, <2>5, <2>8, <3>1, <3>2 DEF x, y, a
  <2>9. CASE ~Fires(x, t) /\ states' = [states EXCEPT ![p] = x] /\ UNCHANGED alerts
    <3>1. /\ states' = [q \in DOMAIN states' |-> states'[q]] /\ DOMAIN states' = DOMAIN states
          /\ \A q \in DOMAIN states : q # p => states'[q] = states[q]
          /\ states'[p] = x
      BY <2>7, <2>9
    <3>2. \E t_1 \in Int : /\ "time" \notin happened' => t_1 = time
                           /\ ~Fires(x, t_1)
      BY <2>4, <2>5, <2>9
    <3>3. QED
      BY <2>2, <2>5, <2>9, <3>1, <3>2 DEF x
  <2>10. QED
    BY <2>1, <2>8, <2>9
<1>3. QED
  BY <1>1, <1>2

(* gc() leaves out whole states.                                           *)
LEMMA FinishDoes ==
    ASSUME EngineType, Finish
    PROVE  /\ at = "evaluate" /\ at' = "idle" /\ todo = {} /\ lastGc' \in {lastGc, now}
           /\ UNCHANGED <<chainVars, ethKnown, anchor, todo, alerts, runFrom, happened>>
           /\ ops' = [p \in Pools |-> <<>>]
           /\ states' = [p \in DOMAIN states' |-> states'[p]] /\ DOMAIN states' \subseteq DOMAIN states
           /\ \A p \in DOMAIN states' : states'[p] = states[p]
           /\ \A p \in DOMAIN states \ DOMAIN states' : Stale(states[p], now)
           /\ DOMAIN refreshedAt' \subseteq DOMAIN refreshedAt
<1>1. /\ at = "evaluate" /\ at' = "idle" /\ todo = {} /\ ops' = [p \in Pools |-> <<>>]
      /\ UNCHANGED <<chainVars, ethKnown, anchor, todo, alerts, runFrom, happened>>
  BY DEF Finish
<1>2. CASE lastGc' = now /\ refreshedAt' = Restrict(refreshedAt, DOMAIN refreshedAt \cap DOMAIN states)
           /\ states' = Gc(states, now)
  <2> DEFINE D == {p \in DOMAIN states : ~Stale(states[p], now)}
  <2>1. states' = [p \in D |-> states[p]]
    BY <1>2 DEF Gc, Restrict
  <2>2. DOMAIN states' = D /\ states' = [p \in DOMAIN states' |-> states'[p]]
        /\ \A p \in D : states'[p] = states[p]
    BY <2>1
  <2>3. DOMAIN refreshedAt' \subseteq DOMAIN refreshedAt
    BY <1>2 DEF Restrict
  <2>4. QED
    BY <1>1, <1>2, <2>2, <2>3
<1>3. CASE lastGc' = lastGc /\ refreshedAt' = refreshedAt /\ states' = states
  BY <1>1, <1>3 DEF EngineType
<1>4. QED
  BY <1>2, <1>3 DEF Finish

-----------------------------------------------------------------------------
(* Type correctness.                                                       *)

LEMMA TypeInit == Init => EngineType
<1> SUFFICES ASSUME Init PROVE EngineType
  OBVIOUS
<1>1. PICK v \in [Pools -> (Prices \X Liquidities) \cup {<<NoValue, NoValue>>}] :
          /\ price = [p \in Pools |-> [k \in Back |-> v[p][1]]]
          /\ liquidity = [p \in Pools |-> [k \in Back |-> v[p][2]]]
  BY DEF Init
<1>2. \A p \in Pools : v[p][1] \in Prices \cup {NoValue} /\ v[p][2] \in Liquidities \cup {NoValue}
  <2> SUFFICES ASSUME NEW p \in Pools
               PROVE  v[p][1] \in Prices \cup {NoValue} /\ v[p][2] \in Liquidities \cup {NoValue}
    OBVIOUS
  <2>1. v[p] \in (Prices \X Liquidities) \cup {<<NoValue, NoValue>>}
    OBVIOUS
  <2>2. CASE v[p] \in Prices \X Liquidities
    BY <2>2
  <2>3. CASE v[p] = <<NoValue, NoValue>>
    BY <2>3
  <2>4. QED
    BY <2>1, <2>2, <2>3
<1>3. /\ price \in [Pools -> [Back -> Prices \cup {NoValue}]]
      /\ liquidity \in [Pools -> [Back -> Liquidities \cup {NoValue}]]
  BY <1>1, <1>2
<1>4. burnt \in [Pools -> SUBSET Back]
  BY DEF Init
<1>5. ops \in [Pools -> Seq(Op)] /\ \A p \in Pools : \A i \in DOMAIN ops[p] : ops[p][i] \in Op
  <2>1. ops = [p \in Pools |-> <<>>] /\ <<>> \in Seq(Op)
    BY DEF Init
  <2>2. ops \in [Pools -> Seq(Op)]
    BY <2>1
  <2>3. QED
    BY <2>1, <2>2
<1>6. /\ states = [p \in DOMAIN states |-> states[p]] /\ DOMAIN states = {} /\ DOMAIN refreshedAt = {}
  BY DEF Init
<1>7. anchor \in [block : Int, time : Int]
  BY DEF Init, NoAnchor, NoTime
<1>8. /\ now \in FirstBlock - 1 .. MaxBlock /\ lastGc \in 0 .. now /\ time \in Nat
      /\ runFrom \in FirstBlock .. MaxBlock + 1 /\ happened \subseteq FaultKinds
      /\ at \in {"idle", "eth", "prime", "apply", "refresh", "evaluate"} /\ at = "idle"
      /\ ethKnown \in BOOLEAN /\ todo = {}
  <2>1. /\ now = FirstBlock - 1 /\ lastGc = 0 /\ time = 0 /\ runFrom = FirstBlock /\ happened = {}
        /\ at = "idle" /\ ethKnown = FALSE /\ todo = {}
    BY DEF Init
  <2>2. /\ now \in FirstBlock - 1 .. MaxBlock /\ lastGc \in 0 .. now /\ time \in Nat
        /\ runFrom \in FirstBlock .. MaxBlock + 1
    BY <2>1, Numbers
  <2>3. QED
    BY <2>1, <2>2
<1>9. TypeOK
  BY <1>3, <1>4, <1>5, <1>6, <1>8 DEF TypeOK
<1>10. QED
  BY <1>5, <1>6, <1>7, <1>8, <1>9 DEF EngineType

LEMMA BlockType == EngineType /\ (Begin \/ EmptyBlock \/ SkipBlock) => EngineType'
<1> SUFFICES ASSUME EngineType, Begin \/ EmptyBlock \/ SkipBlock PROVE EngineType'
  OBVIOUS
<1>1. /\ at = "idle" /\ at' \in {"idle", "eth"} /\ happened' \subseteq FaultKinds
      /\ UNCHANGED <<engineVars, todo, alerts, runFrom>>
  BY DEF Begin, EmptyBlock, SkipBlock, Fault, EngineType, TypeOK
<1>2. PICK chosen \in BlockChoices : NextBlock(chosen) /\ (ops' = chosen \/ ops' = ops)
  BY DEF Begin, EmptyBlock, SkipBlock
<1>3. ops' \in [Pools -> Seq(Op)]
  BY <1>2, ChosenIs DEF EngineType
<1>4. QED
  BY <1>1, <1>2, <1>3, ChainType

LEMMA BootstrapType == EngineType /\ Bootstrap => EngineType'
<1> SUFFICES ASSUME EngineType, Bootstrap PROVE EngineType'
  OBVIOUS
<1>1. /\ at = "eth" /\ at' = "prime" /\ ethKnown' \in BOOLEAN /\ happened' \subseteq FaultKinds
      /\ UNCHANGED <<chainVars, ops, states, refreshedAt, lastGc, anchor, todo, alerts, runFrom>>
  BY DEF Bootstrap, Fault, EngineType, TypeOK
<1>2. /\ todo = {} /\ ops' \in [Pools -> Seq(Op)] /\ DOMAIN refreshedAt' \subseteq V3Pools
      /\ lastGc' \in 0 .. now /\ anchor' \in [block : Int, time : Int]
      /\ states' = [p \in DOMAIN states' |-> states'[p]] /\ DOMAIN states' \subseteq Pools
  BY <1>1 DEF EngineType, TypeOK
<1>3. \A p \in DOMAIN states' :
          /\ states'[p] \in PoolStates
          /\ states'[p].price.current \in Prices \cup {NoValue}
          /\ states'[p].liquidity.current \in Liquidities \cup {NoValue}
          /\ states'[p].lastBlock \in {0} \cup (FirstBlock .. now)
  BY <1>1 DEF EngineType, TypeOK
<1>4. QED
  BY <1>1, <1>2, <1>3, StatesType

LEMMA PrimeType == EngineType /\ Prime => EngineType'
<1> SUFFICES ASSUME EngineType, Prime PROVE EngineType'
  OBVIOUS
<1>1. /\ at = "prime" /\ at' = "apply" /\ happened' \subseteq FaultKinds
      /\ UNCHANGED <<chainVars, ops, ethKnown, refreshedAt, lastGc, anchor, todo, alerts, runFrom>>
      /\ states' = [p \in DOMAIN states' |-> states'[p]] /\ DOMAIN states' \subseteq Pools
      /\ \A p \in DOMAIN states' :
            \/ p \in DOMAIN states /\ states'[p] = states[p]
            \/ /\ p \in NeedPrime /\ price[p][1] # NoValue
               /\ \E b \in BOOLEAN : states'[p] = PrimePool(StateOf(states, p), p, b)
  BY PrimeDoes DEF Prime
<1>2. /\ todo = {} /\ ops' \in [Pools -> Seq(Op)] /\ DOMAIN refreshedAt' \subseteq V3Pools
      /\ lastGc' \in 0 .. now /\ anchor' \in [block : Int, time : Int] /\ ethKnown' \in BOOLEAN
  BY <1>1 DEF EngineType, TypeOK
<1>3. ASSUME NEW p \in DOMAIN states'
      PROVE  /\ states'[p] \in PoolStates
             /\ states'[p].price.current \in Prices \cup {NoValue}
             /\ states'[p].liquidity.current \in Liquidities \cup {NoValue}
             /\ states'[p].lastBlock \in {0} \cup (FirstBlock .. now)
  <2>1. CASE p \in DOMAIN states /\ states'[p] = states[p]
    BY <2>1 DEF EngineType, TypeOK
  <2>2. CASE \E b \in BOOLEAN : states'[p] = PrimePool(StateOf(states, p), p, b)
    <3>1. PICK b \in BOOLEAN : states'[p] = PrimePool(StateOf(states, p), p, b)
      BY <2>2
    <3> DEFINE st == StateOf(states, p)
               t == PrimePool(st, p, b)
    <3>2. /\ st \in PoolStates /\ st.price.current \in Prices \cup {NoValue}
          /\ st.liquidity.current \in Liquidities \cup {NoValue}
          /\ st.lastBlock \in {0} \cup (FirstBlock .. now)
      BY StateOfIs
    <3>3. p \in Pools
      BY <1>1
    <3>4. /\ price[p][1] \in Prices \cup {NoValue} /\ liquidity[p][1] \in Liquidities \cup {NoValue}
          /\ price[p][1] \in Int /\ liquidity[p][1] \in Int /\ now - 1 \in Int
      BY <3>3, ChainIs
    <3>5. /\ t \in PoolStates
          /\ t.price = IF st.price.current = NoValue THEN Add(st.price, now - 1, price[p][1]) ELSE st.price
          /\ t.liquidity = IF b /\ QuoteKnown(p, ethKnown)
                             THEN Add(st.liquidity, now - 1, liquidity[p][1]) ELSE st.liquidity
          /\ t.lastBlock = st.lastBlock
      BY <3>2, <3>3, PrimePoolIs
    <3>6. /\ Add(st.price, now - 1, price[p][1]).current = price[p][1]
          /\ Add(st.liquidity, now - 1, liquidity[p][1]).current = liquidity[p][1]
      <4> DEFINE a == st.price
                 c == st.liquidity
      <4>1. a \in Series /\ c \in Series
        BY <3>2, PartsOf
      <4> HIDE DEF a, c
      <4>2. Add(a, now - 1, price[p][1]).current = price[p][1]
        BY <3>4, <4>1, AddIs
      <4>3. Add(c, now - 1, liquidity[p][1]).current = liquidity[p][1]
        BY <3>4, <4>1, AddIs
      <4>4. QED
        BY <4>2, <4>3 DEF a, c
    <3> HIDE DEF st, t
    <3>7. /\ t.price.current \in Prices \cup {NoValue} /\ t.liquidity.current \in Liquidities \cup {NoValue}
      BY <3>2, <3>4, <3>5, <3>6
    <3>8. QED
      BY <3>1, <3>2, <3>5, <3>7 DEF st, t
  <2>3. QED
    BY <1>1, <2>1, <2>2
<1>4. QED
  BY <1>1, <1>2, <1>3, StatesType

LEMMA ApplyType == EngineType /\ Apply => EngineType'
<1> SUFFICES ASSUME EngineType, Apply PROVE EngineType'
  OBVIOUS
<1>1. PICK known \in BOOLEAN :
          /\ ethKnown => known
          /\ known => ethKnown'
          /\ \A p \in Pools : Recorded(p) => states'[p] = ApplyEvents(StateOf(states, p), p, known)
  BY ApplyDoes
<1>2. /\ at = "apply" /\ at' = "refresh" /\ ethKnown' \in BOOLEAN
      /\ UNCHANGED <<chainVars, ops, refreshedAt, lastGc, anchor, todo, alerts, runFrom, happened>>
      /\ states' = [p \in DOMAIN states' |-> states'[p]] /\ DOMAIN states' \subseteq Pools
      /\ \A p \in Pools : p \in DOMAIN states' <=> p \in DOMAIN states \/ Recorded(p)
      /\ \A p \in DOMAIN states : ~Recorded(p) => states'[p] = states[p]
  BY ApplyDoes DEF Apply
<1>3. /\ todo = {} /\ ops' \in [Pools -> Seq(Op)] /\ DOMAIN refreshedAt' \subseteq V3Pools
      /\ lastGc' \in 0 .. now /\ anchor' \in [block : Int, time : Int] /\ happened' \subseteq FaultKinds
  BY <1>2 DEF EngineType, TypeOK
<1>4. ASSUME NEW p \in DOMAIN states'
      PROVE  /\ states'[p] \in PoolStates
             /\ states'[p].price.current \in Prices \cup {NoValue}
             /\ states'[p].liquidity.current \in Liquidities \cup {NoValue}
             /\ states'[p].lastBlock \in {0} \cup (FirstBlock .. now)
  <2>0. p \in Pools
    BY <1>2
  <2>1. CASE ~Recorded(p)
    BY <1>2, <2>0, <2>1 DEF EngineType, TypeOK
  <2>2. CASE Recorded(p)
    <3> DEFINE st == StateOf(states, p)
               t == ApplyEvents(st, p, known)
               A == Where(ops[p], Pricing(p)) = {}
               B == p \in V2Pools /\ QuoteKnown(p, known)
               x == LastOf(ops[p], Pricing(p)).price
               y == LastOf(ops[p], Emitting).liquidity
    <3>2. /\ st \in PoolStates /\ st.price.current \in Prices \cup {NoValue}
          /\ st.liquidity.current \in Liquidities \cup {NoValue}
          /\ st.lastBlock \in {0} \cup (FirstBlock .. now)
      BY StateOfIs
    <3>3. now \in FirstBlock .. MaxBlock /\ FirstBlock \in Nat /\ st.lastBlock <= now
      BY <1>2, <3>2, Numbers, SMTT(60) DEF EngineType, TypeOK
    <3>4. /\ ~A => x \in Prices /\ x \in Int
          /\ y \in Liquidities /\ y \in Int
      <4>1. ops[p] \in Seq(Op)
        BY <2>0 DEF EngineType
      <4>2. Where(ops[p], Emitting) # {}
        BY <2>2 DEF Recorded, Where, Emitting
      <4>3. LastOf(ops[p], Emitting) \in Op /\ (~A => LastOf(ops[p], Pricing(p)) \in Op)
        BY <4>1, <4>2, WhereIs
      <4>4. QED
        BY <4>3, OpIs
    <3>5. /\ t \in PoolStates
          /\ t.price = IF A THEN st.price ELSE Add(st.price, now, x)
          /\ t.liquidity = IF B THEN Add(st.liquidity, now, y) ELSE st.liquidity
          /\ t.lastBlock = now
      BY <3>2, <3>3, <2>0, <2>2, ApplyEventsIs, ZenonT(60)
    <3> HIDE DEF A, B, x, y
    <3>6. /\ ~A => Add(st.price, now, x).current = x
          /\ Add(st.liquidity, now, y).current = y
      <4>1. st.price \in Series /\ st.liquidity \in Series /\ now \in Int
        BY <3>2, <3>3, PartsOf
      <4> DEFINE a == st.price
                 b == st.liquidity
      <4> HIDE DEF a, b
      <4>2. ASSUME ~A PROVE Add(a, now, x).current = x
        BY <3>4, <4>1, <4>2, AddIs DEF a
      <4>3. Add(b, now, y).current = y
        BY <3>4, <4>1, AddIs DEF b
      <4>4. QED
        BY <4>2, <4>3 DEF a, b
    <3>7. states'[p] = t
      BY <1>1, <2>0, <2>2
    <3> HIDE DEF st, t
    <3>8. /\ t.price.current \in Prices \cup {NoValue} /\ t.liquidity.current \in Liquidities \cup {NoValue}
      BY <3>2, <3>4, <3>5, <3>6
    <3>9. QED
      BY <3>3, <3>5, <3>7, <3>8
  <2>3. QED
    BY <2>1, <2>2
<1>5. QED
  BY <1>2, <1>3, <1>4, StatesType

LEMMA RefreshType == EngineType /\ Refresh => EngineType'
<1> SUFFICES ASSUME EngineType, Refresh PROVE EngineType'
  OBVIOUS
<1>1. /\ at = "refresh" /\ at' = "evaluate" /\ todo' = TouchedPools /\ happened' \subseteq FaultKinds
      /\ UNCHANGED <<chainVars, ops, ethKnown, lastGc, anchor, alerts, runFrom>>
      /\ states' = [p \in DOMAIN states' |-> states'[p]] /\ DOMAIN states' \subseteq Pools
      /\ \A p \in DOMAIN states' :
            \/ p \in DOMAIN states /\ states'[p] = states[p]
            \/ /\ p \in NeedRefresh /\ QuoteKnown(p, ethKnown)
               /\ states'[p] = RecordLiquidity(StateOf(states, p), now, liquidity[p][0])
      /\ DOMAIN refreshedAt' \subseteq V3Pools
  BY RefreshDoes DEF Refresh
<1>2. /\ todo' \subseteq Pools /\ ops' \in [Pools -> Seq(Op)]
      /\ lastGc' \in 0 .. now /\ anchor' \in [block : Int, time : Int] /\ ethKnown' \in BOOLEAN
  BY <1>1 DEF EngineType, TypeOK, TouchedPools
<1>3. ASSUME NEW p \in DOMAIN states'
      PROVE  /\ states'[p] \in PoolStates
             /\ states'[p].price.current \in Prices \cup {NoValue}
             /\ states'[p].liquidity.current \in Liquidities \cup {NoValue}
             /\ states'[p].lastBlock \in {0} \cup (FirstBlock .. now)
  <2>1. CASE p \in DOMAIN states /\ states'[p] = states[p]
    BY <2>1 DEF EngineType, TypeOK
  <2>2. CASE states'[p] = RecordLiquidity(StateOf(states, p), now, liquidity[p][0])
    <3> DEFINE st == StateOf(states, p)
               y == liquidity[p][0]
               t == RecordLiquidity(st, now, y)
    <3>2. /\ st \in PoolStates /\ st.price.current \in Prices \cup {NoValue}
          /\ st.lastBlock \in {0} \cup (FirstBlock .. now)
      BY StateOfIs
    <3>3. y \in Liquidities \cup {NoValue} /\ y \in Int /\ now \in Int
      BY <1>1, ChainIs
    <3>4. st.liquidity \in Series
      BY <3>2, PartsOf
    <3> HIDE DEF st, y
    <3>5. /\ t \in PoolStates /\ t.price = st.price /\ t.liquidity = Add(st.liquidity, now, y)
          /\ t.lastBlock = st.lastBlock
      BY <3>2, <3>3, RecordLiquidityIs
    <3>6. Add(st.liquidity, now, y).current = y
      BY <3>3, <3>4, AddIs
    <3>7. states'[p] = t
      BY <2>2 DEF st, y
    <3> HIDE DEF t
    <3>8. QED
      BY <3>2, <3>3, <3>5, <3>6, <3>7
  <2>3. QED
    BY <1>1, <2>1, <2>2
<1>4. QED
  BY <1>1, <1>2, <1>3, StatesType

LEMMA JudgedType == \A p \in Pools : EngineType /\ (Dismiss(p) \/ Evaluate(p)) => EngineType'
<1> SUFFICES ASSUME NEW p \in Pools, EngineType, Dismiss(p) \/ Evaluate(p) PROVE EngineType'
  OBVIOUS
<1>1. /\ at = "evaluate" /\ todo' = todo \ {p}
      /\ UNCHANGED <<chainVars, ops, at, ethKnown, refreshedAt, lastGc, runFrom>>
      /\ anchor' \in [block : Int, time : Int] /\ happened' \subseteq FaultKinds
      /\ states' = [q \in DOMAIN states' |-> states'[q]] /\ DOMAIN states' = DOMAIN states
      /\ \A q \in DOMAIN states : q # p => states'[q] = states[q]
      /\ p \in DOMAIN states => \/ states'[p] = Pruned(states[p], now)
                                \/ \E t \in Int : states'[p] = [Pruned(states[p], now) EXCEPT !.lastAlert = t]
  BY JudgedDoes
<1>2. /\ todo' \subseteq Pools /\ ops' \in [Pools -> Seq(Op)] /\ DOMAIN refreshedAt' \subseteq V3Pools
      /\ lastGc' \in 0 .. now /\ ethKnown' \in BOOLEAN /\ DOMAIN states' \subseteq Pools
      /\ at' = "evaluate"
  BY <1>1 DEF EngineType, TypeOK
<1>3. ASSUME NEW q \in DOMAIN states'
      PROVE  /\ states'[q] \in PoolStates
             /\ states'[q].price.current \in Prices \cup {NoValue}
             /\ states'[q].liquidity.current \in Liquidities \cup {NoValue}
             /\ states'[q].lastBlock \in {0} \cup (FirstBlock .. now)
  <2>1. CASE q # p
    BY <1>1, <2>1 DEF EngineType, TypeOK
  <2>2. CASE q = p
    <3> DEFINE st == states[p]
               t == Pruned(st, now)
    <3>1. /\ st \in PoolStates /\ st.price.current \in Prices \cup {NoValue}
          /\ st.liquidity.current \in Liquidities \cup {NoValue}
          /\ st.lastBlock \in {0} \cup (FirstBlock .. now)
      BY <1>1, <2>2 DEF EngineType, TypeOK
    <3>2. now \in Int
      BY ChainIs
    <3> HIDE DEF st
    <3>3. /\ t \in PoolStates /\ t.lastBlock = st.lastBlock
          /\ t.price.current = st.price.current /\ t.liquidity.current = st.liquidity.current
      BY <3>1, <3>2, PrunedIs
    <3>4. states'[p] = t \/ \E x \in Int : states'[p] = [t EXCEPT !.lastAlert = x]
      BY <1>1, <2>2 DEF st
    <3> HIDE DEF t
    <3>5. CASE states'[p] = t
      BY <2>2, <3>1, <3>3, <3>5
    <3>6. CASE \E x \in Int : states'[p] = [t EXCEPT !.lastAlert = x]
      <4>1. PICK x \in Int : states'[p] = [t EXCEPT !.lastAlert = x]
        BY <3>6
      <4>2. [t EXCEPT !.lastAlert = x] \in PoolStates
        BY <3>3 DEF PoolStates
      <4>3. /\ [t EXCEPT !.lastAlert = x].price = t.price
            /\ [t EXCEPT !.lastAlert = x].liquidity = t.liquidity
            /\ [t EXCEPT !.lastAlert = x].lastBlock = t.lastBlock
        BY <3>3 DEF PoolStates
      <4>4. QED
        BY <2>2, <3>1, <3>3, <4>1, <4>2, <4>3
    <3>7. QED
      BY <3>4, <3>5, <3>6
  <2>3. QED
    BY <2>1, <2>2
<1>4. todo' # {} => at' = "evaluate"
  BY <1>2
<1>5. QED
  BY <1>1, <1>2, <1>3, <1>4, StatesType

LEMMA FinishType == EngineType /\ Finish => EngineType'
<1> SUFFICES ASSUME EngineType, Finish PROVE EngineType'
  OBVIOUS
<1>1. /\ at = "evaluate" /\ at' = "idle" /\ todo' = {} /\ lastGc' \in {lastGc, now}
      /\ UNCHANGED <<chainVars, ethKnown, anchor, alerts, runFrom, happened>>
      /\ ops' = [p \in Pools |-> <<>>]
      /\ states' = [p \in DOMAIN states' |-> states'[p]] /\ DOMAIN states' \subseteq DOMAIN states
      /\ \A p \in DOMAIN states' : states'[p] = states[p]
      /\ DOMAIN refreshedAt' \subseteq DOMAIN refreshedAt
  BY FinishDoes
<1>2. ops' \in [Pools -> Seq(Op)]
  <2>1. <<>> \in Seq(Op)
    OBVIOUS
  <2>2. QED
    BY <1>1, <2>1
<1>3. now \in Nat
  BY Numbers DEF EngineType, TypeOK
<1>4. /\ DOMAIN refreshedAt' \subseteq V3Pools /\ ethKnown' \in BOOLEAN /\ DOMAIN states' \subseteq Pools
      /\ lastGc' \in 0 .. now /\ anchor' \in [block : Int, time : Int] /\ happened' \subseteq FaultKinds
  BY <1>1, <1>3 DEF EngineType, TypeOK
<1>5. \A p \in DOMAIN states' :
          /\ states'[p] \in PoolStates
          /\ states'[p].price.current \in Prices \cup {NoValue}
          /\ states'[p].liquidity.current \in Liquidities \cup {NoValue}
          /\ states'[p].lastBlock \in {0} \cup (FirstBlock .. now)
  BY <1>1 DEF EngineType, TypeOK
<1>6. QED
  BY <1>1, <1>2, <1>4, <1>5, StatesType

LEMMA RestartType == EngineType /\ Restart => EngineType'
<1> SUFFICES ASSUME EngineType, Restart PROVE EngineType'
  OBVIOUS
<1>1. /\ states' = <<>> /\ ethKnown' = FALSE /\ refreshedAt' = <<>> /\ lastGc' = 0 /\ anchor' = NoAnchor
      /\ todo' = {} /\ happened' \subseteq FaultKinds
      /\ UNCHANGED <<chainVars, ops, alerts>>
      /\ \/ at = "idle" /\ runFrom' = now + 1 /\ UNCHANGED at
         \/ at # "idle" /\ runFrom' = now /\ at' = "eth"
  BY DEF Restart, Fault, EngineType, TypeOK
<1>2. /\ now \in FirstBlock - 1 .. MaxBlock /\ (at # "idle" => now >= FirstBlock)
      /\ FirstBlock \in Nat /\ FirstBlock >= 1 /\ MaxBlock \in Nat
  BY Numbers DEF EngineType, TypeOK
<1>3. runFrom' \in FirstBlock .. MaxBlock + 1 /\ lastGc' \in 0 .. now' /\ now' = now
      /\ (at' # "idle" => now' >= FirstBlock)
  BY <1>1, <1>2 DEF chainVars
<1>4. DOMAIN states' = {} /\ DOMAIN refreshedAt' = {} /\ states' = [p \in DOMAIN states' |-> states'[p]]
  BY <1>1
<1>5. anchor' \in [block : Int, time : Int]
  BY <1>1 DEF NoAnchor, NoTime
<1>6. /\ time' = time /\ price' = price /\ liquidity' = liquidity /\ burnt' = burnt /\ ops' = ops
      /\ at' \in {"idle", "eth"} /\ ethKnown' \in BOOLEAN /\ todo' = {} /\ happened' \subseteq FaultKinds
  BY <1>1 DEF chainVars
<1>7. TypeOK'
  BY <1>3, <1>4, <1>6 DEF EngineType, TypeOK
<1>8. QED
  BY <1>3, <1>4, <1>5, <1>6, <1>7 DEF EngineType

LEMMA TypeStep == EngineType /\ [Next]_vars => EngineType'
<1> SUFFICES ASSUME EngineType, [Next]_vars PROVE EngineType'
  OBVIOUS
<1>1. CASE UNCHANGED vars
  BY <1>1 DEF vars, chainVars, engineVars, EngineType, TypeOK
<1>2. CASE Wait
  BY <1>1, <1>2 DEF Wait
<1>3. CASE Next /\ ~Wait
  BY <1>3, BlockType, BootstrapType, PrimeType, ApplyType, RefreshType, JudgedType, FinishType, RestartType
     DEF Next
<1>4. QED
  BY <1>1, <1>2, <1>3

LEMMA TypeInvariant == Spec => []EngineType
<1>1. QED
  BY TypeInit, TypeStep, PTL DEF Spec

(* Every variable keeps its type (Engine: states of tracked pools only,    *)
(* blocks and time stamps within bounds).                                  *)
THEOREM TypeCorrect == Spec => []TypeOK
<1>1. EngineType => TypeOK
  BY DEF EngineType
<1>2. QED
  BY <1>1, TypeInvariant, PTL

-----------------------------------------------------------------------------
(* What the operations of a block leave behind.                            *)

LEMMA LegalIs ==
    ASSUME EngineType, NEW p \in Pools, NEW s \in Seq(Op), Legal(p, s)
    PROVE  /\ Where(s, {"swap"}) = {} /\ s # <<>> => Last(s).price = price[p][0]
           /\ Where(s, {"swap"}) # {} => s # <<>> /\ Last(s).price = LastOf(s, {"swap"}).price
           /\ s # <<>> /\ price[p][0] = NoValue => Where(s, {"swap"}) # {}
           /\ p \in V2Pools /\ s # <<>> =>
                 Where(s, {"swap", "burn"}) # {} /\ LastOf(s, Emitting) = Last(s)
           /\ s # <<>> => Last(s).price \in Prices /\ Last(s).liquidity \in Liquidities
<1> DEFINE W == Where(s, {"swap"})
           n == Len(s)
<1>1. /\ n \in Nat /\ W \in SUBSET (1 .. n)
      /\ \A i \in 1 .. n : s[i] \in Op
      /\ \A i \in 1 .. n : i \in W <=> s[i].kind = "swap"
      /\ W # {} => Max(W) \in W /\ \A i \in W : i <= Max(W)
  BY WhereIs
<1>2. /\ s # <<>> => n \in 1 .. n /\ Last(s) = s[n]
      /\ W # {} => s # <<>>
  BY <1>1 DEF Last
<1>3. ASSUME NEW i \in 1 .. n, s[i].kind # "swap" PROVE s[i].price = PriceBefore(p, s, i)
  BY <1>3 DEF Legal
<1>4. ASSUME W = {}, NEW i \in 1 .. n PROVE s[i].price = price[p][0]
  <2>1. {j \in 1 .. i - 1 : s[j].kind = "swap"} = {}
    BY <1>1, <1>4
  <2>2. s[i].kind # "swap"
    BY <1>1, <1>4
  <2>3. QED
    BY <1>3, <2>1, <2>2 DEF PriceBefore
<1>5. ASSUME W # {} PROVE Last(s).price = LastOf(s, {"swap"}).price
  <2>1. CASE n \in W
    <3>1. Max(W) = n
      BY <1>1, <2>1
    <3>2. QED
      BY <1>2, <1>5, <3>1 DEF LastOf
  <2>2. CASE n \notin W
    <3>1. n \in 1 .. n /\ s[n].kind # "swap"
      BY <1>1, <1>2, <1>5, <2>2
    <3>2. {j \in 1 .. n - 1 : s[j].kind = "swap"} = W
      <4>1. \A j \in W : j # n /\ j \in 1 .. n
        BY <1>1, <2>2
      <4>2. QED
        BY <1>1, <4>1
    <3>3. PriceBefore(p, s, n) = s[Max(W)].price
      BY <1>5, <3>2 DEF PriceBefore
    <3>4. QED
      BY <1>2, <1>3, <1>5, <3>1, <3>3 DEF LastOf
  <2>3. QED
    BY <2>1, <2>2
<1>6. ASSUME s # <<>>, price[p][0] = NoValue PROVE W # {}
  <2>1. 1 \in 1 .. n /\ s[1] \in Op
    BY <1>1, <1>6
  <2>2. s[1].price # NoValue
    BY <2>1, OpIs
  <2>3. QED
    BY <1>4, <1>6, <2>1, <2>2
<1>7. ASSUME p \in V2Pools, s # <<>>
      PROVE  Where(s, {"swap", "burn"}) # {} /\ LastOf(s, Emitting) = Last(s)
  <2>1. \A i \in 1 .. n : s[i].kind \in {"swap", "burn"}
    BY <1>7 DEF Legal
  <2>2. n \in Where(s, {"swap", "burn"}) /\ n \in Where(s, Emitting)
    BY <1>1, <1>2, <1>7, <2>1 DEF Where, Emitting
  <2>3. Max(Where(s, Emitting)) = n
    <3>1. /\ Where(s, Emitting) \in SUBSET (1 .. n)
          /\ Where(s, Emitting) # {} => Max(Where(s, Emitting)) \in Where(s, Emitting)
                                        /\ \A i \in Where(s, Emitting) : i <= Max(Where(s, Emitting))
      BY WhereIs
    <3> DEFINE x == Max(Where(s, Emitting))
    <3>2. x \in 1 .. n /\ n <= x
      BY <2>2, <3>1
    <3> HIDE DEF x
    <3>3. x = n
      BY <1>1, <3>2
    <3>4. QED
      BY <3>3 DEF x
  <2>4. QED
    BY <1>2, <1>7, <2>2, <2>3 DEF LastOf
<1>8. s # <<>> => Last(s).price \in Prices /\ Last(s).liquidity \in Liquidities
  BY <1>1, <1>2, OpIs
<1>9. W = {} /\ s # <<>> => Last(s).price = price[p][0]
  BY <1>2, <1>4
<1>10. QED
  BY <1>2, <1>5, <1>6, <1>7, <1>8, <1>9

(* What the block did to the pool is what its operations say.              *)
OpsFit(p) ==
    /\ Where(ops[p], {"swap"}) = {} => price[p][0] = price[p][1]
    /\ Where(ops[p], {"swap"}) # {} => LastOf(ops[p], {"swap"}).price = price[p][0]
    /\ ops[p] # <<>> /\ price[p][1] = NoValue => Where(ops[p], {"swap"}) # {}
    /\ p \in V2Pools /\ ops[p] # <<>> =>
          /\ Where(ops[p], {"swap", "burn"}) # {}
          /\ LastOf(ops[p], Emitting).price = price[p][0]
          /\ LastOf(ops[p], Emitting).liquidity = liquidity[p][0]
    /\ ops[p] = <<>> => liquidity[p][0] = liquidity[p][1]
    /\ Where(ops[p], {"burn"}) # {} <=> 0 \in burnt[p]

(* The facts about the chain, the place in it, and the alerts so far.      *)
Grounded ==
    /\ runFrom <= now + 1
    /\ at # "idle" => runFrom <= now
    /\ at # "idle" => \A p \in Pools : OpsFit(p)
    /\ \A p \in Pools, k \in Back : price[p][k] = NoValue <=> liquidity[p][k] = NoValue
    /\ at = "evaluate" => todo \subseteq TouchedPools
    /\ \A a \in alerts :
          /\ a.pool \in Pools /\ a.block \in Int /\ a.time \in Int
          /\ a.block <= now /\ a.time <= time /\ now - a.block <= time - a.time

LEMMA BlockFits ==
    ASSUME EngineType, NEW chosen \in BlockChoices, NextBlock(chosen), NEW p \in Pools
    PROVE  /\ ops' = chosen => OpsFit(p)'
           /\ Where(chosen[p], {"swap"}) = {} => price'[p][0] = price'[p][1]
           /\ Where(chosen[p], {"swap", "burn", "poke"}) = {} /\ p \in V2Pools => chosen[p] = <<>>
           /\ chosen[p] = <<>> => liquidity'[p][0] = liquidity'[p][1]
           /\ Where(chosen[p], {"burn"}) # {} <=> 0 \in burnt'[p]
           /\ chosen[p] # <<>> => price'[p][0] # NoValue /\ liquidity'[p][0] # NoValue
<1> DEFINE s == chosen[p]
<1>1. /\ price'[p][1] = price[p][0] /\ liquidity'[p][1] = liquidity[p][0]
      /\ price'[p][0] = IF s = <<>> THEN price[p][0] ELSE Last(s).price
      /\ liquidity'[p][0] = IF s = <<>> THEN liquidity[p][0] ELSE Last(s).liquidity
      /\ 0 \in burnt'[p] <=> Where(s, {"burn"}) # {}
  <2>1. 1 \in 1 .. Window /\ 1 - 1 = 0 /\ 0 \in Back
    BY Numbers
  <2>2. /\ price'[p][1] = price[p][1 - 1] /\ liquidity'[p][1] = liquidity[p][1 - 1]
        /\ price'[p][0] = IF s = <<>> THEN price[p][0] ELSE Last(s).price
        /\ liquidity'[p][0] = IF s = <<>> THEN liquidity[p][0] ELSE Last(s).liquidity
        /\ 0 \in burnt'[p] <=> IF 0 = 0 THEN Where(s, {"burn"}) # {} ELSE 0 - 1 \in burnt[p]
    BY <2>1, ChainStep
  <2>3. QED
    BY <2>1, <2>2
<1>2. s \in Seq(Op) /\ Legal(p, s)
  BY ChosenIs
<1>3. /\ Where(s, {"swap"}) = {} /\ s # <<>> => Last(s).price = price[p][0]
      /\ Where(s, {"swap"}) # {} => s # <<>> /\ Last(s).price = LastOf(s, {"swap"}).price
      /\ s # <<>> /\ price[p][0] = NoValue => Where(s, {"swap"}) # {}
      /\ p \in V2Pools /\ s # <<>> =>
            Where(s, {"swap", "burn"}) # {} /\ LastOf(s, Emitting) = Last(s)
      /\ s # <<>> => Last(s).price \in Prices /\ Last(s).liquidity \in Liquidities
  BY <1>2, LegalIs
<1>4. Where(s, {"swap", "burn"}) \subseteq Where(s, {"swap", "burn", "poke"})
  BY DEF Where
<1>5. /\ Where(s, {"swap"}) = {} => price'[p][0] = price'[p][1]
      /\ s = <<>> => liquidity'[p][0] = liquidity'[p][1]
      /\ Where(s, {"burn"}) # {} <=> 0 \in burnt'[p]
  BY <1>1, <1>3
<1>6. s # <<>> => price'[p][0] # NoValue /\ liquidity'[p][0] # NoValue
  <2> SUFFICES ASSUME s # <<>> PROVE price'[p][0] # NoValue /\ liquidity'[p][0] # NoValue
    OBVIOUS
  <2>1. price'[p][0] \in Prices /\ liquidity'[p][0] \in Liquidities
    BY <1>1, <1>3
  <2>2. \A x \in Prices \cup Liquidities : x # NoValue
    BY Numbers DEF NoValue
  <2>3. QED
    BY <2>1, <2>2
<1>7. ASSUME ops' = chosen PROVE OpsFit(p)'
  <2>1. ops'[p] = s
    BY <1>7
  <2> HIDE DEF s
  <2>2. QED
    BY <1>1, <1>3, <1>5, <2>1 DEF OpsFit
<1>8. QED
  BY <1>3, <1>4, <1>5, <1>6, <1>7

LEMMA AlertIs ==
    ASSUME NEW p, NEW st
    PROVE  LET a == AlertOf(p, st)
           IN  /\ a.pool = p /\ a.block = now /\ a.time = time
               /\ a.before = Top(st.price) /\ a.after = st.price.current
               /\ a.liquidity = st.liquidity.current /\ a.rugpull = Rugpull(st) /\ a.run = runFrom
BY DEF AlertOf

LEMMA GroundedInit == Init => Grounded
<1> SUFFICES ASSUME Init PROVE Grounded
  OBVIOUS
<1>1. PICK v \in [Pools -> (Prices \X Liquidities) \cup {<<NoValue, NoValue>>}] :
          /\ price = [p \in Pools |-> [k \in Back |-> v[p][1]]]
          /\ liquidity = [p \in Pools |-> [k \in Back |-> v[p][2]]]
  BY DEF Init
<1>2. ASSUME NEW p \in Pools, NEW k \in Back PROVE price[p][k] = NoValue <=> liquidity[p][k] = NoValue
  <2>1. price[p][k] = v[p][1] /\ liquidity[p][k] = v[p][2]
    BY <1>1
  <2>2. CASE v[p] \in Prices \X Liquidities
    <3>1. v[p][1] \in Prices /\ v[p][2] \in Liquidities
      BY <2>2
    <3>2. \A x \in Prices \cup Liquidities : x # NoValue
      BY Numbers DEF NoValue
    <3>3. QED
      BY <2>1, <3>1, <3>2
  <2>3. CASE v[p] = <<NoValue, NoValue>>
    BY <2>1, <2>3
  <2>4. QED
    BY <2>2, <2>3
<1>3. runFrom <= now + 1 /\ at = "idle" /\ alerts = {}
  BY Numbers DEF Init
<1>4. QED
  BY <1>2, <1>3 DEF Grounded

(* A block arrives.                                                        *)
LEMMA GroundedBlock ==
    ASSUME EngineType, Grounded, Begin \/ EmptyBlock \/ SkipBlock
    PROVE  Grounded'
<1>1. PICK chosen \in BlockChoices : NextBlock(chosen) /\ (at' = "eth" => ops' = chosen)
  BY DEF Begin, EmptyBlock, SkipBlock
<1>2. /\ at = "idle" /\ at' \in {"idle", "eth"} /\ alerts' = alerts /\ runFrom' = runFrom
  BY DEF Begin, EmptyBlock, SkipBlock
<1>3. /\ now' = now + 1 /\ time' >= time + 1 /\ time' \in Nat /\ time \in Nat /\ now \in Int /\ now' \in Int
      /\ runFrom \in Int
  BY <1>1, ChainStep, Numbers, SMTT(60) DEF EngineType, TypeOK
<1>4. runFrom' <= now' /\ runFrom' <= now' + 1
  BY <1>2, <1>3 DEF Grounded
<1>5. at' # "idle" => \A p \in Pools : OpsFit(p)'
  BY <1>1, <1>2, BlockFits
<1>6. ASSUME NEW p \in Pools, NEW k \in Back PROVE price'[p][k] = NoValue <=> liquidity'[p][k] = NoValue
  <2>1. CASE k = 0
    <3>1. 0 \in Back
      BY Numbers
    <3>2. chosen[p] # <<>> => price'[p][0] # NoValue /\ liquidity'[p][0] # NoValue
      BY <1>1, BlockFits
    <3>3. chosen[p] = <<>> => price'[p][0] = price[p][0] /\ liquidity'[p][0] = liquidity[p][0]
      BY <1>1, ChainStep
    <3>4. QED
      BY <2>1, <3>1, <3>2, <3>3 DEF Grounded
  <2>2. CASE k # 0
    <3>1. k \in 1 .. Window /\ k - 1 \in Back
      BY <2>2, Numbers
    <3>2. price'[p][k] = price[p][k - 1] /\ liquidity'[p][k] = liquidity[p][k - 1]
      BY <1>1, <3>1, ChainStep
    <3>3. QED
      BY <3>1, <3>2 DEF Grounded
  <2>3. QED
    BY <2>1, <2>2
<1>7. ASSUME NEW a \in alerts
      PROVE  /\ a.pool \in Pools /\ a.block \in Int /\ a.time \in Int
             /\ a.block <= now' /\ a.time <= time' /\ now' - a.block <= time' - a.time
  <2>1. /\ a.pool \in Pools /\ a.block \in Int /\ a.time \in Int
        /\ a.block <= now /\ a.time <= time /\ now - a.block <= time - a.time
    BY DEF Grounded
  <2>2. ASSUME NEW x \in Int, NEW y \in Int, x <= now, y <= time, now - x <= time - y
        PROVE  x <= now' /\ y <= time' /\ now' - x <= time' - y
    <3> DEFINE n == now'
               u == time'
    <3>1. n = now + 1 /\ u >= time + 1 /\ u \in Nat /\ time \in Nat /\ now \in Int /\ n \in Int
      BY <1>3
    <3> HIDE DEF n, u
    <3>2. x <= n /\ y <= u /\ n - x <= u - y
      BY <2>2, <3>1
    <3>3. QED
      BY <3>2 DEF n, u
  <2>3. QED
    BY <2>1, <2>2
<1>8. QED
  BY <1>2, <1>4, <1>5, <1>6, <1>7 DEF Grounded

(* Every other step leaves the chain alone.                                *)
LEMMA GroundedSame ==
    ASSUME EngineType, Grounded, UNCHANGED <<chainVars, ops>>,
           runFrom' <= now + 1, at' # "idle" => at # "idle" /\ runFrom' <= now,
           at' = "evaluate" => todo' \subseteq TouchedPools,
           \A a \in alerts' : a \in alerts \/ \E p \in Pools : \E st : a = AlertOf(p, st)
    PROVE  Grounded'
<1>1. /\ now' = now /\ time' = time /\ price' = price /\ liquidity' = liquidity /\ burnt' = burnt /\ ops' = ops
  BY DEF chainVars
<1>2. at' # "idle" => \A p \in Pools : OpsFit(p)'
  BY <1>1 DEF Grounded, OpsFit, Recorded
<1>3. TouchedPools' = TouchedPools
  BY <1>1 DEF TouchedPools
<1>4. ASSUME NEW a \in alerts'
      PROVE  /\ a.pool \in Pools /\ a.block \in Int /\ a.time \in Int
             /\ a.block <= now /\ a.time <= time /\ now - a.block <= time - a.time
  <2>1. CASE a \in alerts
    BY <2>1 DEF Grounded
  <2>2. CASE \E p \in Pools : \E st : a = AlertOf(p, st)
    <3>1. PICK p \in Pools : \E st : a = AlertOf(p, st)
      BY <2>2
    <3>2. PICK st : a = AlertOf(p, st)
      BY <3>1
    <3>3. a.pool = p /\ a.block = now /\ a.time = time
      BY <3>2, AlertIs
    <3>4. now \in Int /\ time \in Int
      BY Numbers DEF EngineType, TypeOK
    <3>5. QED
      BY <3>3, <3>4
  <2>3. QED
    BY <2>1, <2>2
<1>5. QED
  BY <1>1, <1>2, <1>3, <1>4 DEF Grounded

LEMMA GroundedStep == EngineType /\ Grounded /\ [Next]_vars => Grounded'
<1> SUFFICES ASSUME EngineType, Grounded, [Next]_vars PROVE Grounded'
  OBVIOUS
<1>0. runFrom <= now + 1 /\ (at # "idle" => runFrom <= now) /\ (at = "evaluate" => todo \subseteq TouchedPools)
  BY DEF Grounded
<1>1. CASE UNCHANGED vars
  <2>1. UNCHANGED <<chainVars, ops, at, runFrom, todo, alerts>>
    BY <1>1 DEF vars
  <2>2. QED
    BY <1>0, <2>1, GroundedSame
<1>2. CASE Wait
  <2>1. UNCHANGED vars
    BY <1>2 DEF Wait
  <2>2. QED
    BY <1>1, <2>1
<1>3. CASE Begin \/ EmptyBlock \/ SkipBlock
  BY <1>3, GroundedBlock
<1>4. CASE Bootstrap \/ Prime \/ Apply
  <2>1. /\ UNCHANGED <<chainVars, ops, runFrom, alerts>> /\ at # "idle" /\ at' # "evaluate"
    BY <1>4 DEF Bootstrap, Prime, Apply
  <2>2. QED
    BY <1>0, <2>1, GroundedSame
<1>5. CASE Refresh
  <2>1. /\ UNCHANGED <<chainVars, ops, runFrom, alerts>> /\ at # "idle" /\ todo' = TouchedPools
    BY <1>5 DEF Refresh
  <2>2. QED
    BY <1>0, <2>1, GroundedSame
<1>6. ASSUME NEW p \in Pools, Dismiss(p) \/ Evaluate(p) PROVE Grounded'
  <2>1. /\ UNCHANGED <<chainVars, ops, runFrom, at>> /\ at = "evaluate" /\ todo' = todo \ {p}
        /\ alerts' = alerts \/ alerts' = alerts \cup {AlertOf(p, Pruned(states[p], now))}
    BY <1>6, JudgedDoes
  <2>2. \A a \in alerts' : a \in alerts \/ \E q \in Pools : \E st : a = AlertOf(q, st)
    BY <2>1
  <2>3. QED
    BY <1>0, <2>1, <2>2, GroundedSame
<1>7. CASE Finish
  <2>1. /\ UNCHANGED <<chainVars, runFrom, alerts>> /\ at' = "idle"
    BY <1>7 DEF Finish
  <2>2. /\ now' = now /\ time' = time /\ price' = price /\ liquidity' = liquidity
    BY <2>1 DEF chainVars
  <2>3. QED
    BY <1>0, <2>1, <2>2 DEF Grounded
<1>8. CASE Restart
  <2>1. /\ UNCHANGED <<chainVars, ops, alerts>> /\ now \in Int
        /\ \/ at = "idle" /\ runFrom' = now + 1 /\ at' = at
           \/ at # "idle" /\ runFrom' = now /\ at' = "eth"
    BY <1>8, Numbers DEF Restart, EngineType, TypeOK
  <2>2. runFrom' <= now + 1 /\ (at' # "idle" => at # "idle" /\ runFrom' <= now) /\ at' # "evaluate"
    BY <2>1
  <2>3. QED
    BY <2>1, <2>2, GroundedSame
<1>9. QED
  BY <1>1, <1>2, <1>3, <1>4, <1>5, <1>6, <1>7, <1>8 DEF Next

LEMMA GroundedInvariant == Spec => [](EngineType /\ Grounded)
BY TypeInit, TypeStep, GroundedInit, GroundedStep, PTL DEF Spec

-----------------------------------------------------------------------------
(* The two series of a pool, each beside what it has to follow: the price  *)
(* of every pool, and the liquidity of a V2 pool as long as no read of the *)
(* state before a block fails.                                             *)

Kinds == {"price", "liquidity"}
Ser(kind, st) == IF kind = "price" THEN st.price ELSE st.liquidity
Hist(kind, p) == IF kind = "price" THEN price[p] ELSE liquidity[p]
Recording(kind, p) == kind = "price" \/ (p \in V2Pools /\ Without({"eth", "prime"}))

(* The last block the detector has been told of.                           *)
Upto == IF at \in {"eth", "prime", "apply"} THEN now - 1 ELSE now

EthInv == Without({"eth"}) /\ at \notin {"idle", "eth"} => ethKnown

LEMMA SerIs ==
    ASSUME NEW kind \in Kinds, NEW st \in PoolStates, NEW b \in Int
    PROVE  /\ Ser(kind, st) \in Series
           /\ Ser(kind, Pruned(st, b)) = Prune(Ser(kind, st), b, Window)
           /\ Ser(kind, NewState) = EmptySeries
BY PartsOf, PrunedIs DEF Ser, NewState

LEMMA HistIs ==
    ASSUME EngineType, NEW kind \in Kinds, NEW p \in Pools, NEW k \in {0, 1}
    PROVE  Hist(kind, p)[k] \in Int
BY ChainIs DEF Hist

LEMMA HappenedGrows == EngineType /\ [Next]_vars => happened \subseteq happened'
<1> SUFFICES ASSUME EngineType, [Next]_vars PROVE happened \subseteq happened'
  OBVIOUS
<1>1. CASE UNCHANGED vars
  BY <1>1 DEF vars
<1>2. CASE Wait \/ Begin \/ EmptyBlock \/ SkipBlock \/ Bootstrap \/ Apply \/ Finish \/ Restart
  BY <1>2 DEF Wait, vars, Begin, EmptyBlock, SkipBlock, Bootstrap, Apply, Finish, Restart, Fault
<1>3. CASE Prime
  BY <1>3, PrimeDoes
<1>4. CASE Refresh
  BY <1>4, RefreshDoes
<1>5. ASSUME NEW p \in Pools, Dismiss(p) \/ Evaluate(p) PROVE happened \subseteq happened'
  BY <1>5, JudgedDoes
<1>6. QED
  BY <1>1, <1>2, <1>3, <1>4, <1>5 DEF Next

LEMMA WithoutBefore ==
    ASSUME EngineType, [Next]_vars, NEW K
    PROVE  /\ Without(K)' => Without(K)
           /\ \A kind, p : Recording(kind, p)' => Recording(kind, p)
<1>1. happened \subseteq happened'
  BY HappenedGrows
<1>2. QED
  BY <1>1 DEF Without, Recording

LEMMA EthStep == EngineType /\ EthInv /\ [Next]_vars => EthInv'
<1> SUFFICES ASSUME EngineType, EthInv, [Next]_vars, Without({"eth"})', at' \notin {"idle", "eth"}
             PROVE  ethKnown'
  BY DEF EthInv
<1>1. Without({"eth"})
  BY WithoutBefore
<1>2. CASE UNCHANGED vars
  BY <1>1, <1>2 DEF vars, engineVars, EthInv
<1>3. CASE Bootstrap
  BY <1>3 DEF Bootstrap, Fault, Without
<1>4. CASE Wait \/ Begin \/ EmptyBlock \/ SkipBlock \/ Finish \/ Restart
  BY <1>2, <1>4 DEF Wait, Begin, EmptyBlock, SkipBlock, Finish, Restart
<1>5. CASE Prime \/ Refresh \/ \E p \in Pools : Dismiss(p) \/ Evaluate(p)
  BY <1>1, <1>5 DEF Prime, Refresh, Dismiss, Evaluate, EthInv
<1>6. CASE Apply
  <2>1. ethKnown /\ ethKnown \in BOOLEAN
    BY <1>1, <1>6 DEF Apply, EthInv, EngineType, TypeOK
  <2>2. PICK before \in BOOLEAN, after \in BOOLEAN : ethKnown' = (ethKnown \/ before \/ after)
    BY <1>6 DEF Apply
  <2>3. QED
    BY <2>1, <2>2
<1>7. QED
  BY <1>2, <1>3, <1>4, <1>5, <1>6 DEF Next

-----------------------------------------------------------------------------
(* What each step does to a series.                                        *)

LEMMA BlockSeriesIs ==
    ASSUME EngineType, NEW kind \in Kinds, NEW p \in Pools,
           Begin \/ EmptyBlock \/ SkipBlock
    PROVE  /\ \A k \in 1 .. Window : Hist(kind, p)'[k] = Hist(kind, p)[k - 1]
           /\ Hist(kind, p)'[1] = Hist(kind, p)[0]
           /\ EmptyBlock /\ Recording(kind, p) => Hist(kind, p)'[0] = Hist(kind, p)'[1]
<1>1. PICK chosen \in BlockChoices :
          NextBlock(chosen) /\ (EmptyBlock => \A q \in Pools : Where(chosen[q], Emitting) = {})
  BY DEF Begin, EmptyBlock, SkipBlock
<1>2. \A k \in 1 .. Window : Hist(kind, p)'[k] = Hist(kind, p)[k - 1]
  BY <1>1, ChainStep DEF Hist
<1>3. Hist(kind, p)'[1] = Hist(kind, p)[0]
  <2>1. 1 \in 1 .. Window /\ 1 - 1 = 0
    BY Numbers
  <2>2. Hist(kind, p)'[1] = Hist(kind, p)[1 - 1]
    BY <1>2, <2>1
  <2>3. QED
    BY <2>1, <2>2
<1>4. ASSUME EmptyBlock, Recording(kind, p) PROVE Hist(kind, p)'[0] = Hist(kind, p)'[1]
  <2>1. Where(chosen[p], {"swap", "burn", "poke"}) = {}
    BY <1>1, <1>4 DEF Emitting
  <2>2. Where(chosen[p], {"swap"}) = {}
    BY <2>1 DEF Where
  <2>3. price'[p][0] = price'[p][1]
    BY <1>1, <2>2, BlockFits
  <2>4. p \in V2Pools => liquidity'[p][0] = liquidity'[p][1]
    BY <1>1, <2>1, BlockFits
  <2>5. QED
    BY <1>4, <2>3, <2>4 DEF Hist, Recording, Kinds
<1>5. QED
  BY <1>2, <1>3, <1>4

LEMMA PrimeSeriesIs ==
    ASSUME EngineType, Grounded, EthInv, Prime, NEW kind \in Kinds, NEW p \in DOMAIN states', Recording(kind, p)'
    PROVE  \/ p \in DOMAIN states /\ Ser(kind, states'[p]) = Ser(kind, states[p])
           \/ /\ p \in NeedPrime /\ Hist(kind, p)[1] # NoValue
              /\ Ser(kind, states'[p]) = Add(Ser(kind, StateOf(states, p)), now - 1, Hist(kind, p)[1])
<1>1. CASE p \in DOMAIN states /\ states'[p] = states[p]
  BY <1>1
<1>2. CASE ~(p \in DOMAIN states /\ states'[p] = states[p])
  <2>1. /\ p \in NeedPrime /\ price[p][1] # NoValue /\ p \in Pools
        /\ \E b \in BOOLEAN : (p \in V2Pools => b) /\ states'[p] = PrimePool(StateOf(states, p), p, b)
    BY <1>2, PrimeDoes
  <2>2. PICK b \in BOOLEAN : (p \in V2Pools => b) /\ states'[p] = PrimePool(StateOf(states, p), p, b)
    BY <2>1
  <2> DEFINE st == StateOf(states, p)
             t == PrimePool(st, p, b)
  <2>3. st \in PoolStates /\ (p \in DOMAIN states => st = states[p]) /\ (p \notin DOMAIN states => st = NewState)
    BY StateOfIs
  <2>4. /\ t.price = IF st.price.current = NoValue THEN Add(st.price, now - 1, price[p][1]) ELSE st.price
        /\ t.liquidity = IF b /\ QuoteKnown(p, ethKnown)
                           THEN Add(st.liquidity, now - 1, liquidity[p][1]) ELSE st.liquidity
    BY <2>1, <2>3, PrimePoolIs
  <2>5. st.price.current = NoValue
    <3>1. CASE p \in DOMAIN states
      BY <2>1, <2>3, <3>1 DEF NeedPrime, HasPrice, HasValue
    <3>2. CASE p \notin DOMAIN states
      BY <2>3, <3>2 DEF NewState, EmptySeries
    <3>3. QED
      BY <3>1, <3>2
  <2>6. liquidity[p][1] # NoValue
    BY <2>1, Numbers DEF Grounded
  <2> HIDE DEF st, t
  <2>7. CASE kind = "price"
    BY <2>1, <2>2, <2>4, <2>5, <2>7 DEF Ser, Hist, st, t
  <2>8. CASE kind = "liquidity"
    <3>1. p \in V2Pools /\ Without({"eth", "prime"})'
      BY <2>8 DEF Recording
    <3>2. happened' \cap {"eth", "prime"} = {} /\ happened \subseteq happened' /\ at = "prime"
      BY <3>1, PrimeDoes DEF Without
    <3>3. ethKnown
      BY <3>2 DEF EthInv, Without
    <3>4. t.liquidity = Add(st.liquidity, now - 1, liquidity[p][1])
      BY <2>2, <2>4, <3>1, <3>3 DEF QuoteKnown
    <3>5. QED
      BY <2>1, <2>2, <2>6, <2>8, <3>4 DEF Ser, Hist, st, t
  <2>9. QED
    BY <2>7, <2>8 DEF Kinds
<1>3. QED
  BY <1>1, <1>2

LEMMA ApplySeriesIs ==
    ASSUME EngineType, Grounded, EthInv, Apply, NEW kind \in Kinds, NEW p \in DOMAIN states', Recording(kind, p)'
    PROVE  \/ /\ Hist(kind, p)[0] # NoValue
              /\ Ser(kind, states'[p]) = Add(Ser(kind, StateOf(states, p)), now, Hist(kind, p)[0])
           \/ /\ Ser(kind, states'[p]) = Ser(kind, StateOf(states, p))
              /\ Hist(kind, p)[0] = Hist(kind, p)[1]
              /\ p \notin DOMAIN states => p \in TouchedPools /\ price[p][1] # NoValue
<1>1. PICK known \in BOOLEAN :
          /\ ethKnown => known
          /\ \A q \in Pools : Recorded(q) => states'[q] = ApplyEvents(StateOf(states, q), q, known)
  BY ApplyDoes
<1>2. /\ p \in Pools /\ (p \in DOMAIN states \/ Recorded(p)) /\ at = "apply"
      /\ ~Recorded(p) => states'[p] = states[p]
      /\ happened' = happened
  BY ApplyDoes DEF Apply
<1>3. OpsFit(p) /\ ops[p] \in Seq(Op)
  BY <1>2 DEF Grounded, EngineType
<1>4. kind = "liquidity" => p \in V2Pools /\ ethKnown
  BY <1>2 DEF Recording, Without, EthInv
<1> DEFINE st == StateOf(states, p)
<1>5. st \in PoolStates /\ (p \in DOMAIN states => st = states[p])
  BY StateOfIs
<1>6. Where(ops[p], {"swap"}) \subseteq Where(ops[p], {"swap", "burn"})
      /\ Where(ops[p], {"swap", "burn"}) \subseteq Where(ops[p], Emitting)
      /\ (Where(ops[p], {"swap", "burn"}) # {} => ops[p] # <<>>)
  BY <1>3 DEF Where, Emitting
<1>7. CASE ~Recorded(p)
  <2>1. states'[p] = st /\ p \in DOMAIN states
    BY <1>2, <1>5, <1>7
  <2>2. Where(ops[p], {"swap"}) = {}
    BY <1>6, <1>7 DEF Recorded
  <2>3. price[p][0] = price[p][1]
    BY <1>3, <2>2 DEF OpsFit
  <2>4. p \in V2Pools => ops[p] = <<>>
    BY <1>3, <1>7 DEF OpsFit, Recorded
  <2>5. p \in V2Pools => liquidity[p][0] = liquidity[p][1]
    BY <1>3, <2>4 DEF OpsFit
  <2>6. QED
    BY <1>4, <2>1, <2>3, <2>5 DEF Hist, Ser, Kinds
<1>8. CASE Recorded(p)
  <2> DEFINE A == Where(ops[p], Pricing(p)) = {}
             x == LastOf(ops[p], Pricing(p)).price
             y == LastOf(ops[p], Emitting).liquidity
             B == p \in V2Pools /\ QuoteKnown(p, known)
             t == ApplyEvents(st, p, known)
  <2>1. ops[p] # <<>> /\ Where(ops[p], Emitting) # {}
    BY <1>6, <1>8 DEF Recorded
  <2>2. st.lastBlock <= now
    <3>1. st.lastBlock \in {0} \cup (FirstBlock .. now) /\ now \in Nat
      BY <1>2, StateOfIs, ChainIs
    <3>2. QED
      BY <3>1, Numbers
  <2>3. /\ t.price = IF A THEN st.price ELSE Add(st.price, now, x)
        /\ t.liquidity = IF B THEN Add(st.liquidity, now, y) ELSE st.liquidity
    BY <1>2, <1>5, <1>8, <2>2, ApplyEventsIs, ZenonT(60)
  <2>4. states'[p] = t
    BY <1>1, <1>2, <1>8
  <2>5. ~A => x = price[p][0]
    <3>1. CASE p \in V2Pools
      BY <1>3, <2>1, <3>1 DEF OpsFit, Pricing
    <3>2. CASE p \notin V2Pools
      BY <1>3, <3>2 DEF OpsFit, Pricing
    <3>3. QED
      BY <3>1, <3>2
  <2>6. ~A => x # NoValue
    BY <1>3, WhereIs, OpIs
  <2>7. A => price[p][0] = price[p][1] /\ price[p][1] # NoValue
    <3>1. A => p \notin V2Pools
      BY <2>1 DEF Pricing
    <3>2. A => Where(ops[p], {"swap"}) = {}
      BY <3>1 DEF Pricing
    <3>3. QED
      BY <1>3, <2>1, <3>2 DEF OpsFit
  <2>8. p \in V2Pools => y = liquidity[p][0]
    BY <1>3, <2>1 DEF OpsFit
  <2>9. y # NoValue
    BY <1>3, <2>1, WhereIs, OpIs
  <2>10. kind = "liquidity" => B
    BY <1>1, <1>4 DEF QuoteKnown
  <2>11. p \in TouchedPools
    BY <1>2, <2>1 DEF TouchedPools
  <2> HIDE DEF A, B, x, y, t, st
  <2>12. CASE kind = "price"
    BY <2>3, <2>4, <2>5, <2>6, <2>7, <2>11, <2>12 DEF Ser, Hist, st
  <2>13. CASE kind = "liquidity"
    BY <1>4, <2>3, <2>4, <2>8, <2>9, <2>10, <2>13 DEF Ser, Hist, st
  <2>14. QED
    BY <2>12, <2>13 DEF Kinds
<1>9. QED
  BY <1>7, <1>8

LEMMA RefreshSeriesIs ==
    ASSUME EngineType, Refresh, NEW kind \in Kinds, NEW p \in DOMAIN states', Recording(kind, p)'
    PROVE  /\ Ser(kind, states'[p]) = Ser(kind, StateOf(states, p))
           /\ p \notin DOMAIN states => p \in TouchedPools
<1>1. CASE p \in DOMAIN states /\ states'[p] = states[p]
  BY <1>1, StateOfIs
<1>2. CASE ~(p \in DOMAIN states /\ states'[p] = states[p])
  <2>1. p \in NeedRefresh /\ states'[p] = RecordLiquidity(StateOf(states, p), now, liquidity[p][0])
    BY <1>2, RefreshDoes
  <2>2. p \in V3Pools /\ p \in Pools /\ p \notin V2Pools /\ p \in TouchedPools
    BY <2>1, Numbers DEF NeedRefresh
  <2>3. kind = "price"
    BY <2>2 DEF Recording
  <2>4. StateOf(states, p) \in PoolStates /\ now \in Int /\ liquidity[p][0] \in Int
    BY <2>2, StateOfIs, ChainIs
  <2>5. states'[p].price = StateOf(states, p).price
    BY <2>1, <2>4, RecordLiquidityIs
  <2>6. QED
    BY <2>2, <2>3, <2>5 DEF Ser
<1>3. QED
  BY <1>1, <1>2

LEMMA JudgedSeriesIs ==
    ASSUME EngineType, NEW q \in Pools, Dismiss(q) \/ Evaluate(q), NEW kind \in Kinds, NEW p \in DOMAIN states'
    PROVE  /\ p \in DOMAIN states
           /\ \/ Ser(kind, states'[p]) = Ser(kind, states[p])
              \/ Ser(kind, states'[p]) = Prune(Ser(kind, states[p]), now, Window)
           /\ states'[p].lastBlock = states[p].lastBlock
           /\ p # q => states'[p] = states[p]
           /\ p = q => states'[p].burns = {b \in states[p].burns : b > now - Window}
<1>1. /\ DOMAIN states' = DOMAIN states
      /\ \A r \in DOMAIN states : r # q => states'[r] = states[r]
      /\ q \in DOMAIN states => \/ states'[q] = Pruned(states[q], now)
                                \/ \E t \in Int : states'[q] = [Pruned(states[q], now) EXCEPT !.lastAlert = t]
  BY JudgedDoes
<1>2. CASE p # q
  BY <1>1, <1>2
<1>3. CASE p = q
  <2> DEFINE st == states[p]
             u == Pruned(st, now)
  <2>1. st \in PoolStates /\ now \in Int
    BY <1>1, ChainIs DEF EngineType
  <2> HIDE DEF st
  <2>2. /\ u \in PoolStates /\ u.lastBlock = st.lastBlock /\ Ser(kind, u) = Prune(Ser(kind, st), now, Window)
        /\ u.burns = {b \in st.burns : b > now - Window}
    BY <2>1, PrunedIs, SerIs
  <2>3. states'[p] = u \/ \E t \in Int : states'[p] = [u EXCEPT !.lastAlert = t]
    BY <1>1, <1>3 DEF st
  <2> HIDE DEF u
  <2>4. \A t : LET w == [u EXCEPT !.lastAlert = t]
               IN  w.lastBlock = u.lastBlock /\ w.burns = u.burns /\ Ser(kind, w) = Ser(kind, u)
    BY <2>2 DEF PoolStates, Ser
  <2>5. QED
    BY <1>1, <1>3, <2>2, <2>3, <2>4, ZenonT(60) DEF st
<1>4. QED
  BY <1>2, <1>3

-----------------------------------------------------------------------------
(* The series follow the chain.                                            *)

Follow ==
    Without({"skip"}) => \A kind \in Kinds, p \in DOMAIN states : Recording(kind, p) =>
        Follows(Ser(kind, states[p]), Hist(kind, p), now, Upto, runFrom)

Known ==
    Without({"prime", "skip"}) =>
        /\ \A kind \in Kinds, p \in DOMAIN states : Recording(kind, p) => HasValue(Ser(kind, states[p]))
        /\ at = "apply" => \A p \in TouchedPools \ DOMAIN states : price[p][1] = NoValue
        /\ at \in {"refresh", "evaluate"} => TouchedPools \subseteq DOMAIN states

Sound == EngineType /\ Grounded /\ EthInv /\ Follow /\ Known

LEMMA EmptyIs ==
    ASSUME NEW h, NEW n, NEW u, NEW r
    PROVE  /\ Follows(EmptySeries, h, n, u, r) /\ Complete(EmptySeries, h, n, r)
           /\ ~HasValue(EmptySeries) /\ EmptySeries.points = <<>> /\ EmptySeries.carry = NoValue
BY DEF EmptySeries, Follows, Complete, Ordered, HasValue

LEMMA BareIs ==
    ASSUME NEW s \in Series, Ordered(s)
    PROVE  /\ ~HasValue(s) => s.points = <<>> /\ s.carry = NoValue /\ s.current = NoValue
           /\ HasValue(s) => s.current # NoValue
           /\ s.points = <<>> /\ s.carry = NoValue => ~HasValue(s)
<1> DEFINE n == Len(s.points)
<1>1. n \in Nat /\ (s.points # <<>> => n \in 1 .. n)
  BY DEF Series
<1>2. s.points # <<>> => s.current # NoValue
  BY <1>1 DEF Ordered
<1>3. s.points = <<>> => s.current = s.carry
  BY DEF Ordered
<1>4. QED
  BY <1>2, <1>3 DEF HasValue

LEMMA PruneKeeps ==
    ASSUME NEW s \in Series, NEW b \in Int, Ordered(s), HasValue(s)
    PROVE  HasValue(Prune(s, b, Window))
<1>1. s.current # NoValue
  BY BareIs
<1>2. Prune(s, b, Window).current = s.current
  BY PruneIs DEF CutAt
<1>3. QED
  BY <1>1, <1>2 DEF HasValue

(* A pool the detector does not know follows anything.                     *)
LEMMA StateFollows ==
    ASSUME EngineType, Follow, Without({"skip"}), NEW kind \in Kinds, NEW p, Recording(kind, p)
    PROVE  /\ Ser(kind, StateOf(states, p)) \in Series
           /\ Follows(Ser(kind, StateOf(states, p)), Hist(kind, p), now, Upto, runFrom)
           /\ Ordered(Ser(kind, StateOf(states, p)))
           /\ p \in DOMAIN states => StateOf(states, p) = states[p]
           /\ p \notin DOMAIN states => Ser(kind, StateOf(states, p)) = EmptySeries
<1>1. StateOf(states, p) \in PoolStates /\ 0 \in Int
  BY StateOfIs
<1>2. Ser(kind, StateOf(states, p)) \in Series /\ Ser(kind, NewState) = EmptySeries
  BY <1>1, SerIs
<1>3. Follows(Ser(kind, StateOf(states, p)), Hist(kind, p), now, Upto, runFrom)
  <2>1. CASE p \in DOMAIN states
    BY <2>1, StateOfIs DEF Follow
  <2>2. CASE p \notin DOMAIN states
    BY <1>2, <2>2, StateOfIs, EmptyIs
  <2>3. QED
    BY <2>1, <2>2
<1>4. QED
  BY <1>2, <1>3, StateOfIs DEF Follows

LEMMA Numerals ==
    ASSUME EngineType, Grounded
    PROVE  /\ now \in Int /\ runFrom \in Int /\ runFrom <= now + 1 /\ now - 1 \in Int
           /\ at # "idle" => runFrom <= now
           /\ Upto \in {now - 1, now}
BY Numbers DEF EngineType, TypeOK, Grounded, Upto

LEMMA FollowBlock == Sound /\ (Begin \/ EmptyBlock \/ SkipBlock) => Follow'
<1> SUFFICES ASSUME Sound, Begin \/ EmptyBlock \/ SkipBlock,
                    Without({"skip"})', NEW kind \in Kinds, NEW p \in DOMAIN states', Recording(kind, p)'
             PROVE  Follows(Ser(kind, states'[p]), Hist(kind, p)', now', Upto', runFrom')
  BY DEF Follow
<1>1. Next
  BY DEF Next
<1>2. Without({"skip"}) /\ Recording(kind, p) /\ EngineType /\ Grounded /\ Follow
  BY <1>1, WithoutBefore DEF Sound
<1>3. ~SkipBlock
  BY DEF SkipBlock, Fault, Without
<1>4. /\ states' = states /\ runFrom' = runFrom /\ at = "idle"
      /\ at' = IF Begin THEN at' ELSE "idle"
      /\ Begin => at' = "eth"
  BY <1>3 DEF Begin, EmptyBlock, engineVars
<1>5. p \in Pools
  BY <1>2, <1>4 DEF EngineType, TypeOK
<1> DEFINE s == Ser(kind, states[p])
           h == Hist(kind, p)
           g == Hist(kind, p)'
           n == now
           next == now'
<1>6. /\ \A k \in 1 .. Window : g[k] = h[k - 1]
      /\ EmptyBlock => g[0] = g[1]
  BY <1>2, <1>5, BlockSeriesIs
<1>7. now' = now + 1
  BY DEF Begin, EmptyBlock, SkipBlock, NextBlock
<1>8. n \in Int /\ next \in Int /\ next = n + 1 /\ runFrom \in Int
  BY <1>2, <1>7, Numerals
<1>9. s \in Series
  BY <1>2, <1>4, StateFollows
<1>10. Follows(s, h, n, n, runFrom)
  BY <1>2, <1>4 DEF Follow, Upto
<1> HIDE DEF s, h, g, n, next
<1>11. Follows(s, g, next, n, runFrom)
  BY <1>6, <1>8, <1>9, <1>10, FollowsShift
<1>12. n = next - 1
  BY <1>8
<1>13. EmptyBlock => Follows(s, g, next, next, runFrom)
  BY <1>6, <1>8, <1>9, <1>11, <1>12, FollowsQuiet
<1>14. CASE Begin
  <2>1. Upto' = next - 1
    BY <1>4, <1>14 DEF Upto, next
  <2>2. Follows(s, g, next, next - 1, runFrom)
    BY <1>11, <1>12
  <2>3. QED
    BY <1>4, <2>1, <2>2 DEF s, g, next
<1>15. CASE EmptyBlock
  <2>1. at' = "idle"
    BY <1>15 DEF EmptyBlock
  <2>2. Upto' = next
    BY <2>1 DEF Upto, next
  <2>3. QED
    BY <1>4, <1>13, <1>15, <2>2 DEF s, g, next
<1>16. QED
  BY <1>3, <1>14, <1>15

(* The steps that leave the chain alone.                                   *)
LEMMA Kept ==
    ASSUME UNCHANGED <<chainVars, runFrom>>
    PROVE  /\ now' = now /\ price' = price /\ liquidity' = liquidity /\ burnt' = burnt /\ runFrom' = runFrom
           /\ \A kind, p : Hist(kind, p)' = Hist(kind, p)
BY DEF chainVars, Hist

LEMMA Price ==
    /\ "price" \in Kinds
    /\ \A p : Recording("price", p) /\ Hist("price", p) = price[p]
    /\ \A st : Ser("price", st) = st.price
<1>1. "price" \in Kinds
  BY DEF Kinds
<1>2. \A p : Recording("price", p)
  <2>1. ASSUME NEW kind, kind = "price" PROVE \A p : Recording(kind, p)
    BY <2>1 DEF Recording
  <2>2. QED
    BY <2>1
<1>3. \A p : Hist("price", p) = price[p]
  BY DEF Hist
<1>4. \A st : Ser("price", st) = st.price
  BY DEF Ser
<1>5. QED
  BY <1>1, <1>2, <1>3, <1>4

LEMMA FollowPrime == Sound /\ Prime => Follow'
<1> SUFFICES ASSUME Sound, Prime,
                    Without({"skip"})', NEW kind \in Kinds, NEW p \in DOMAIN states', Recording(kind, p)'
             PROVE  Follows(Ser(kind, states'[p]), Hist(kind, p)', now', Upto', runFrom')
  BY DEF Follow
<1>1. Next
  BY DEF Next
<1>2. Without({"skip"}) /\ Recording(kind, p) /\ EngineType /\ Grounded /\ EthInv /\ Follow /\ Known
  BY <1>1, WithoutBefore DEF Sound
<1>3. UNCHANGED <<chainVars, ops, runFrom>> /\ at = "prime" /\ at' = "apply"
  BY DEF Prime
<1> DEFINE u == StateOf(states, p)
           s == Ser(kind, u)
           h == Hist(kind, p)
           n == now
           b == now - 1
           v == Hist(kind, p)[1]
<1>4. /\ Hist(kind, p)' = h /\ now' = n /\ runFrom' = runFrom /\ Upto = b /\ Upto' = b
  BY <1>3, Kept DEF Upto
<1>5. /\ s \in Series /\ Follows(s, h, n, b, runFrom) /\ Ordered(s)
      /\ p \in DOMAIN states => u = states[p]
      /\ p \notin DOMAIN states => s = EmptySeries
  BY <1>2, <1>4, StateFollows
<1>6. n \in Int /\ b \in Int /\ b = n - 1 /\ runFrom \in Int /\ runFrom <= n
  BY <1>2, <1>3, Numerals
<1>7. CASE p \in DOMAIN states /\ Ser(kind, states'[p]) = Ser(kind, states[p])
  BY <1>4, <1>5, <1>7
<1>8. CASE /\ p \in NeedPrime /\ v # NoValue
           /\ Ser(kind, states'[p]) = Add(s, b, v)
  <2>1. p \in Pools /\ ~HasPrice(states, p)
    BY <1>8 DEF NeedPrime, TouchedPools
  <2>2. v \in Int
    BY <1>2, <2>1, HistIs
  <2>3. s.points = <<>> /\ s.carry = NoValue
    <3>1. CASE p \notin DOMAIN states
      BY <1>5, <3>1, EmptyIs
    <3>2. CASE p \in DOMAIN states
      <4>1. ~HasValue(states[p].price)
        BY <2>1, <3>2 DEF HasPrice
      <4>2. CASE kind = "price"
        <5>1. s = states[p].price
          BY <1>5, <3>2, <4>2 DEF Ser
        <5> HIDE DEF s
        <5>2. ~HasValue(s)
          BY <4>1, <5>1
        <5>3. QED
          BY <1>5, <5>2, BareIs
      <4>3. CASE kind = "liquidity"
        <5>1. Without({"eth", "prime"})
          BY <1>2, <4>3 DEF Recording
        <5>2. Without({"prime", "skip"})
          BY <1>2, <5>1 DEF Without
        <5>3. Recording("price", p) /\ "price" \in Kinds /\ Ser("price", states[p]) = states[p].price
          BY Price
        <5>4. HasValue(states[p].price)
          BY <1>2, <3>2, <5>2, <5>3 DEF Known
        <5>5. QED
          BY <4>1, <5>4
      <4>4. QED
        BY <4>2, <4>3 DEF Kinds
    <3>3. QED
      BY <3>1, <3>2
  <2>4. h[1] = v /\ v # NoValue
    BY <1>8
  <2> HIDE DEF s, h, n, b, v, u
  <2>5. s.points = <<>> /\ s.carry = NoValue => Follows(Add(s, b, v), h, n, b, runFrom)
    BY <1>5, <1>6, <2>2, <2>4, FollowsPrime
  <2>6. QED
    BY <1>4, <1>8, <2>3, <2>5
<1>9. QED
  BY <1>2, <1>7, <1>8, PrimeSeriesIs

LEMMA FollowApply == Sound /\ Apply => Follow'
<1> SUFFICES ASSUME Sound, Apply,
                    Without({"skip"})', NEW kind \in Kinds, NEW p \in DOMAIN states', Recording(kind, p)'
             PROVE  Follows(Ser(kind, states'[p]), Hist(kind, p)', now', Upto', runFrom')
  BY DEF Follow
<1>1. Next
  BY DEF Next
<1>2. Without({"skip"}) /\ Recording(kind, p) /\ EngineType /\ Grounded /\ EthInv /\ Follow
  BY <1>1, WithoutBefore DEF Sound
<1>3. UNCHANGED <<chainVars, ops, runFrom>> /\ at = "apply" /\ at' = "refresh"
  BY DEF Apply
<1> DEFINE s == Ser(kind, StateOf(states, p))
           h == Hist(kind, p)
           n == now
           v == Hist(kind, p)[0]
<1>4. /\ Hist(kind, p)' = h /\ now' = n /\ runFrom' = runFrom /\ Upto = n - 1 /\ Upto' = n
  BY <1>3, Kept DEF Upto
<1>5. s \in Series /\ Follows(s, h, n, n - 1, runFrom)
  BY <1>2, <1>4, StateFollows
<1>6. n \in Int /\ runFrom \in Int /\ runFrom <= n
  BY <1>2, <1>3, Numerals
<1>7. v \in Int
  <2>1. p \in Pools
    BY <1>2, ApplyDoes
  <2>2. QED
    BY <1>2, <2>1, HistIs
<1>8. h[0] = v
  OBVIOUS
<1>9. \/ v # NoValue /\ Ser(kind, states'[p]) = Add(s, n, v)
      \/ Ser(kind, states'[p]) = s /\ h[0] = h[1]
  BY <1>2, ApplySeriesIs
<1> HIDE DEF s, h, n, v
<1>10. v # NoValue => Follows(Add(s, n, v), h, n, n, runFrom)
  BY <1>5, <1>6, <1>7, <1>8, FollowsAdd
<1>11. h[0] = h[1] => Follows(s, h, n, n, runFrom)
  BY <1>5, <1>6, FollowsQuiet
<1>12. QED
  BY <1>4, <1>9, <1>10, <1>11

LEMMA FollowRefresh == Sound /\ Refresh => Follow'
<1> SUFFICES ASSUME Sound, Refresh,
                    Without({"skip"})', NEW kind \in Kinds, NEW p \in DOMAIN states', Recording(kind, p)'
             PROVE  Follows(Ser(kind, states'[p]), Hist(kind, p)', now', Upto', runFrom')
  BY DEF Follow
<1>1. Next
  BY DEF Next
<1>2. Without({"skip"}) /\ Recording(kind, p) /\ EngineType /\ Follow
  BY <1>1, WithoutBefore DEF Sound
<1>3. UNCHANGED <<chainVars, runFrom>> /\ at = "refresh" /\ at' = "evaluate"
  BY DEF Refresh
<1>4. /\ Hist(kind, p)' = Hist(kind, p) /\ now' = now /\ runFrom' = runFrom /\ Upto = now /\ Upto' = now
  BY <1>3, Kept DEF Upto
<1>5. Ser(kind, states'[p]) = Ser(kind, StateOf(states, p))
  BY <1>2, RefreshSeriesIs
<1>6. Follows(Ser(kind, StateOf(states, p)), Hist(kind, p), now, Upto, runFrom)
  BY <1>2, StateFollows
<1>7. QED
  BY <1>4, <1>5, <1>6

LEMMA FollowJudged == \A q \in Pools : Sound /\ (Dismiss(q) \/ Evaluate(q)) => Follow'
<1> SUFFICES ASSUME NEW q \in Pools, Sound, Dismiss(q) \/ Evaluate(q),
                    Without({"skip"})', NEW kind \in Kinds, NEW p \in DOMAIN states', Recording(kind, p)'
             PROVE  Follows(Ser(kind, states'[p]), Hist(kind, p)', now', Upto', runFrom')
  BY DEF Follow
<1>1. Next
  BY DEF Next
<1>2. Without({"skip"}) /\ Recording(kind, p) /\ EngineType /\ Grounded /\ Follow
  BY <1>1, WithoutBefore DEF Sound
<1>3. UNCHANGED <<chainVars, runFrom>> /\ at = "evaluate" /\ at' = "evaluate"
  BY <1>2, JudgedDoes
<1>4. /\ Hist(kind, p)' = Hist(kind, p) /\ now' = now /\ runFrom' = runFrom /\ Upto = now /\ Upto' = now
  BY <1>3, Kept DEF Upto
<1>5. /\ p \in DOMAIN states
      /\ \/ Ser(kind, states'[p]) = Ser(kind, states[p])
         \/ Ser(kind, states'[p]) = Prune(Ser(kind, states[p]), now, Window)
  BY <1>2, JudgedSeriesIs
<1> DEFINE s == Ser(kind, states[p])
           h == Hist(kind, p)
<1>6. s \in Series /\ Follows(s, h, now, now, runFrom)
  BY <1>2, <1>4, <1>5, StateFollows
<1>7. now \in Int /\ runFrom \in Int
  BY <1>2, Numerals
<1> HIDE DEF s, h
<1>8. Follows(Prune(s, now, Window), h, now, now, runFrom)
  BY <1>6, <1>7, FollowsPrune
<1>9. QED
  BY <1>4, <1>5, <1>6, <1>8 DEF s, h

LEMMA FollowStep == Sound /\ [Next]_vars => Follow'
<1> SUFFICES ASSUME Sound, [Next]_vars PROVE Follow'
  OBVIOUS
<1>0. EngineType /\ Follow
  BY DEF Sound
<1>1. CASE UNCHANGED <<chainVars, states, at, runFrom, happened>>
  <2>1. Upto' = Upto /\ Without({"skip"})' = Without({"skip"})
        /\ \A kind, p : Recording(kind, p)' = Recording(kind, p)
    BY <1>1 DEF Upto, Without, Recording, chainVars
  <2>2. QED
    BY <1>0, <1>1, <2>1, Kept DEF Follow
<1>2. CASE UNCHANGED vars
  BY <1>1, <1>2 DEF vars, engineVars
<1>3. CASE Wait
  BY <1>2, <1>3 DEF Wait
<1>4. CASE Begin \/ EmptyBlock \/ SkipBlock
  BY <1>4, FollowBlock
<1>5. CASE Bootstrap \/ Finish
  <2> SUFFICES ASSUME Without({"skip"})', NEW kind \in Kinds, NEW p \in DOMAIN states', Recording(kind, p)'
               PROVE  Follows(Ser(kind, states'[p]), Hist(kind, p)', now', Upto', runFrom')
    BY DEF Follow
  <2>1. Next
    BY <1>5 DEF Next
  <2>2. Without({"skip"}) /\ Recording(kind, p)
    BY <1>0, <2>1, WithoutBefore
  <2>3. /\ UNCHANGED <<chainVars, runFrom>> /\ p \in DOMAIN states /\ states'[p] = states[p]
        /\ \/ at = "eth" /\ at' = "prime"
           \/ at = "evaluate" /\ at' = "idle"
    BY <1>0, <1>5, FinishDoes DEF Bootstrap
  <2>4. /\ Hist(kind, p)' = Hist(kind, p) /\ now' = now /\ runFrom' = runFrom /\ Upto' = Upto
    BY <2>3, Kept DEF Upto
  <2>5. QED
    BY <1>0, <2>2, <2>3, <2>4 DEF Follow
<1>6. CASE Prime
  BY <1>6, FollowPrime
<1>7. CASE Apply
  BY <1>7, FollowApply
<1>8. CASE Refresh
  BY <1>8, FollowRefresh
<1>9. CASE \E q \in Pools : Dismiss(q) \/ Evaluate(q)
  BY <1>9, FollowJudged
<1>10. CASE Restart
  <2>1. DOMAIN states' = {}
    BY <1>10 DEF Restart
  <2>2. QED
    BY <2>1 DEF Follow
<1>11. QED
  BY <1>2, <1>3, <1>4, <1>5, <1>6, <1>7, <1>8, <1>9, <1>10 DEF Next

-----------------------------------------------------------------------------
(* As long as no read of the state before a block fails, a pool with a     *)
(* state has a price, and a pool with events has a state.                  *)

LEMMA AddHasValue ==
    ASSUME NEW s \in Series, NEW b \in Int, NEW v \in Int, v # NoValue
    PROVE  HasValue(Add(s, b, v))
<1>1. Add(s, b, v).current = v
  BY AddIs
<1>2. QED
  BY <1>1 DEF HasValue

LEMMA KnownPrime == Sound /\ Prime => Known'
<1> SUFFICES ASSUME Sound, Prime, Without({"prime", "skip"})' PROVE Known'
  BY DEF Known
<1>1. Next
  BY DEF Next
<1>2. Without({"prime", "skip"}) /\ EngineType /\ Grounded /\ EthInv /\ Follow /\ Known
  BY <1>1, WithoutBefore DEF Sound
<1>3. UNCHANGED <<chainVars, ops, runFrom>> /\ at = "prime" /\ at' = "apply" /\ "prime" \notin happened'
  BY DEF Prime, Without
<1>4. ASSUME NEW kind \in Kinds, NEW p \in DOMAIN states', Recording(kind, p)'
      PROVE  HasValue(Ser(kind, states'[p]))
  <2>1. Recording(kind, p)
    BY <1>1, <1>2, <1>4, WithoutBefore
  <2>2. CASE p \in DOMAIN states /\ Ser(kind, states'[p]) = Ser(kind, states[p])
    BY <1>2, <2>1, <2>2 DEF Known
  <2>3. CASE /\ p \in NeedPrime /\ Hist(kind, p)[1] # NoValue
             /\ Ser(kind, states'[p]) = Add(Ser(kind, StateOf(states, p)), now - 1, Hist(kind, p)[1])
    <3>1. p \in Pools
      BY <2>3 DEF NeedPrime, TouchedPools
    <3>2. Hist(kind, p)[1] \in Int /\ now - 1 \in Int /\ StateOf(states, p) \in PoolStates
      BY <1>2, <3>1, HistIs, Numerals, StateOfIs
    <3>3. Ser(kind, StateOf(states, p)) \in Series
      BY <3>2, SerIs
    <3>4. QED
      BY <2>3, <3>2, <3>3, AddHasValue
  <2>4. QED
    BY <1>2, <1>4, <2>2, <2>3, PrimeSeriesIs
<1>5. price' = price /\ TouchedPools' = TouchedPools
  BY <1>3 DEF chainVars, TouchedPools
<1>6. ASSUME NEW p \in TouchedPools, p \notin DOMAIN states' PROVE price[p][1] = NoValue
  <2>1. p \notin DOMAIN states
    BY <1>2, <1>6, PrimeDoes
  <2>2. p \in NeedPrime
    BY <2>1 DEF NeedPrime, HasPrice
  <2>3. QED
    BY <1>2, <1>3, <1>6, <2>2, PrimeDoes
<1>7. QED
  BY <1>3, <1>4, <1>5, <1>6 DEF Known

LEMMA KnownApply == Sound /\ Apply => Known'
<1> SUFFICES ASSUME Sound, Apply, Without({"prime", "skip"})' PROVE Known'
  BY DEF Known
<1>1. Next
  BY DEF Next
<1>2. Without({"prime", "skip"}) /\ EngineType /\ Grounded /\ EthInv /\ Follow /\ Known
  BY <1>1, WithoutBefore DEF Sound
<1>3. UNCHANGED <<chainVars, ops, runFrom>> /\ at = "apply" /\ at' = "refresh"
  BY DEF Apply
<1>4. \A p \in TouchedPools \ DOMAIN states : price[p][1] = NoValue
  BY <1>2, <1>3 DEF Known
<1>5. \A p \in Pools : p \in DOMAIN states' <=> p \in DOMAIN states \/ Recorded(p)
  BY <1>2, ApplyDoes
<1>6. ASSUME NEW kind \in Kinds, NEW p \in DOMAIN states', Recording(kind, p)'
      PROVE  HasValue(Ser(kind, states'[p]))
  <2>1. Recording(kind, p) /\ p \in Pools
    BY <1>1, <1>2, <1>6, WithoutBefore, ApplyDoes
  <2>2. CASE /\ Hist(kind, p)[0] # NoValue
             /\ Ser(kind, states'[p]) = Add(Ser(kind, StateOf(states, p)), now, Hist(kind, p)[0])
    <3>1. Hist(kind, p)[0] \in Int /\ now \in Int /\ StateOf(states, p) \in PoolStates
      BY <1>2, <2>1, HistIs, Numerals, StateOfIs
    <3>2. Ser(kind, StateOf(states, p)) \in Series
      BY <3>1, SerIs
    <3>3. QED
      BY <2>2, <3>1, <3>2, AddHasValue
  <2>3. CASE /\ Ser(kind, states'[p]) = Ser(kind, StateOf(states, p))
             /\ p \notin DOMAIN states => p \in TouchedPools /\ price[p][1] # NoValue
    <3>1. p \in DOMAIN states
      BY <1>4, <2>3
    <3>2. StateOf(states, p) = states[p]
      BY <1>2, <3>1, StateOfIs
    <3>3. QED
      BY <1>2, <2>1, <2>3, <3>1, <3>2 DEF Known
  <2>4. QED
    BY <1>2, <1>6, <2>2, <2>3, ApplySeriesIs
<1>7. ASSUME NEW p \in TouchedPools PROVE p \in DOMAIN states'
  <2>1. p \in Pools /\ ops[p] # <<>>
    BY DEF TouchedPools, Where
  <2>2. CASE p \in DOMAIN states
    BY <1>5, <2>1, <2>2
  <2>3. CASE p \notin DOMAIN states
    <3>1. Where(ops[p], {"swap"}) # {}
      BY <1>2, <1>3, <1>4, <2>1, <2>3 DEF Grounded, OpsFit
    <3>2. Recorded(p)
      BY <3>1 DEF Recorded, Where
    <3>3. QED
      BY <1>5, <2>1, <3>2
  <2>4. QED
    BY <2>2, <2>3
<1>8. TouchedPools' = TouchedPools
  BY <1>3 DEF TouchedPools
<1>9. QED
  BY <1>3, <1>6, <1>7, <1>8 DEF Known

LEMMA KnownRefresh == Sound /\ Refresh => Known'
<1> SUFFICES ASSUME Sound, Refresh, Without({"prime", "skip"})' PROVE Known'
  BY DEF Known
<1>1. Next
  BY DEF Next
<1>2. Without({"prime", "skip"}) /\ EngineType /\ Follow /\ Known
  BY <1>1, WithoutBefore DEF Sound
<1>3. UNCHANGED <<chainVars, ops, runFrom>> /\ at = "refresh" /\ at' = "evaluate"
  BY DEF Refresh
<1>4. TouchedPools \subseteq DOMAIN states /\ DOMAIN states \subseteq DOMAIN states'
  BY <1>2, <1>3, RefreshDoes DEF Known
<1>5. ASSUME NEW kind \in Kinds, NEW p \in DOMAIN states', Recording(kind, p)'
      PROVE  HasValue(Ser(kind, states'[p]))
  <2>1. Recording(kind, p)
    BY <1>1, <1>2, <1>5, WithoutBefore
  <2>2. Ser(kind, states'[p]) = Ser(kind, StateOf(states, p)) /\ p \in DOMAIN states
    BY <1>2, <1>4, <1>5, RefreshSeriesIs
  <2>3. StateOf(states, p) = states[p]
    BY <1>2, <2>2, StateOfIs
  <2>4. QED
    BY <1>2, <2>1, <2>2, <2>3 DEF Known
<1>6. TouchedPools' = TouchedPools
  BY <1>3 DEF TouchedPools
<1>7. QED
  BY <1>3, <1>4, <1>5, <1>6 DEF Known

LEMMA KnownJudged == \A q \in Pools : Sound /\ (Dismiss(q) \/ Evaluate(q)) => Known'
<1> SUFFICES ASSUME NEW q \in Pools, Sound, Dismiss(q) \/ Evaluate(q), Without({"prime", "skip"})' PROVE Known'
  BY DEF Known
<1>1. Next
  BY DEF Next
<1>2. Without({"prime", "skip"}) /\ Without({"skip"}) /\ EngineType /\ Grounded /\ Follow /\ Known
  BY <1>1, WithoutBefore DEF Sound, Without
<1>3. UNCHANGED <<chainVars, ops, runFrom>> /\ at = "evaluate" /\ at' = "evaluate" /\ DOMAIN states' = DOMAIN states
  BY <1>2, JudgedDoes
<1>4. ASSUME NEW kind \in Kinds, NEW p \in DOMAIN states', Recording(kind, p)'
      PROVE  HasValue(Ser(kind, states'[p]))
  <2> DEFINE s == Ser(kind, states[p])
  <2>1. Recording(kind, p)
    BY <1>1, <1>2, <1>4, WithoutBefore
  <2>2. /\ p \in DOMAIN states
        /\ Ser(kind, states'[p]) = s \/ Ser(kind, states'[p]) = Prune(s, now, Window)
    BY <1>2, JudgedSeriesIs
  <2>3. s \in Series /\ Ordered(s) /\ HasValue(s) /\ now \in Int
    BY <1>2, <2>1, <2>2, StateFollows, Numerals DEF Known
  <2> HIDE DEF s
  <2>4. HasValue(Prune(s, now, Window))
    BY <2>3, PruneKeeps
  <2>5. QED
    BY <2>2, <2>3, <2>4
<1>5. TouchedPools' = TouchedPools
  BY <1>3 DEF TouchedPools
<1>6. QED
  BY <1>2, <1>3, <1>4, <1>5 DEF Known

LEMMA KnownStep == Sound /\ [Next]_vars => Known'
<1> SUFFICES ASSUME Sound, [Next]_vars PROVE Known'
  OBVIOUS
<1>0. EngineType /\ Known
  BY DEF Sound
<1>1. CASE UNCHANGED vars
  BY <1>0, <1>1 DEF vars, chainVars, engineVars, Known, Without, Recording, TouchedPools
<1>2. CASE Wait
  BY <1>1, <1>2 DEF Wait
<1>3. CASE Begin \/ EmptyBlock \/ SkipBlock \/ Bootstrap \/ Finish
  <2> SUFFICES ASSUME Without({"prime", "skip"})' PROVE Known'
    BY DEF Known
  <2>1. /\ at' \in {"idle", "eth", "prime"} /\ DOMAIN states' \subseteq DOMAIN states
        /\ \A p \in DOMAIN states' : states'[p] = states[p]
    BY <1>0, <1>3, FinishDoes DEF Begin, EmptyBlock, SkipBlock, Bootstrap, engineVars
  <2>2. Without({"prime", "skip"}) /\ \A kind, p : Recording(kind, p)' => Recording(kind, p)
    BY <1>0, WithoutBefore
  <2>3. QED
    BY <1>0, <2>1, <2>2 DEF Known
<1>4. CASE Prime
  BY <1>4, KnownPrime
<1>5. CASE Apply
  BY <1>5, KnownApply
<1>6. CASE Refresh
  BY <1>6, KnownRefresh
<1>7. CASE \E q \in Pools : Dismiss(q) \/ Evaluate(q)
  BY <1>7, KnownJudged
<1>8. CASE Restart
  <2>1. DOMAIN states' = {} /\ at' \in {"idle", "eth"}
    BY <1>8 DEF Restart
  <2>2. QED
    BY <2>1 DEF Known
<1>9. QED
  BY <1>1, <1>2, <1>3, <1>4, <1>5, <1>6, <1>7, <1>8 DEF Next

LEMMA SoundInit == Init => Sound
<1> SUFFICES ASSUME Init PROVE Sound
  OBVIOUS
<1>1. EngineType /\ Grounded
  BY TypeInit, GroundedInit
<1>2. DOMAIN states = {} /\ at = "idle"
  BY DEF Init
<1>3. QED
  BY <1>1, <1>2 DEF Sound, EthInv, Follow, Known

LEMMA SoundStep == Sound /\ [Next]_vars => Sound'
BY TypeStep, GroundedStep, EthStep, FollowStep, KnownStep DEF Sound

LEMMA SoundInvariant == Spec => []Sound
BY SoundInit, SoundStep, PTL DEF Spec

-----------------------------------------------------------------------------
(* A pool without a state has been quiet for a window: that is what makes  *)
(* it right to start its series anew.                                      *)

(* From block l on, as far as a run (its first block is r) and a window    *)
(* that ends with block u reach back, the value was w.                     *)
Still(h, n, u, r, l, w) ==
    \A k \in Back :
        /\ r - 1 <= n - k /\ n - k <= u /\ u - (n - k) <= Window - 1 /\ l <= n - k
        => h[k] \in {NoValue, w}

Latest(kind, p) == IF at \in {"eth", "prime", "apply"} THEN Hist(kind, p)[1] ELSE Hist(kind, p)[0]

Quiet(kind, p) ==
    Still(Hist(kind, p), now, Upto, runFrom, StateOf(states, p).lastBlock, Latest(kind, p))

Exact ==
    KeepsWindow /\ Without({"prime", "skip"}) => \A kind \in Kinds, p \in Pools : Recording(kind, p) =>
        /\ Quiet(kind, p)
        /\ p \in DOMAIN states => Complete(Ser(kind, states[p]), Hist(kind, p), now, runFrom)

LEMMA StillShift ==
    ASSUME NEW h, NEW g, NEW n \in Int, NEW next \in Int, next = n + 1, NEW r \in Int, NEW l \in Int, NEW w,
           Still(h, n, n, r, l, w), \A k \in 1 .. Window : g[k] = h[k - 1]
    PROVE  Still(g, next, n, r, l, w)
<1> SUFFICES ASSUME NEW k \in Back, r - 1 <= next - k, next - k <= n, n - (next - k) <= Window - 1, l <= next - k
             PROVE  g[k] \in {NoValue, w}
  BY DEF Still
<1>1. k \in 1 .. Window /\ k - 1 \in Back /\ next - k = n - (k - 1)
  BY Numbers
<1>2. h[k - 1] \in {NoValue, w}
  <2> DEFINE j == k - 1
  <2>1. j \in Back /\ r - 1 <= n - j /\ n - j <= n /\ n - (n - j) <= Window - 1 /\ l <= n - j
    BY <1>1
  <2> HIDE DEF j
  <2>2. h[j] \in {NoValue, w}
    BY <2>1 DEF Still
  <2>3. QED
    BY <2>2 DEF j
<1>3. QED
  BY <1>1, <1>2

LEMMA StillQuiet ==
    ASSUME NEW h, NEW n \in Int, NEW b \in Int, b = n - 1, NEW r \in Int, NEW l \in Int,
           Still(h, n, b, r, l, h[1]), h[0] = h[1]
    PROVE  Still(h, n, n, r, l, h[0])
<1> SUFFICES ASSUME NEW k \in Back, r - 1 <= n - k, n - k <= n, n - (n - k) <= Window - 1, l <= n - k
             PROVE  h[k] \in {NoValue, h[0]}
  BY DEF Still
<1>1. CASE k = 0
  BY <1>1
<1>2. CASE k # 0
  <2>1. r - 1 <= n - k /\ n - k <= b /\ b - (n - k) <= Window - 1 /\ l <= n - k
    BY <1>2, Numbers
  <2>2. h[k] \in {NoValue, h[1]}
    BY <2>1 DEF Still
  <2>3. QED
    BY <2>2
<1>3. QED
  BY <1>1, <1>2

LEMMA StillNow ==
    ASSUME NEW h, NEW n \in Int, NEW r \in Int, NEW l \in Int, l = n \/ r = n + 1
    PROVE  Still(h, n, n, r, l, h[0])
<1> SUFFICES ASSUME NEW k \in Back, r - 1 <= n - k, l <= n - k
             PROVE  h[k] \in {NoValue, h[0]}
  BY DEF Still
<1>1. k = 0
  BY Numbers
<1>2. QED
  BY <1>1

LEMMA StillBefore ==
    ASSUME NEW h, NEW n \in Int, NEW b \in Int, b = n - 1, NEW l \in Int
    PROVE  Still(h, n, b, n, l, h[1])
<1> SUFFICES ASSUME NEW k \in Back, n - 1 <= n - k, n - k <= b
             PROVE  h[k] \in {NoValue, h[1]}
  BY DEF Still
<1>1. k = 1
  BY Numbers
<1>2. QED
  BY <1>1

LEMMA StillUnloaded ==
    ASSUME KeepsWindow, NEW h, NEW n \in Int, NEW r \in Int, NEW l \in Int, NEW w,
           Still(h, n, n, r, l, w), l < n - StateGc, NEW m \in Int
    PROVE  Still(h, n, n, r, m, w)
<1> SUFFICES ASSUME NEW k \in Back, r - 1 <= n - k, n - k <= n, n - (n - k) <= Window - 1
             PROVE  h[k] \in {NoValue, w}
  BY DEF Still
<1>1. l <= n - k
  BY Numbers DEF KeepsWindow
<1>2. QED
  BY <1>1 DEF Still

LEMMA LastIs ==
    ASSUME EngineType, NEW p
    PROVE  /\ StateOf(states, p).lastBlock \in Int
           /\ p \in DOMAIN states => StateOf(states, p).lastBlock = states[p].lastBlock
           /\ p \notin DOMAIN states => StateOf(states, p).lastBlock = 0
BY StateOfIs, PartsOf DEF NewState

LEMMA ExactBlock == Sound /\ Exact /\ (Begin \/ EmptyBlock \/ SkipBlock) => Exact'
<1> SUFFICES ASSUME Sound, Exact, Begin \/ EmptyBlock \/ SkipBlock, KeepsWindow, Without({"prime", "skip"})',
                    NEW kind \in Kinds, NEW p \in Pools, Recording(kind, p)'
             PROVE  /\ Quiet(kind, p)'
                    /\ p \in DOMAIN states' => Complete(Ser(kind, states'[p]), Hist(kind, p)', now', runFrom')
  BY DEF Exact, KeepsWindow
<1>1. Next
  BY DEF Next
<1>2. /\ Without({"prime", "skip"}) /\ Without({"skip"}) /\ Recording(kind, p) /\ EngineType /\ Grounded
      /\ Follow /\ Known
  BY <1>1, WithoutBefore DEF Sound, Without
<1>3. ~SkipBlock
  BY DEF SkipBlock, Fault, Without
<1>4. /\ states' = states /\ runFrom' = runFrom /\ at = "idle"
      /\ Begin => at' = "eth"
      /\ EmptyBlock => at' = "idle"
  BY <1>3 DEF Begin, EmptyBlock, engineVars
<1> DEFINE h == Hist(kind, p)
           g == Hist(kind, p)'
           n == now
           next == now'
           r == runFrom
           l == StateOf(states, p).lastBlock
<1>5. /\ \A k \in 1 .. Window : g[k] = h[k - 1]
      /\ g[1] = h[0]
      /\ EmptyBlock => g[0] = g[1]
  BY <1>2, BlockSeriesIs
<1>6. now' = now + 1
  BY DEF Begin, EmptyBlock, SkipBlock, NextBlock
<1>7. n \in Int /\ next \in Int /\ next = n + 1 /\ r \in Int /\ l \in Int
  BY <1>2, <1>6, Numerals, LastIs
<1>8. Still(h, n, n, r, l, h[0]) /\ (p \in DOMAIN states => Complete(Ser(kind, states[p]), h, n, r))
  BY <1>2, <1>4 DEF Exact, Quiet, Latest, Upto
<1>9. StateOf(states', p) = StateOf(states, p)
  BY <1>4
<1>10. p \in DOMAIN states' => Complete(Ser(kind, states'[p]), Hist(kind, p)', now', runFrom')
  <2> SUFFICES ASSUME p \in DOMAIN states PROVE Complete(Ser(kind, states[p]), g, next, r)
    BY <1>4
  <2> DEFINE s == Ser(kind, states[p])
  <2>1. s \in Series /\ Follows(s, h, n, n, r) /\ Complete(s, h, n, r)
    BY <1>2, <1>4, <1>8, StateFollows DEF Upto
  <2> HIDE DEF s, h, g, n, next, r
  <2>2. Complete(s, g, next, r)
    BY <1>5, <1>7, <2>1, CompleteShift
  <2>3. QED
    BY <2>2 DEF s
<1> HIDE DEF h, g, n, next, r, l
<1>11. Still(g, next, n, r, l, h[0])
  BY <1>5, <1>7, <1>8, StillShift
<1>12. Still(g, next, n, r, l, g[1]) /\ n = next - 1
  BY <1>5, <1>7, <1>11
<1>13. EmptyBlock => Still(g, next, next, r, l, g[0])
  BY <1>5, <1>7, <1>12, StillQuiet
<1>14. CASE Begin
  <2>1. Upto' = n /\ Latest(kind, p)' = g[1]
    BY <1>4, <1>12, <1>14 DEF Upto, Latest, next, g
  <2>2. QED
    BY <1>4, <1>9, <1>10, <1>12, <2>1 DEF Quiet, g, next, r, l
<1>15. CASE EmptyBlock
  <2>1. Upto' = next /\ Latest(kind, p)' = g[0]
    BY <1>4, <1>15 DEF Upto, Latest, next, g
  <2>2. QED
    BY <1>4, <1>9, <1>10, <1>13, <1>15, <2>1 DEF Quiet, g, next, r, l
<1>16. QED
  BY <1>3, <1>14, <1>15

(* The steps that move neither the chain nor what the detector was told.   *)
LEMMA QuietKept ==
    ASSUME UNCHANGED <<chainVars, runFrom>>, Upto' = Upto, NEW kind, NEW p, Quiet(kind, p),
           Latest(kind, p)' = Latest(kind, p),
           StateOf(states', p).lastBlock = StateOf(states, p).lastBlock
    PROVE  Quiet(kind, p)'
BY Kept DEF Quiet

LEMMA ExactPrime == Sound /\ Exact /\ Prime => Exact'
<1> SUFFICES ASSUME Sound, Exact, Prime, KeepsWindow, Without({"prime", "skip"})',
                    NEW kind \in Kinds, NEW p \in Pools, Recording(kind, p)'
             PROVE  /\ Quiet(kind, p)'
                    /\ p \in DOMAIN states' => Complete(Ser(kind, states'[p]), Hist(kind, p)', now', runFrom')
  BY DEF Exact, KeepsWindow
<1>1. Next
  BY DEF Next
<1>2. /\ Without({"prime", "skip"}) /\ Without({"skip"}) /\ Recording(kind, p) /\ EngineType /\ Grounded
      /\ EthInv /\ Follow /\ Known
  BY <1>1, WithoutBefore DEF Sound, Without
<1>3. UNCHANGED <<chainVars, ops, runFrom>> /\ at = "prime" /\ at' = "apply"
  BY DEF Prime
<1> DEFINE h == Hist(kind, p)
           n == now
           b == now - 1
           r == runFrom
           v == Hist(kind, p)[1]
<1>4. /\ Hist(kind, p)' = h /\ now' = n /\ runFrom' = r /\ Upto = b /\ Upto' = b
      /\ Latest(kind, p) = v /\ Latest(kind, p)' = v
  BY <1>3, Kept DEF Upto, Latest
<1>5. Quiet(kind, p) /\ (p \in DOMAIN states => Complete(Ser(kind, states[p]), h, n, r))
  BY <1>2 DEF Exact
<1>6. StateOf(states', p).lastBlock = StateOf(states, p).lastBlock
  <2>1. CASE p \in DOMAIN states' /\ p \in DOMAIN states /\ states'[p] = states[p]
    BY <2>1 DEF StateOf
  <2>2. CASE p \notin DOMAIN states'
    <3>1. p \notin DOMAIN states
      BY <1>2, <2>2, PrimeDoes
    <3>2. QED
      BY <2>2, <3>1 DEF StateOf
  <2>3. CASE p \in DOMAIN states' /\ \E c \in BOOLEAN : states'[p] = PrimePool(StateOf(states, p), p, c)
    <3>1. PICK c \in BOOLEAN : states'[p] = PrimePool(StateOf(states, p), p, c)
      BY <2>3
    <3>2. PrimePool(StateOf(states, p), p, c).lastBlock = StateOf(states, p).lastBlock
      BY <1>2, StateOfIs, PrimePoolIs
    <3>3. QED
      BY <2>3, <3>1, <3>2 DEF StateOf
  <2>4. QED
    BY <1>2, <2>1, <2>2, <2>3, PrimeDoes
<1>7. Quiet(kind, p)'
  BY <1>3, <1>4, <1>5, <1>6, QuietKept
<1>8. ASSUME p \in DOMAIN states' PROVE Complete(Ser(kind, states'[p]), h, n, r)
  <2>1. CASE p \in DOMAIN states /\ Ser(kind, states'[p]) = Ser(kind, states[p])
    BY <1>5, <2>1
  <2>2. CASE /\ p \in NeedPrime /\ v # NoValue
             /\ Ser(kind, states'[p]) = Add(Ser(kind, StateOf(states, p)), b, v)
    <3>1. p \notin DOMAIN states
      <4>1. ~HasPrice(states, p)
        BY <2>2 DEF NeedPrime
      <4>2. p \in DOMAIN states => HasValue(states[p].price)
        BY <1>2, Price DEF Known
      <4>3. QED
        BY <4>1, <4>2 DEF HasPrice
    <3> DEFINE s == Ser(kind, StateOf(states, p))
    <3>2. s = EmptySeries /\ s \in Series
      BY <1>2, <3>1, StateFollows
    <3>3. Complete(s, h, n, r)
      BY <3>2, EmptyIs
    <3>4. v \in Int /\ n \in Int /\ b \in Int /\ r \in Int /\ b = n - 1 /\ r >= 1
      <4>1. runFrom >= FirstBlock /\ FirstBlock >= 1 /\ FirstBlock \in Int /\ runFrom \in Int
        BY <1>2, Numbers DEF EngineType, TypeOK
      <4>2. QED
        BY <1>2, <4>1, HistIs, Numerals
    <3>5. Still(h, n, b, r, 0, v)
      BY <1>2, <1>4, <1>5, <3>1, LastIs DEF Quiet
    <3> HIDE DEF s, h, n, b, r, v
    <3>6. \A k \in 0 .. Window : r - 1 <= n - k /\ n - k < b => h[k] \in {NoValue, v}
      <4> SUFFICES ASSUME NEW k \in 0 .. Window, r - 1 <= n - k, n - k < b PROVE h[k] \in {NoValue, v}
        OBVIOUS
      <4>1. k \in Back /\ n - k <= b /\ b - (n - k) <= Window - 1 /\ 0 <= n - k
        BY <3>4, Numbers
      <4>2. QED
        BY <3>5, <4>1 DEF Still
    <3>7. Complete(Add(s, b, v), h, n, r)
      BY <3>2, <3>3, <3>4, <3>6, CompleteAdd
    <3>8. QED
      BY <2>2, <3>7 DEF s
  <2>3. QED
    BY <1>2, <1>8, <2>1, <2>2, PrimeSeriesIs
<1>9. QED
  BY <1>4, <1>7, <1>8

(* A pool whose state the events of the block do not touch has not moved.  *)
LEMMA ApplyLast ==
    ASSUME EngineType, Grounded, Apply, NEW p \in Pools
    PROVE  /\ StateOf(states', p).lastBlock = IF Recorded(p) THEN now ELSE StateOf(states, p).lastBlock
           /\ ~Recorded(p) => \A kind \in Kinds : Recording(kind, p) => Hist(kind, p)[0] = Hist(kind, p)[1]
<1>1. PICK known \in BOOLEAN :
          \A q \in Pools : Recorded(q) => states'[q] = ApplyEvents(StateOf(states, q), q, known)
  BY ApplyDoes
<1>2. /\ p \in DOMAIN states' <=> p \in DOMAIN states \/ Recorded(p)
      /\ p \in DOMAIN states /\ ~Recorded(p) => states'[p] = states[p]
      /\ at = "apply"
  BY ApplyDoes
<1>3. CASE Recorded(p)
  <2>1. StateOf(states, p) \in PoolStates /\ StateOf(states, p).lastBlock <= now
    <3>1. StateOf(states, p).lastBlock \in {0} \cup (FirstBlock .. now) /\ now \in Nat
      BY StateOfIs, ChainIs
    <3>2. QED
      BY <3>1, StateOfIs, Numbers
  <2>2. ApplyEvents(StateOf(states, p), p, known).lastBlock = now
    BY <1>3, <2>1, ApplyEventsIs
  <2>3. QED
    BY <1>1, <1>2, <1>3, <2>2 DEF StateOf
<1>4. CASE ~Recorded(p)
  <2>1. StateOf(states', p) = StateOf(states, p)
    BY <1>2, <1>4 DEF StateOf
  <2>2. OpsFit(p)
    BY <1>2 DEF Grounded
  <2>3. Where(ops[p], {"swap"}) = {}
    BY <1>4 DEF Recorded, Where
  <2>4. price[p][0] = price[p][1]
    BY <2>2, <2>3 DEF OpsFit
  <2>5. p \in V2Pools => liquidity[p][0] = liquidity[p][1]
    BY <1>4, <2>2 DEF OpsFit, Recorded
  <2>6. QED
    BY <1>4, <2>1, <2>4, <2>5 DEF Hist, Kinds, Recording
<1>5. QED
  BY <1>3, <1>4

LEMMA ExactApply == Sound /\ Exact /\ Apply => Exact'
<1> SUFFICES ASSUME Sound, Exact, Apply, KeepsWindow, Without({"prime", "skip"})',
                    NEW kind \in Kinds, NEW p \in Pools, Recording(kind, p)'
             PROVE  /\ Quiet(kind, p)'
                    /\ p \in DOMAIN states' => Complete(Ser(kind, states'[p]), Hist(kind, p)', now', runFrom')
  BY DEF Exact, KeepsWindow
<1>1. Next
  BY DEF Next
<1>2. /\ Without({"prime", "skip"}) /\ Without({"skip"}) /\ Recording(kind, p) /\ EngineType /\ Grounded
      /\ EthInv /\ Follow /\ Known
  BY <1>1, WithoutBefore DEF Sound, Without
<1>3. UNCHANGED <<chainVars, ops, runFrom>> /\ at = "apply" /\ at' = "refresh"
  BY DEF Apply
<1> DEFINE h == Hist(kind, p)
           n == now
           b == now - 1
           r == runFrom
           l == StateOf(states, p).lastBlock
           v == Hist(kind, p)[0]
<1>4. /\ Hist(kind, p)' = h /\ now' = n /\ runFrom' = r /\ Upto = b /\ Upto' = n
      /\ Latest(kind, p) = h[1] /\ Latest(kind, p)' = h[0]
  BY <1>3, Kept DEF Upto, Latest
<1>5. Still(h, n, b, r, l, h[1]) /\ (p \in DOMAIN states => Complete(Ser(kind, states[p]), h, n, r))
  BY <1>2, <1>4 DEF Exact, Quiet
<1>6. /\ n \in Int /\ b \in Int /\ b = n - 1 /\ r \in Int /\ l \in Int /\ v \in Int /\ h[0] = v
      /\ r >= 1
  <2>1. runFrom >= FirstBlock /\ FirstBlock >= 1 /\ FirstBlock \in Int /\ runFrom \in Int
    BY <1>2, Numbers DEF EngineType, TypeOK
  <2>2. QED
    BY <1>2, <2>1, HistIs, Numerals, LastIs
<1>7. Quiet(kind, p)'
  <2>1. CASE Recorded(p)
    <3>1. StateOf(states', p).lastBlock = n
      BY <1>2, <2>1, ApplyLast
    <3>2. Still(h, n, n, r, n, h[0])
      BY <1>6, StillNow
    <3>3. QED
      BY <1>4, <3>1, <3>2 DEF Quiet
  <2>2. CASE ~Recorded(p)
    <3>1. StateOf(states', p).lastBlock = l /\ h[0] = h[1]
      BY <1>2, <2>2, ApplyLast
    <3>2. Still(h, n, n, r, l, h[0])
      BY <1>5, <1>6, <3>1, StillQuiet
    <3>3. QED
      BY <1>4, <3>1, <3>2 DEF Quiet
  <2>3. QED
    BY <2>1, <2>2
<1>8. ASSUME p \in DOMAIN states' PROVE Complete(Ser(kind, states'[p]), h, n, r)
  <2> DEFINE s == Ser(kind, StateOf(states, p))
  <2>1. /\ s \in Series /\ Ordered(s)
        /\ p \in DOMAIN states => s = Ser(kind, states[p]) /\ HasValue(s)
        /\ p \notin DOMAIN states => s = EmptySeries
    <3>1. /\ s \in Series /\ Ordered(s)
          /\ p \in DOMAIN states => s = Ser(kind, states[p])
          /\ p \notin DOMAIN states => s = EmptySeries
      BY <1>2, StateFollows
    <3>2. p \in DOMAIN states => HasValue(Ser(kind, states[p]))
      BY <1>2 DEF Known
    <3>3. QED
      BY <3>1, <3>2
  <2>2. p \notin DOMAIN states => p \in TouchedPools /\ price[p][1] = NoValue
    <3> SUFFICES ASSUME p \notin DOMAIN states PROVE p \in TouchedPools /\ price[p][1] = NoValue
      OBVIOUS
    <3>1. Recorded(p)
      BY <1>2, <1>8, ApplyDoes
    <3>2. p \in TouchedPools
      BY <3>1 DEF Recorded, TouchedPools, Where, Emitting
    <3>3. QED
      BY <1>2, <1>3, <3>2 DEF Known
  <2>3. Complete(s, h, n, r)
    BY <1>5, <2>1, EmptyIs
  <2>4. CASE v # NoValue /\ Ser(kind, states'[p]) = Add(s, n, v)
    <3>1. p \notin DOMAIN states => h[1] = NoValue
      BY <1>2, <2>2, Numbers DEF Grounded, Hist
    <3>2. p \notin DOMAIN states => l = 0
      BY <1>2, LastIs
    <3>3. p \in DOMAIN states => ~(s.points = <<>> /\ s.carry = NoValue)
      BY <2>1, BareIs
    <3> HIDE DEF s, h, n, b, r, l, v
    <3>4. s.points = <<>> /\ s.carry = NoValue =>
              \A k \in 0 .. Window : r - 1 <= n - k /\ n - k < n => h[k] \in {NoValue, v}
      <4> SUFFICES ASSUME p \notin DOMAIN states, NEW k \in 0 .. Window, r - 1 <= n - k, n - k < n
                   PROVE  h[k] \in {NoValue, v}
        BY <3>3
      <4>1. k \in Back /\ n - k <= b /\ b - (n - k) <= Window - 1 /\ l <= n - k
        BY <1>6, <3>2, Numbers
      <4>2. h[k] \in {NoValue, h[1]}
        BY <1>5, <4>1 DEF Still
      <4>3. QED
        BY <3>1, <4>2
    <3>5. Complete(Add(s, n, v), h, n, r)
      BY <1>6, <2>1, <2>3, <3>4, CompleteAdd
    <3>6. QED
      BY <2>4, <3>5
  <2>5. CASE /\ Ser(kind, states'[p]) = s
             /\ p \notin DOMAIN states => p \in TouchedPools /\ price[p][1] # NoValue
    BY <2>3, <2>5
  <2>6. QED
    BY <1>2, <1>8, <2>4, <2>5, ApplySeriesIs
<1>9. QED
  BY <1>4, <1>7, <1>8

LEMMA ExactRefresh == Sound /\ Exact /\ Refresh => Exact'
<1> SUFFICES ASSUME Sound, Exact, Refresh, KeepsWindow, Without({"prime", "skip"})',
                    NEW kind \in Kinds, NEW p \in Pools, Recording(kind, p)'
             PROVE  /\ Quiet(kind, p)'
                    /\ p \in DOMAIN states' => Complete(Ser(kind, states'[p]), Hist(kind, p)', now', runFrom')
  BY DEF Exact, KeepsWindow
<1>1. Next
  BY DEF Next
<1>2. /\ Without({"prime", "skip"}) /\ Without({"skip"}) /\ Recording(kind, p) /\ EngineType /\ Follow
  BY <1>1, WithoutBefore DEF Sound, Without
<1>3. UNCHANGED <<chainVars, ops, runFrom>> /\ at = "refresh" /\ at' = "evaluate"
  BY DEF Refresh
<1>4. /\ Hist(kind, p)' = Hist(kind, p) /\ now' = now /\ runFrom' = runFrom /\ Upto' = Upto
      /\ Latest(kind, p)' = Latest(kind, p)
  BY <1>3, Kept DEF Upto, Latest
<1>5. Quiet(kind, p) /\ (p \in DOMAIN states => Complete(Ser(kind, states[p]), Hist(kind, p), now, runFrom))
  BY <1>2 DEF Exact
<1>6. StateOf(states', p).lastBlock = StateOf(states, p).lastBlock
  <2>1. CASE p \in DOMAIN states' /\ p \in DOMAIN states /\ states'[p] = states[p]
    BY <2>1 DEF StateOf
  <2>2. CASE p \notin DOMAIN states'
    <3>1. p \notin DOMAIN states
      BY <1>2, <2>2, RefreshDoes
    <3>2. QED
      BY <2>2, <3>1 DEF StateOf
  <2>3. CASE p \in DOMAIN states' /\ states'[p] = RecordLiquidity(StateOf(states, p), now, liquidity[p][0])
    <3>1. StateOf(states, p) \in PoolStates /\ now \in Int /\ liquidity[p][0] \in Int
      BY <1>2, StateOfIs, ChainIs
    <3>2. RecordLiquidity(StateOf(states, p), now, liquidity[p][0]).lastBlock = StateOf(states, p).lastBlock
      BY <3>1, RecordLiquidityIs
    <3>3. QED
      BY <2>3, <3>2 DEF StateOf
  <2>4. QED
    BY <1>2, <2>1, <2>2, <2>3, RefreshDoes
<1>7. Quiet(kind, p)'
  BY <1>3, <1>4, <1>5, <1>6, QuietKept
<1>8. ASSUME p \in DOMAIN states' PROVE Complete(Ser(kind, states'[p]), Hist(kind, p), now, runFrom)
  <2>1. Ser(kind, states'[p]) = Ser(kind, StateOf(states, p))
    BY <1>2, <1>8, RefreshSeriesIs
  <2>2. /\ p \in DOMAIN states => StateOf(states, p) = states[p]
        /\ p \notin DOMAIN states => Ser(kind, StateOf(states, p)) = EmptySeries
    BY <1>2, StateFollows
  <2>3. QED
    BY <1>5, <2>1, <2>2, EmptyIs
<1>9. QED
  BY <1>4, <1>7, <1>8

LEMMA ExactJudged == \A q \in Pools : Sound /\ Exact /\ (Dismiss(q) \/ Evaluate(q)) => Exact'
<1> SUFFICES ASSUME NEW q \in Pools, Sound, Exact, Dismiss(q) \/ Evaluate(q), KeepsWindow,
                    Without({"prime", "skip"})', NEW kind \in Kinds, NEW p \in Pools, Recording(kind, p)'
             PROVE  /\ Quiet(kind, p)'
                    /\ p \in DOMAIN states' => Complete(Ser(kind, states'[p]), Hist(kind, p)', now', runFrom')
  BY DEF Exact, KeepsWindow
<1>1. Next
  BY DEF Next
<1>2. /\ Without({"prime", "skip"}) /\ Without({"skip"}) /\ Recording(kind, p) /\ EngineType /\ Grounded /\ Follow
  BY <1>1, WithoutBefore DEF Sound, Without
<1>3. UNCHANGED <<chainVars, ops, runFrom>> /\ at = "evaluate" /\ at' = "evaluate" /\ DOMAIN states' = DOMAIN states
  BY <1>2, JudgedDoes
<1>4. /\ Hist(kind, p)' = Hist(kind, p) /\ now' = now /\ runFrom' = runFrom /\ Upto' = Upto /\ Upto = now
      /\ Latest(kind, p)' = Latest(kind, p)
  BY <1>3, Kept DEF Upto, Latest
<1>5. Quiet(kind, p) /\ (p \in DOMAIN states => Complete(Ser(kind, states[p]), Hist(kind, p), now, runFrom))
  BY <1>2 DEF Exact
<1>6. StateOf(states', p).lastBlock = StateOf(states, p).lastBlock
  <2>1. CASE p \in DOMAIN states
    BY <1>2, <1>3, <2>1, JudgedSeriesIs DEF StateOf
  <2>2. CASE p \notin DOMAIN states
    BY <1>3, <2>2 DEF StateOf
  <2>3. QED
    BY <2>1, <2>2
<1>7. Quiet(kind, p)'
  BY <1>3, <1>4, <1>5, <1>6, QuietKept
<1>8. ASSUME p \in DOMAIN states' PROVE Complete(Ser(kind, states'[p]), Hist(kind, p), now, runFrom)
  <2> DEFINE s == Ser(kind, states[p])
             h == Hist(kind, p)
  <2>1. /\ p \in DOMAIN states
        /\ Ser(kind, states'[p]) = s \/ Ser(kind, states'[p]) = Prune(s, now, Window)
    BY <1>2, <1>8, JudgedSeriesIs
  <2>2. s \in Series /\ Follows(s, h, now, now, runFrom) /\ Complete(s, h, now, runFrom)
    BY <1>2, <1>4, <1>5, <2>1, StateFollows
  <2>3. now \in Int /\ runFrom \in Int
    BY <1>2, Numerals
  <2> HIDE DEF s, h
  <2>4. Complete(Prune(s, now, Window), h, now, runFrom)
    BY <2>2, <2>3, CompletePrune
  <2>5. QED
    BY <2>1, <2>2, <2>4 DEF h
<1>9. QED
  BY <1>4, <1>7, <1>8

LEMMA ExactFinish == Sound /\ Exact /\ Finish => Exact'
<1> SUFFICES ASSUME Sound, Exact, Finish, KeepsWindow, Without({"prime", "skip"})',
                    NEW kind \in Kinds, NEW p \in Pools, Recording(kind, p)'
             PROVE  /\ Quiet(kind, p)'
                    /\ p \in DOMAIN states' => Complete(Ser(kind, states'[p]), Hist(kind, p)', now', runFrom')
  BY DEF Exact, KeepsWindow
<1>1. Next
  BY DEF Next
<1>2. Without({"prime", "skip"}) /\ Recording(kind, p) /\ EngineType /\ Grounded
  BY <1>1, WithoutBefore DEF Sound
<1>3. /\ UNCHANGED <<chainVars, runFrom>> /\ at = "evaluate" /\ at' = "idle"
      /\ DOMAIN states' \subseteq DOMAIN states
      /\ \A q \in DOMAIN states' : states'[q] = states[q]
      /\ \A q \in DOMAIN states \ DOMAIN states' : Stale(states[q], now)
  BY <1>2, FinishDoes
<1>4. /\ Hist(kind, p)' = Hist(kind, p) /\ now' = now /\ runFrom' = runFrom /\ Upto' = Upto /\ Upto = now
      /\ Latest(kind, p)' = Latest(kind, p)
  BY <1>3, Kept DEF Upto, Latest
<1>5. Quiet(kind, p) /\ (p \in DOMAIN states => Complete(Ser(kind, states[p]), Hist(kind, p), now, runFrom))
  BY <1>2 DEF Exact
<1>6. Quiet(kind, p)'
  <2>1. CASE StateOf(states', p) = StateOf(states, p)
    BY <1>3, <1>4, <1>5, <2>1, QuietKept
  <2>2. CASE p \in DOMAIN states \ DOMAIN states'
    <3> DEFINE h == Hist(kind, p)
               l == states[p].lastBlock
               w == Latest(kind, p)
    <3>1. StateOf(states', p).lastBlock = 0 /\ l \in Int /\ StateOf(states, p).lastBlock = l
      BY <1>2, <2>2, LastIs DEF StateOf, NewState
    <3>2. l < now - StateGc
      BY <1>3, <2>2 DEF Stale
    <3>3. Still(h, now, now, runFrom, l, w)
      BY <1>4, <1>5, <3>1 DEF Quiet
    <3>4. now \in Int /\ runFrom \in Int
      BY <1>2, Numerals
    <3> HIDE DEF h, l, w
    <3>5. Still(h, now, now, runFrom, 0, w)
      BY <3>1, <3>2, <3>3, <3>4, StillUnloaded
    <3>6. QED
      BY <1>4, <3>1, <3>5 DEF Quiet, h, w
  <2>3. StateOf(states', p) = StateOf(states, p) \/ p \in DOMAIN states \ DOMAIN states'
    BY <1>3 DEF StateOf
  <2>4. QED
    BY <2>1, <2>2, <2>3
<1>7. QED
  BY <1>3, <1>4, <1>5, <1>6

LEMMA ExactRestart == Sound /\ Exact /\ Restart => Exact'
<1> SUFFICES ASSUME Sound, Restart, NEW kind \in Kinds, NEW p \in Pools
             PROVE  Quiet(kind, p)' /\ p \notin DOMAIN states'
  BY DEF Exact, KeepsWindow
<1>1. /\ UNCHANGED chainVars /\ states' = <<>>
      /\ \/ at = "idle" /\ runFrom' = now + 1 /\ at' = "idle"
         \/ at # "idle" /\ runFrom' = now /\ at' = "eth"
  BY DEF Restart
<1> DEFINE h == Hist(kind, p)
           n == now
           b == now - 1
           l == StateOf(states', p).lastBlock
<1>2. Hist(kind, p)' = h /\ now' = n
  BY <1>1 DEF chainVars, Hist
<1>3. n \in Int /\ b \in Int /\ b = n - 1
  BY Numerals DEF Sound
<1>4. DOMAIN states' = {} /\ l = 0
  BY <1>1 DEF StateOf, NewState
<1>5. CASE at = "idle" /\ runFrom' = now + 1 /\ at' = "idle"
  <2>1. Upto' = n /\ Latest(kind, p)' = h[0]
    BY <1>2, <1>5 DEF Upto, Latest
  <2>2. n + 1 \in Int /\ Still(h, n, n, n + 1, l, h[0])
    BY <1>3, <1>4, StillNow
  <2>3. QED
    BY <1>2, <1>4, <1>5, <2>1, <2>2 DEF Quiet
<1>6. CASE at # "idle" /\ runFrom' = now /\ at' = "eth"
  <2>1. Upto' = b /\ Latest(kind, p)' = h[1]
    BY <1>2, <1>6 DEF Upto, Latest
  <2>2. Still(h, n, b, n, l, h[1])
    BY <1>3, <1>4, StillBefore
  <2>3. QED
    BY <1>2, <1>4, <1>6, <2>1, <2>2 DEF Quiet
<1>7. QED
  BY <1>1, <1>5, <1>6

LEMMA ExactInit == Init => Exact
<1> SUFFICES ASSUME Init, NEW kind \in Kinds, NEW p \in Pools PROVE Quiet(kind, p) /\ p \notin DOMAIN states
  BY DEF Exact
<1>1. at = "idle" /\ runFrom = now + 1 /\ states = <<>> /\ now \in Int
  BY Numbers DEF Init
<1>2. DOMAIN states = {} /\ StateOf(states, p).lastBlock = 0
  BY <1>1 DEF StateOf, NewState
<1> DEFINE h == Hist(kind, p)
<1>3. Upto = now /\ Latest(kind, p) = h[0]
  BY <1>1 DEF Upto, Latest
<1> HIDE DEF h
<1>4. Still(h, now, now, runFrom, 0, h[0])
  BY <1>1, StillNow
<1>5. QED
  BY <1>2, <1>3, <1>4 DEF Quiet, h

LEMMA ExactStep == Sound /\ Exact /\ [Next]_vars => Exact'
<1> SUFFICES ASSUME Sound, Exact, [Next]_vars PROVE Exact'
  OBVIOUS
<1>1. CASE UNCHANGED <<chainVars, ops, states, at, runFrom, happened>>
  BY <1>1 DEF chainVars, Exact, KeepsWindow, Quiet, Latest, Upto, Hist, Without, Recording
<1>2. CASE UNCHANGED vars
  BY <1>1, <1>2 DEF vars, engineVars
<1>3. CASE Wait
  BY <1>2, <1>3 DEF Wait
<1>4. CASE Begin \/ EmptyBlock \/ SkipBlock
  BY <1>4, ExactBlock
<1>5. CASE Bootstrap
  <2> SUFFICES ASSUME KeepsWindow, Without({"prime", "skip"})',
                      NEW kind \in Kinds, NEW p \in Pools, Recording(kind, p)'
               PROVE  /\ Quiet(kind, p)'
                      /\ p \in DOMAIN states' => Complete(Ser(kind, states'[p]), Hist(kind, p)', now', runFrom')
    BY DEF Exact, KeepsWindow
  <2>1. Without({"prime", "skip"}) /\ Recording(kind, p)
    BY WithoutBefore DEF Sound
  <2>2. UNCHANGED <<chainVars, states, runFrom>> /\ at = "eth" /\ at' = "prime"
    BY <1>5 DEF Bootstrap
  <2>3. /\ Hist(kind, p)' = Hist(kind, p) /\ now' = now /\ runFrom' = runFrom /\ Upto' = Upto
        /\ Latest(kind, p)' = Latest(kind, p)
    BY <2>2, Kept DEF Upto, Latest
  <2>4. QED
    BY <2>1, <2>2, <2>3, QuietKept DEF Exact
<1>6. CASE Prime
  BY <1>6, ExactPrime
<1>7. CASE Apply
  BY <1>7, ExactApply
<1>8. CASE Refresh
  BY <1>8, ExactRefresh
<1>9. CASE \E q \in Pools : Dismiss(q) \/ Evaluate(q)
  BY <1>9, ExactJudged
<1>10. CASE Finish
  BY <1>10, ExactFinish
<1>11. CASE Restart
  BY <1>11, ExactRestart
<1>12. QED
  BY <1>2, <1>3, <1>4, <1>5, <1>6, <1>7, <1>8, <1>9, <1>10, <1>11 DEF Next

-----------------------------------------------------------------------------
(* What a pool is judged by.                                               *)

LEMMA Judging ==
    ASSUME Sound, Exact, at = "evaluate", KeepsWindow, Without({"prime", "skip"}),
           NEW kind \in Kinds, NEW p \in DOMAIN states, Recording(kind, p)
    PROVE  LET s == Prune(Ser(kind, states[p]), now, Window)
           IN  /\ Top(s) = Max({Hist(kind, p)[k] : k \in Seen(p, runFrom)})
               /\ Values(s) # {}
               /\ \A v \in Values(s) : v <= Top(s) /\ v # NoValue
               /\ \A k \in Seen(p, runFrom) : Hist(kind, p)[k] \in Values(s)
               /\ s.current = Hist(kind, p)[0] /\ s.current # NoValue
<1> DEFINE q == Ser(kind, states[p])
           h == Hist(kind, p)
           s == Prune(q, now, Window)
           S == {k \in Back : now - k >= runFrom - 1 /\ h[k] # NoValue}
<1>1. EngineType /\ Grounded /\ Follow /\ Known /\ Without({"skip"}) /\ p \in Pools
  BY DEF Sound, Without, EngineType, TypeOK
<1>2. /\ q \in Series /\ Follows(q, h, now, now, runFrom) /\ HasValue(q)
      /\ Complete(q, h, now, runFrom)
  BY <1>1, StateFollows DEF Known, Exact, Upto
<1>3. now \in Int /\ runFrom \in Int /\ runFrom <= now
  BY <1>1, Numerals
<1>4. S = Seen(p, runFrom)
  <2>1. \A k \in Back : price[p][k] = NoValue <=> h[k] = NoValue
    BY <1>1 DEF Grounded, Hist
  <2>2. QED
    BY <2>1 DEF Seen
<1>5. 0 \in {0, 1} /\ now - 0 = now
  BY <1>3
<1> HIDE DEF q, h
<1>6. Follows(q, h, now, now - 0, runFrom)
  BY <1>2, <1>5
<1>7. q.current = h[0] /\ q.current # NoValue
  BY <1>2, <1>3, <1>5, <1>6, CurrentIs
<1>8. s \in Series /\ s.current = q.current
  BY <1>2, <1>3, PruneIs DEF CutAt
<1>9. \A v \in Values(s) : \E k \in S : v = h[k]
  <2> SUFFICES ASSUME NEW v \in Values(s) PROVE \E k \in S : v = h[k]
    OBVIOUS
  <2>1. \E k \in 0 .. Window : runFrom - 1 <= now - k /\ h[k] = v /\ v # NoValue
    BY <1>2, <1>3, ValuesSound
  <2>2. QED
    BY <1>3, <2>1, Numbers
<1>10. \A k \in S : h[k] \in Values(s)
  <2> SUFFICES ASSUME NEW k \in S PROVE h[k] \in Values(s)
    OBVIOUS
  <2>1. k \in 0 .. Window /\ runFrom - 1 <= now - k /\ h[k] # NoValue
    BY <1>3, Numbers
  <2>2. QED
    BY <1>2, <1>3, <2>1, ValuesComplete
<1>11. 0 \in S
  BY <1>3, <1>7, Numbers
<1>12. Values(s) = {h[k] : k \in S} /\ Values(s) # {} /\ \A v \in Values(s) : v # NoValue
  BY <1>9, <1>10, <1>11
<1>13. Top(s) = Max({h[k] : k \in S})
  BY <1>12 DEF Top
<1>14. \A v \in Values(s) : v <= Top(s)
  BY <1>8, <1>12, TopIn
<1>15. QED
  BY <1>4, <1>7, <1>8, <1>10, <1>12, <1>13, <1>14 DEF q, h

LEMMA ExactInvariant == Spec => [](Sound /\ Exact)
BY SoundInit, SoundStep, ExactInit, ExactStep, PTL DEF Spec

(* What README.md:46-53 says of the window (Engine.WindowExact), for any   *)
(* pools, prices, window and any operations of a block: a pool is judged   *)
(* by exactly the prices at the ends of the blocks of its window, its      *)
(* state unloaded or lost as it may be in between.                         *)
THEOREM WindowIsExact == Spec => []WindowExact
<1>1. Sound /\ Exact => WindowExact
  <2> SUFFICES ASSUME Sound, Exact, at = "evaluate", KeepsWindow, Without({"prime", "skip"}), NEW p \in todo
               PROVE  LET s == Pruned(StateOf(states, p), now).price
                      IN  Top(s) = TrueTop(p, runFrom) /\ s.current = price[p][0]
    BY DEF WindowExact
  <2>1. p \in DOMAIN states /\ EngineType
    BY DEF Sound, Known, Grounded
  <2>2. StateOf(states, p) = states[p] /\ states[p] \in PoolStates
    BY <2>1, StateOfIs
  <2>3. now \in Int
    BY Numerals DEF Sound
  <2>4. Pruned(states[p], now).price = Prune(states[p].price, now, Window)
    BY <2>2, <2>3, PrunedIs
  <2> DEFINE s == Prune(states[p].price, now, Window)
  <2>5. Top(s) = Max({price[p][k] : k \in Seen(p, runFrom)}) /\ s.current = price[p][0]
    <3> DEFINE t == Prune(Ser("price", states[p]), now, Window)
    <3>1. Top(t) = Max({Hist("price", p)[k] : k \in Seen(p, runFrom)}) /\ t.current = Hist("price", p)[0]
      BY <2>1, Price, Judging
    <3>2. QED
      BY <3>1, Price
  <2>6. QED
    BY <2>2, <2>4, <2>5 DEF TrueTop
<1>2. QED
  BY <1>1, ExactInvariant, PTL

-----------------------------------------------------------------------------
(* Alerts.                                                                 *)

(* Where alerts come from, and when the old ones are no longer of the      *)
(* block at hand.                                                          *)
LEMMA AlertsStep ==
    ASSUME Sound, [Next]_vars
    PROVE  \/ UNCHANGED <<chainVars, alerts>>
           \/ AlertsNow' = {} /\ alerts' = alerts
           \/ \E p \in DOMAIN states, t \in Int :
                 /\ UNCHANGED <<chainVars, at>> /\ at = "evaluate" /\ p \in todo /\ p \in Pools
                 /\ "time" \notin happened' => t = time
                 /\ Fires(Pruned(states[p], now), t)
                 /\ states'[p] = [Pruned(states[p], now) EXCEPT !.lastAlert = t]
                 /\ alerts' = alerts \cup {AlertOf(p, Pruned(states[p], now))}
<1>0. EngineType /\ Grounded /\ DOMAIN states \subseteq Pools
  BY DEF Sound, EngineType, TypeOK
<1>1. CASE UNCHANGED vars
  BY <1>1 DEF vars
<1>2. CASE Wait
  BY <1>1, <1>2 DEF Wait
<1>3. CASE Begin \/ EmptyBlock \/ SkipBlock
  <2>1. alerts' = alerts /\ now' = now + 1 /\ now \in Int
    BY <1>0, <1>3, Numerals DEF Begin, EmptyBlock, SkipBlock, NextBlock
  <2>2. ASSUME NEW a \in alerts PROVE a.block # now + 1
    <3>1. a.block \in Int /\ a.block <= now
      BY <1>0 DEF Grounded
    <3>2. QED
      BY <2>1, <3>1
  <2>3. QED
    BY <2>1, <2>2 DEF AlertsNow
<1>4. CASE Bootstrap \/ Prime \/ Apply \/ Refresh \/ Finish \/ Restart
  BY <1>4 DEF Bootstrap, Prime, Apply, Refresh, Finish, Restart
<1>5. ASSUME NEW q \in Pools, Dismiss(q) \/ Evaluate(q)
      PROVE  \/ UNCHANGED <<chainVars, alerts>>
             \/ \E p \in DOMAIN states, t \in Int :
                 /\ UNCHANGED <<chainVars, at>> /\ at = "evaluate" /\ p \in todo /\ p \in Pools
                 /\ "time" \notin happened' => t = time
                 /\ Fires(Pruned(states[p], now), t)
                 /\ states'[p] = [Pruned(states[p], now) EXCEPT !.lastAlert = t]
                 /\ alerts' = alerts \cup {AlertOf(p, Pruned(states[p], now))}
  <2>1. UNCHANGED <<chainVars, at>> /\ at = "evaluate" /\ q \in todo
    BY <1>0, <1>5, JudgedDoes
  <2>2. CASE alerts' = alerts
    BY <2>1, <2>2
  <2>3. CASE alerts' # alerts
    <3>1. /\ q \in DOMAIN states
          /\ \E t \in Int : /\ "time" \notin happened' => t = time
                            /\ Fires(Pruned(states[q], now), t)
                            /\ states'[q] = [Pruned(states[q], now) EXCEPT !.lastAlert = t]
          /\ alerts' = alerts \cup {AlertOf(q, Pruned(states[q], now))}
      BY <1>0, <1>5, <2>3, JudgedDoes
    <3>2. QED
      BY <1>5, <2>1, <3>1
  <2>4. QED
    BY <2>2, <2>3
<1>6. QED
  BY <1>1, <1>2, <1>3, <1>4, <1>5 DEF Next

(* The two prices of an alert are prices of the chain.                     *)
LEMMA FallIsTrue ==
    ASSUME Sound, Without({"skip"}), at = "evaluate", NEW p \in DOMAIN states,
           NEW t, Fires(Pruned(states[p], now), t)
    PROVE  LET s == Pruned(states[p], now).price
           IN  /\ s.current = price[p][0]
               /\ \E k \in Back : price[p][k] = Top(s)
               /\ DropsAtLeast(Top(s), s.current, DropPct)
<1> DEFINE q == states[p].price
           h == price[p]
           s == Prune(q, now, Window)
<1>1. EngineType /\ Grounded /\ Follow /\ p \in Pools /\ states[p] \in PoolStates
  BY DEF Sound, EngineType, TypeOK
<1>2. now \in Int /\ runFrom \in Int /\ now - 0 = now /\ 0 \in {0, 1}
  BY <1>1, Numerals
<1>3. Pruned(states[p], now).price = s
  BY <1>1, <1>2, PrunedIs
<1>4. Top(s) > 0 /\ s.current > 0 /\ DropsAtLeast(Top(s), s.current, DropPct)
  BY <1>3 DEF Fires, Candidate
<1>5. q \in Series /\ Follows(q, h, now, now, runFrom)
  <2>1. Recording("price", p) /\ Hist("price", p) = h /\ Ser("price", states[p]) = q /\ "price" \in Kinds
    BY Price
  <2>2. Follows(Ser("price", states[p]), Hist("price", p), now, Upto, runFrom)
    BY <1>1, <2>1 DEF Follow
  <2>3. QED
    BY <1>1, <2>1, <2>2, PartsOf DEF Upto
<1> HIDE DEF q, h
<1>6. s \in Series /\ s.current = q.current
  BY <1>2, <1>5, PruneIs DEF CutAt
<1>7. HasValue(q)
  <2>1. q.current # NoValue
    BY <1>4, <1>6 DEF NoValue
  <2>2. QED
    BY <2>1 DEF HasValue
<1>8. s.current = h[0]
  <2>1. Follows(q, h, now, now - 0, runFrom)
    BY <1>2, <1>5
  <2>2. QED
    BY <1>2, <1>5, <1>6, <1>7, <2>1, CurrentIs
<1>9. \E k \in Back : h[k] = Top(s)
  <2>1. Values(s) # {}
    BY <1>4 DEF Top, NoValue
  <2>2. Top(s) \in Values(s)
    BY <1>6, <2>1, TopIn
  <2>3. \E k \in 0 .. Window : h[k] = Top(s)
    BY <1>2, <1>5, <2>2, ValuesSound
  <2>4. QED
    BY <2>3, Numbers
<1>10. QED
  BY <1>3, <1>4, <1>8, <1>9 DEF h

(* README.md:41 and 46-48 (Engine.NoFalseAlert), whatever reads fail: an   *)
(* alert is about a fall between two states the pool really had at the     *)
(* ends of blocks, the later one now.                                      *)
THEOREM AlertsAreTrue == Spec => []NoFalseAlert
<1>1. Init => NoFalseAlert
  BY DEF Init, NoFalseAlert, AlertsNow
<1>2. Sound /\ NoFalseAlert /\ [Next]_vars => NoFalseAlert'
  <2> SUFFICES ASSUME Sound, NoFalseAlert, [Next]_vars, Without({"skip"})', NEW a \in AlertsNow'
               PROVE  /\ a.after = price'[a.pool][0]
                      /\ \E k \in Back : price'[a.pool][k] = a.before
                      /\ DropsAtLeast(a.before, a.after, DropPct)
    BY DEF NoFalseAlert
  <2>1. Without({"skip"})
    BY WithoutBefore DEF Sound
  <2>2. CASE UNCHANGED <<chainVars, alerts>>
    <3>1. a \in AlertsNow /\ price' = price
      BY <2>2 DEF chainVars, AlertsNow
    <3>2. QED
      BY <2>1, <3>1 DEF NoFalseAlert
  <2>3. ASSUME NEW p \in DOMAIN states, NEW t \in Int, UNCHANGED <<chainVars, at>>, at = "evaluate", p \in Pools,
               Fires(Pruned(states[p], now), t),
               alerts' = alerts \cup {AlertOf(p, Pruned(states[p], now))}
        PROVE  /\ a.after = price'[a.pool][0]
               /\ \E k \in Back : price'[a.pool][k] = a.before
               /\ DropsAtLeast(a.before, a.after, DropPct)
    <3>1. now' = now /\ price' = price
      BY <2>3 DEF chainVars
    <3>2. a \in AlertsNow \/ a = AlertOf(p, Pruned(states[p], now))
      BY <2>3, <3>1 DEF AlertsNow
    <3>3. CASE a \in AlertsNow
      BY <2>1, <3>1, <3>3 DEF NoFalseAlert
    <3>4. CASE a = AlertOf(p, Pruned(states[p], now))
      <4> DEFINE s == Pruned(states[p], now).price
      <4>1. a.pool = p /\ a.before = Top(s) /\ a.after = s.current
        BY <3>4, AlertIs
      <4>2. /\ s.current = price[p][0] /\ DropsAtLeast(Top(s), s.current, DropPct)
            /\ \E k \in Back : price[p][k] = Top(s)
        BY <2>1, <2>3, FallIsTrue
      <4>3. QED
        BY <3>1, <4>1, <4>2
    <3>5. QED
      BY <3>2, <3>3, <3>4
  <2>4. QED
    BY <2>2, <2>3, AlertsStep
<1>3. QED
  BY <1>1, <1>2, SoundInvariant, PTL DEF Spec

-----------------------------------------------------------------------------
(* The liquidity a pool is judged by.                                      *)

(* A pool is judged by the liquidity of the block or by none at all: none  *)
(* while the price of its quote token is unknown; that of its last event   *)
(* for V2; for V3 that of the read a suspected dump causes.                *)
Fresh ==
    /\ ~ethKnown => \A p \in EthQuoted \cap DOMAIN states : states[p].liquidity.current = NoValue
    /\ at = "refresh" => \A p \in V2Pools \cap TouchedPools \cap DOMAIN states :
          states[p].liquidity.current \in {NoValue, liquidity[p][0]}
    /\ at = "evaluate" /\ Without({"refresh"}) => \A p \in todo : IsCandidate(p) =>
          states[p].liquidity.current \in {NoValue, liquidity[p][0]}

LEMMA UnknownIs ==
    ASSUME Fresh, ~ethKnown, NEW p \in EthQuoted
    PROVE  StateOf(states, p).liquidity.current = NoValue
BY DEF Fresh, StateOf, NewState, EmptySeries

LEMMA FreshPrime == Sound /\ Fresh /\ Prime => Fresh'
<1> SUFFICES ASSUME Sound, Fresh, Prime PROVE Fresh'
  OBVIOUS
<1>0. EngineType
  BY DEF Sound
<1>1. at' = "apply" /\ ethKnown' = ethKnown
  BY DEF Prime
<1>2. ASSUME ~ethKnown, NEW p \in EthQuoted, p \in DOMAIN states'
      PROVE  states'[p].liquidity.current = NoValue
  <2>1. CASE p \in DOMAIN states /\ states'[p] = states[p]
    BY <1>2, <2>1 DEF Fresh
  <2>2. CASE ~(p \in DOMAIN states /\ states'[p] = states[p])
    <3>1. p \in Pools /\ \E b \in BOOLEAN : states'[p] = PrimePool(StateOf(states, p), p, b)
      BY <1>0, <1>2, <2>2, PrimeDoes
    <3>2. PICK b \in BOOLEAN : states'[p] = PrimePool(StateOf(states, p), p, b)
      BY <3>1
    <3>3. ~QuoteKnown(p, ethKnown)
      BY <1>2 DEF QuoteKnown
    <3>4. states'[p].liquidity = StateOf(states, p).liquidity
      BY <1>0, <3>1, <3>2, <3>3, StateOfIs, PrimePoolIs
    <3>5. QED
      BY <1>2, <3>4, UnknownIs
  <2>3. QED
    BY <2>1, <2>2
<1>3. QED
  BY <1>1, <1>2 DEF Fresh

LEMMA FreshApply == Sound /\ Fresh /\ Apply => Fresh'
<1> SUFFICES ASSUME Sound, Fresh, Apply PROVE Fresh'
  OBVIOUS
<1>0. EngineType /\ Grounded
  BY DEF Sound
<1>1. UNCHANGED <<chainVars, ops>> /\ at = "apply" /\ at' = "refresh"
  BY DEF Apply
<1>2. liquidity' = liquidity /\ TouchedPools' = TouchedPools
  BY <1>1 DEF chainVars, TouchedPools
<1>3. PICK known \in BOOLEAN :
          /\ ethKnown => known
          /\ known => ethKnown'
          /\ \A q \in Pools : Recorded(q) => states'[q] = ApplyEvents(StateOf(states, q), q, known)
  BY <1>0, ApplyDoes
<1>4. /\ DOMAIN states' \subseteq Pools
      /\ \A p \in Pools : p \in DOMAIN states' <=> p \in DOMAIN states \/ Recorded(p)
      /\ \A p \in DOMAIN states : ~Recorded(p) => states'[p] = states[p]
  BY <1>0, ApplyDoes
<1>5. ASSUME NEW p \in Pools, Recorded(p)
      PROVE  states'[p].liquidity =
                IF p \in V2Pools /\ QuoteKnown(p, known)
                THEN Add(StateOf(states, p).liquidity, now, LastOf(ops[p], Emitting).liquidity)
                ELSE StateOf(states, p).liquidity
  <2> DEFINE st == StateOf(states, p)
             t == ApplyEvents(st, p, known)
  <2>1. st \in PoolStates /\ st.lastBlock \in {0} \cup (FirstBlock .. now) /\ now \in Nat
    BY <1>0, StateOfIs, ChainIs
  <2>2. st.lastBlock <= now
    BY <2>1, Numbers
  <2>3. t.liquidity =
            IF p \in V2Pools /\ QuoteKnown(p, known)
            THEN Add(st.liquidity, now, LastOf(ops[p], Emitting).liquidity) ELSE st.liquidity
    BY <1>0, <1>5, <2>1, <2>2, ApplyEventsIs
  <2>4. states'[p] = t
    BY <1>3, <1>5
  <2> HIDE DEF t
  <2>5. QED
    BY <2>3, <2>4 DEF st
<1>6. ASSUME ~ethKnown', NEW p \in EthQuoted, p \in DOMAIN states'
      PROVE  states'[p].liquidity.current = NoValue
  <2>1. ~known /\ ~ethKnown /\ p \in Pools /\ ~QuoteKnown(p, known)
    BY <1>3, <1>4, <1>6 DEF QuoteKnown
  <2>2. CASE Recorded(p)
    <3>1. states'[p].liquidity = StateOf(states, p).liquidity
      BY <1>5, <2>1, <2>2
    <3>2. QED
      BY <1>6, <2>1, <3>1, UnknownIs
  <2>3. CASE ~Recorded(p)
    <3>1. p \in DOMAIN states /\ states'[p] = states[p]
      BY <1>4, <1>6, <2>1, <2>3
    <3>2. QED
      BY <1>6, <2>1, <3>1 DEF Fresh
  <2>4. QED
    BY <2>2, <2>3
<1>7. ASSUME NEW p \in V2Pools \cap TouchedPools \cap DOMAIN states'
      PROVE  states'[p].liquidity.current \in {NoValue, liquidity[p][0]}
  <2>1. p \in Pools /\ Where(ops[p], Emitting) # {} /\ OpsFit(p) /\ ops[p] \in Seq(Op)
    BY <1>0, <1>1 DEF TouchedPools, Grounded, EngineType
  <2>2. ops[p] # <<>>
    BY <2>1 DEF Where
  <2>3. Recorded(p) /\ LastOf(ops[p], Emitting).liquidity = liquidity[p][0]
    BY <1>7, <2>1, <2>2 DEF OpsFit, Recorded
  <2>4. CASE QuoteKnown(p, known)
    <3>1. /\ states'[p].liquidity = Add(StateOf(states, p).liquidity, now, liquidity[p][0])
      BY <1>5, <1>7, <2>1, <2>3, <2>4
    <3>2. StateOf(states, p).liquidity \in Series /\ now \in Int /\ liquidity[p][0] \in Int
      BY <1>0, <2>1, StateOfIs, PartsOf, ChainIs
    <3>3. QED
      BY <3>1, <3>2, AddIs
  <2>5. CASE ~QuoteKnown(p, known)
    <3>1. p \in EthQuoted /\ ~known /\ ~ethKnown
      BY <1>3, <2>5 DEF QuoteKnown
    <3>2. states'[p].liquidity = StateOf(states, p).liquidity
      BY <1>5, <2>1, <2>3, <2>5
    <3>3. QED
      BY <3>1, <3>2, UnknownIs
  <2>6. QED
    BY <2>4, <2>5
<1>8. QED
  BY <1>1, <1>2, <1>6, <1>7 DEF Fresh

LEMMA FreshRefresh == Sound /\ Fresh /\ Refresh => Fresh'
<1> SUFFICES ASSUME Sound, Fresh, Refresh PROVE Fresh'
  OBVIOUS
<1>0. EngineType /\ Grounded
  BY DEF Sound
<1>1. UNCHANGED <<chainVars, ops, ethKnown>> /\ at = "refresh" /\ at' = "evaluate" /\ todo' = TouchedPools
  BY DEF Refresh
<1>2. liquidity' = liquidity /\ now' = now
  BY <1>1 DEF chainVars
<1>3. /\ DOMAIN states \subseteq DOMAIN states' /\ DOMAIN states' \subseteq Pools
      /\ \A p \in DOMAIN states' :
                 \/ p \in DOMAIN states /\ states'[p] = states[p]
                 \/ /\ p \in NeedRefresh /\ QuoteKnown(p, ethKnown)
                    /\ states'[p] = RecordLiquidity(StateOf(states, p), now, liquidity[p][0])
      /\ "refresh" \notin happened' => \A p \in NeedRefresh : QuoteKnown(p, ethKnown) =>
                 p \in DOMAIN states' /\ states'[p] = RecordLiquidity(StateOf(states, p), now, liquidity[p][0])
  BY <1>0, RefreshDoes
<1>4. ASSUME ~ethKnown, NEW p \in EthQuoted, p \in DOMAIN states'
      PROVE  states'[p].liquidity.current = NoValue
  <2>1. p \in DOMAIN states /\ states'[p] = states[p]
    BY <1>3, <1>4 DEF QuoteKnown
  <2>2. QED
    BY <1>4, <2>1 DEF Fresh
<1>5. ASSUME Without({"refresh"})', NEW p \in TouchedPools, p \in DOMAIN states', Candidate(Pruned(states'[p], now))
      PROVE  states'[p].liquidity.current \in {NoValue, liquidity[p][0]}
  <2> DEFINE st == StateOf(states, p)
             u == RecordLiquidity(st, now, liquidity[p][0])
  <2>1. p \in Pools /\ st \in PoolStates /\ now \in Int /\ liquidity[p][0] \in Int
    BY <1>0, StateOfIs, ChainIs DEF TouchedPools
  <2> HIDE DEF st
  <2>2. /\ u \in PoolStates /\ u.price = st.price
        /\ u.liquidity = Add(st.liquidity, now, liquidity[p][0])
    BY <2>1, RecordLiquidityIs
  <2>3. u.liquidity.current = liquidity[p][0]
    <3>1. st.liquidity \in Series
      BY <2>1, PartsOf
    <3>2. Add(st.liquidity, now, liquidity[p][0]).current = liquidity[p][0]
      BY <2>1, <3>1, AddIs, SMTT(60)
    <3>3. QED
      BY <2>2, <3>2
  <2> HIDE DEF u
  <2>4. CASE states'[p] = u
    BY <2>3, <2>4
  <2>5. CASE states'[p] # u
    <3>1. p \in DOMAIN states /\ states'[p] = states[p]
      BY <1>3, <1>5, <2>5 DEF u, st
    <3>2. IsCandidate(p)
      BY <1>5, <3>1 DEF IsCandidate
    <3>3. CASE p \in V2Pools
      BY <1>1, <1>5, <3>1, <3>3 DEF Fresh
    <3>4. CASE p \notin V2Pools
      <4>1. p \in NeedRefresh
        BY <1>5, <2>1, <3>2, <3>4, Numbers DEF NeedRefresh
      <4>2. "refresh" \notin happened'
        BY <1>5 DEF Without
      <4>3. ~QuoteKnown(p, ethKnown)
        BY <1>3, <2>5, <4>1, <4>2 DEF u, st
      <4>4. QED
        BY <3>1, <4>3 DEF Fresh, QuoteKnown
    <3>5. QED
      BY <3>3, <3>4
  <2>6. QED
    BY <2>4, <2>5
<1>6. QED
  BY <1>1, <1>2, <1>4, <1>5 DEF Fresh, IsCandidate

LEMMA FreshJudged == \A q \in Pools : Sound /\ Fresh /\ (Dismiss(q) \/ Evaluate(q)) => Fresh'
<1> SUFFICES ASSUME NEW q \in Pools, Sound, Fresh, Dismiss(q) \/ Evaluate(q) PROVE Fresh'
  OBVIOUS
<1>0. EngineType /\ Next
  BY DEF Sound, Next
<1>1. /\ UNCHANGED <<chainVars, ethKnown, at>> /\ at = "evaluate" /\ todo' = todo \ {q}
      /\ DOMAIN states' = DOMAIN states
  BY <1>0, JudgedDoes
<1>2. liquidity' = liquidity /\ now' = now /\ now \in Int
  BY <1>0, <1>1, ChainIs DEF chainVars
<1>3. ASSUME NEW p \in DOMAIN states'
      PROVE  /\ states'[p].liquidity.current = states[p].liquidity.current
             /\ p # q => states'[p] = states[p]
  <2> DEFINE s == states[p].liquidity
  <2>1. /\ states'[p].liquidity = s \/ states'[p].liquidity = Prune(s, now, Window)
        /\ p # q => states'[p] = states[p]
    <3>1. "liquidity" \in Kinds /\ \A st : Ser("liquidity", st) = st.liquidity
      BY DEF Kinds, Ser
    <3>2. QED
      BY <1>0, <3>1, JudgedSeriesIs
  <2>2. s \in Series
    BY <1>0, <1>1, PartsOf DEF EngineType
  <2> HIDE DEF s
  <2>3. Prune(s, now, Window).current = s.current
    BY <1>2, <2>2, PruneIs DEF CutAt
  <2>4. QED
    BY <2>1, <2>3 DEF s
<1>4. Without({"refresh"})' => Without({"refresh"})
  BY <1>0, WithoutBefore
<1>5. ASSUME NEW p \in todo', IsCandidate(p)' PROVE IsCandidate(p) /\ p \in DOMAIN states' /\ p \in todo
  <2>1. p \in todo /\ p # q /\ p \in DOMAIN states' /\ Candidate(Pruned(states'[p], now))
    BY <1>1, <1>2, <1>5 DEF IsCandidate
  <2>2. QED
    BY <1>1, <1>3, <2>1 DEF IsCandidate
<1>6. QED
  BY <1>1, <1>2, <1>3, <1>4, <1>5 DEF Fresh

LEMMA FreshStep == Sound /\ Fresh /\ [Next]_vars => Fresh'
<1> SUFFICES ASSUME Sound, Fresh, [Next]_vars PROVE Fresh'
  OBVIOUS
<1>0. EngineType
  BY DEF Sound
<1>1. CASE UNCHANGED vars
  BY <1>1 DEF vars, chainVars, engineVars, Fresh, TouchedPools, Without, IsCandidate
<1>2. CASE Wait
  BY <1>1, <1>2 DEF Wait
<1>3. CASE Begin \/ EmptyBlock \/ SkipBlock \/ Bootstrap
  <2>1. states' = states /\ (~ethKnown' => ~ethKnown) /\ at' \in {"idle", "eth", "prime"}
    BY <1>3 DEF Begin, EmptyBlock, SkipBlock, Bootstrap, engineVars
  <2>2. QED
    BY <2>1 DEF Fresh
<1>4. CASE Prime
  BY <1>4, FreshPrime
<1>5. CASE Apply
  BY <1>5, FreshApply
<1>6. CASE Refresh
  BY <1>6, FreshRefresh
<1>7. CASE \E q \in Pools : Dismiss(q) \/ Evaluate(q)
  BY <1>7, FreshJudged
<1>8. CASE Finish
  <2>1. /\ ethKnown' = ethKnown /\ at' = "idle"
        /\ \A p \in DOMAIN states' : p \in DOMAIN states /\ states'[p] = states[p]
    BY <1>0, <1>8, FinishDoes
  <2>2. QED
    BY <2>1 DEF Fresh
<1>9. CASE Restart
  <2>1. DOMAIN states' = {} /\ at' \in {"idle", "eth"}
    BY <1>9 DEF Restart
  <2>2. QED
    BY <2>1 DEF Fresh
<1>10. QED
  BY <1>1, <1>2, <1>3, <1>4, <1>5, <1>6, <1>7, <1>8, <1>9 DEF Next

LEMMA FreshInvariant == Spec => [](Sound /\ Fresh)
<1>1. Init => Fresh
  BY DEF Init, Fresh
<1>2. QED
  BY <1>1, SoundInit, SoundStep, FreshStep, PTL DEF Spec

(* README.md:36-38 (Engine.LiquidityFresh): the liquidity an alert shows,  *)
(* and was judged by, is that of the block, for V3 pools too, whose        *)
(* balance is read only now and then; unless that read failed.             *)
THEOREM LiquidityIsFresh == Spec => []LiquidityFresh
<1>1. Init => LiquidityFresh
  BY DEF Init, LiquidityFresh, AlertsNow
<1>2. Sound /\ Fresh /\ LiquidityFresh /\ [Next]_vars => LiquidityFresh'
  <2> SUFFICES ASSUME Sound, Fresh, LiquidityFresh, [Next]_vars, Without({"refresh"})', NEW a \in AlertsNow'
               PROVE  a.liquidity = liquidity'[a.pool][0]
    BY DEF LiquidityFresh
  <2>1. Without({"refresh"}) /\ EngineType
    BY WithoutBefore DEF Sound
  <2>2. CASE UNCHANGED <<chainVars, alerts>>
    <3>1. a \in AlertsNow /\ liquidity' = liquidity
      BY <2>2 DEF chainVars, AlertsNow
    <3>2. QED
      BY <2>1, <3>1 DEF LiquidityFresh
  <2>3. ASSUME NEW p \in DOMAIN states, NEW t \in Int, UNCHANGED <<chainVars, at>>, at = "evaluate", p \in todo,
               Fires(Pruned(states[p], now), t),
               alerts' = alerts \cup {AlertOf(p, Pruned(states[p], now))}
        PROVE  a.liquidity = liquidity'[a.pool][0]
    <3>1. now' = now /\ liquidity' = liquidity
      BY <2>3 DEF chainVars
    <3>2. a \in AlertsNow \/ a = AlertOf(p, Pruned(states[p], now))
      BY <2>3, <3>1 DEF AlertsNow
    <3>3. CASE a \in AlertsNow
      BY <2>1, <3>1, <3>3 DEF LiquidityFresh
    <3>4. CASE a = AlertOf(p, Pruned(states[p], now))
      <4> DEFINE st == Pruned(states[p], now)
      <4>1. a.pool = p /\ a.liquidity = st.liquidity.current
        BY <3>4, AlertIs
      <4>2. states[p] \in PoolStates /\ now \in Int
        BY <2>1, ChainIs DEF EngineType, TypeOK
      <4>3. st.liquidity.current = states[p].liquidity.current
        BY <4>2, PrunedIs
      <4>4. Candidate(st) /\ st.liquidity.current # NoValue
        BY <2>3 DEF Fires, EnoughLiquidity
      <4> HIDE DEF st
      <4>5. IsCandidate(p)
        BY <4>4 DEF IsCandidate, st
      <4>6. states[p].liquidity.current \in {NoValue, liquidity[p][0]}
        BY <2>1, <2>3, <4>5 DEF Fresh
      <4>7. QED
        BY <3>1, <4>1, <4>3, <4>4, <4>6
    <3>5. QED
      BY <3>2, <3>3, <3>4
  <2>4. QED
    BY <2>2, <2>3, AlertsStep
<1>3. QED
  BY <1>1, <1>2, FreshInvariant, PTL DEF Spec

-----------------------------------------------------------------------------
(* The memory of an alert.                                                 *)

Shapes == \A p \in DOMAIN states : Shaped(states[p].price, states[p].lastBlock, now)

(* V2 pools that are judged had an event the detector was told of.         *)
Recent ==
    at \in {"refresh", "evaluate"} => \A p \in V2Pools \cap TouchedPools :
        p \in DOMAIN states /\ states[p].lastBlock = now

LEMMA ShapeOf ==
    ASSUME EngineType, Shapes, NEW p
    PROVE  Shaped(StateOf(states, p).price, StateOf(states, p).lastBlock, now)
<1>1. CASE p \in DOMAIN states
  BY <1>1, StateOfIs DEF Shapes
<1>2. CASE p \notin DOMAIN states
  <2>1. StateOf(states, p).price = EmptySeries
    BY <1>2, StateOfIs DEF NewState
  <2>2. EmptySeries.points = <<>> /\ EmptySeries.current = EmptySeries.carry /\ Len(EmptySeries.points) = 0
    BY DEF EmptySeries
  <2>3. QED
    BY <2>1, <2>2 DEF Shaped
<1>3. QED
  BY <1>1, <1>2

(* The steps that tell the detector of a block forget nothing.             *)
LEMMA PrimeGrows ==
    ASSUME EngineType, Prime, NEW p \in DOMAIN states'
    PROVE  /\ states'[p].lastAlert = StateOf(states, p).lastAlert
           /\ states'[p].lastBlock = StateOf(states, p).lastBlock
           /\ states'[p].burns = StateOf(states, p).burns
           /\ Shapes => Shaped(states'[p].price, states'[p].lastBlock, now)
<1> DEFINE st == StateOf(states, p)
           q == st.price
<1>1. CASE p \in DOMAIN states /\ states'[p] = states[p]
  BY <1>1, StateOfIs DEF Shapes
<1>2. CASE ~(p \in DOMAIN states /\ states'[p] = states[p])
  <2>1. p \in Pools /\ price[p][1] # NoValue /\ \E b \in BOOLEAN : states'[p] = PrimePool(st, p, b)
    BY <1>2, PrimeDoes
  <2>2. PICK b \in BOOLEAN : states'[p] = PrimePool(st, p, b)
    BY <2>1
  <2>3. st \in PoolStates /\ now - 1 \in Int /\ now \in Int /\ now - 1 <= now /\ price[p][1] \in Int
    <3>1. price[p][1] \in Int /\ now \in Int
      BY <2>1, ChainIs
    <3>2. QED
      BY <3>1, StateOfIs
  <2> DEFINE v == price[p][1]
             x == PrimePool(st, p, b)
  <2>4. /\ x.lastAlert = st.lastAlert /\ x.lastBlock = st.lastBlock /\ x.burns = st.burns
        /\ x.price = IF st.price.current = NoValue THEN Add(st.price, now - 1, v) ELSE st.price
    BY <2>1, <2>3, PrimePoolIs
  <2>5. q \in Series /\ st.lastBlock \in Int
    BY <2>3, PartsOf
  <2>6. Shapes => Shaped(q, st.lastBlock, now)
    BY ShapeOf
  <2> HIDE DEF v, x
  <2>7. Shapes /\ q.current = NoValue => Shaped(Add(q, now - 1, v), st.lastBlock, now)
    <3>1. v \in Int /\ v # NoValue
      BY <2>1, <2>3 DEF v
    <3> DEFINE l == st.lastBlock
               m == now - 1
    <3>2. l \in Int /\ m \in Int /\ m <= now /\ (Shapes => Shaped(q, l, now))
      BY <2>3, <2>5, <2>6
    <3> HIDE DEF q, l, m
    <3>3. Shapes /\ q.current = NoValue => Shaped(Add(q, m, v), l, now)
      BY <2>3, <2>5, <3>1, <3>2, ShapedPrime DEF q
    <3>4. QED
      BY <3>3 DEF q, l, m
  <2>8. QED
    BY <2>2, <2>4, <2>6, <2>7 DEF x
<1>3. QED
  BY <1>1, <1>2

LEMMA ApplyGrows ==
    ASSUME EngineType, Grounded, Apply, NEW p \in DOMAIN states'
    PROVE  /\ states'[p].lastAlert = StateOf(states, p).lastAlert
           /\ states'[p].lastBlock = IF Recorded(p) THEN now ELSE StateOf(states, p).lastBlock
           /\ Shapes => Shaped(states'[p].price, states'[p].lastBlock, now)
<1> DEFINE st == StateOf(states, p)
           A == Where(ops[p], Pricing(p)) = {}
           w == LastOf(ops[p], Pricing(p)).price
<1>0. p \in Pools /\ ops[p] \in Seq(Op)
  BY ApplyDoes DEF EngineType
<1>1. CASE ~Recorded(p)
  <2>1. p \in DOMAIN states /\ states'[p] = states[p]
    BY <1>0, <1>1, ApplyDoes
  <2>2. QED
    BY <1>1, <2>1, StateOfIs DEF Shapes
<1>2. CASE Recorded(p)
  <2>1. PICK known \in BOOLEAN : states'[p] = ApplyEvents(st, p, known)
    BY <1>0, <1>2, ApplyDoes
  <2>2. st \in PoolStates /\ st.lastBlock <= now /\ st.lastBlock \in Int /\ now \in Int
    <3>1. st \in PoolStates /\ st.lastBlock \in {0} \cup (FirstBlock .. now)
      BY StateOfIs
    <3>2. now \in Nat /\ FirstBlock \in Nat
      BY <1>0, ChainIs, Numbers
    <3>3. QED
      BY <3>1, <3>2
  <2> DEFINE x == ApplyEvents(st, p, known)
  <2>3. /\ x.lastAlert = st.lastAlert /\ x.lastBlock = now
        /\ x.price = IF A THEN st.price ELSE Add(st.price, now, w)
    BY <1>0, <1>2, <2>2, ApplyEventsIs
  <2>4. ~A => w \in Int /\ w # NoValue
    <3>1. ~A => LastOf(ops[p], Pricing(p)) \in Op
      BY <1>0, WhereIs
    <3>2. QED
      BY <3>1, OpIs
  <2>5. st.price \in Series
    BY <2>2, PartsOf
  <2>6. Shapes => Shaped(st.price, st.lastBlock, now)
    BY ShapeOf
  <2> HIDE DEF st, A, w, x
  <2>7. Shapes => Shaped(x.price, now, now)
    <3>1. CASE A
      BY <2>2, <2>3, <2>5, <2>6, <3>1, ShapedLater
    <3>2. CASE ~A
      BY <2>2, <2>3, <2>4, <2>5, <2>6, <3>2, ShapedAdd
    <3>3. QED
      BY <3>1, <3>2
  <2>8. states'[p] = x
    BY <2>1 DEF x
  <2>9. QED
    BY <1>2, <2>3, <2>7, <2>8 DEF st
<1>3. QED
  BY <1>1, <1>2

LEMMA RefreshGrows ==
    ASSUME EngineType, Refresh, NEW p \in DOMAIN states'
    PROVE  /\ states'[p].lastAlert = StateOf(states, p).lastAlert
           /\ states'[p].lastBlock = StateOf(states, p).lastBlock
           /\ states'[p].burns = StateOf(states, p).burns
           /\ Shapes => Shaped(states'[p].price, states'[p].lastBlock, now)
<1>1. CASE p \in DOMAIN states /\ states'[p] = states[p]
  BY <1>1, StateOfIs DEF Shapes
<1>2. CASE ~(p \in DOMAIN states /\ states'[p] = states[p])
  <2> DEFINE st == StateOf(states, p)
             v == liquidity[p][0]
             x == RecordLiquidity(st, now, v)
  <2>1. p \in Pools /\ states'[p] = x
    BY <1>2, RefreshDoes DEF NeedRefresh, TouchedPools
  <2>2. st \in PoolStates /\ now \in Nat /\ v \in Int
    BY <2>1, StateOfIs, ChainIs
  <2>3. /\ x.lastAlert = st.lastAlert /\ x.lastBlock = st.lastBlock
        /\ x.price = st.price /\ x.burns = st.burns
    BY <2>2, RecordLiquidityIs
  <2>4. Shapes => Shaped(st.price, st.lastBlock, now)
    BY ShapeOf
  <2> HIDE DEF st, x
  <2>5. QED
    BY <2>1, <2>3, <2>4 DEF st
<1>3. QED
  BY <1>1, <1>2

LEMMA JudgedGrows ==
    ASSUME EngineType, NEW q \in Pools, Dismiss(q) \/ Evaluate(q), NEW p \in DOMAIN states
    PROVE  /\ p \in DOMAIN states' /\ states'[p].lastBlock = states[p].lastBlock
           /\ \/ states'[p].lastAlert = states[p].lastAlert
              \/ "time" \notin happened' => states'[p].lastAlert = time
           /\ p # q => states'[p] = states[p]
           /\ Shapes => Shaped(states'[p].price, states'[p].lastBlock, now)
<1>1. DOMAIN states' = DOMAIN states /\ (p # q => states'[p] = states[p]) /\ at = "evaluate"
  BY JudgedDoes
<1>2. states[p] \in PoolStates /\ now \in Int
  BY <1>1, ChainIs DEF EngineType
<1> DEFINE s == states[p].price
           l == states[p].lastBlock
           x == Pruned(states[p], now)
<1>3. x.price = Prune(s, now, Window) /\ x.lastBlock = l /\ x.lastAlert = states[p].lastAlert /\ x \in PoolStates
  BY <1>2, PrunedIs
<1>4. s \in Series /\ l \in Int
  BY <1>2, PartsOf
<1>5. Shapes => Shaped(s, l, now)
  BY DEF Shapes
<1> HIDE DEF s, l
<1>6. Shapes => Shaped(Prune(s, now, Window), l, now)
  BY <1>2, <1>4, <1>5, ShapedPrune
<1>7. CASE p # q
  BY <1>1, <1>5, <1>7 DEF s, l
<1>8. CASE p = q
  <2>1. CASE states'[p] = x /\ alerts' = alerts
    BY <1>1, <1>3, <1>6, <1>8, <2>1 DEF l
  <2>2. ASSUME NEW t \in Int, "time" \notin happened' => t = time, states'[p] = [x EXCEPT !.lastAlert = t]
        PROVE  /\ states'[p].lastBlock = l /\ ("time" \notin happened' => states'[p].lastAlert = time)
               /\ Shapes => Shaped(states'[p].price, states'[p].lastBlock, now)
    <3> HIDE DEF x
    <3>1. states'[p].price = x.price /\ states'[p].lastBlock = x.lastBlock /\ states'[p].lastAlert = t
      BY <1>3, <2>2 DEF PoolStates
    <3>2. QED
      BY <1>3, <1>6, <2>2, <3>1
  <2>3. p \in DOMAIN states'
    BY <1>1
  <2>4. CASE states'[p] # x \/ alerts' # alerts
    <3>1. \E t \in Int : ("time" \notin happened' => t = time) /\ states'[p] = [x EXCEPT !.lastAlert = t]
      BY <1>8, <2>4, JudgedDoes
    <3>2. QED
      BY <1>8, <2>2, <2>3, <3>1 DEF l
  <2>5. QED
    BY <2>1, <2>4
<1>9. QED
  BY <1>7, <1>8

(* The last block of a pool when an alert about it is emitted: that of the *)
(* alert, or for V3 one of the window.                                     *)
Slack(p) == IF p \in V2Pools THEN 0 ELSE Window - 1

Held(a) ==
    /\ a.pool \in DOMAIN states
    /\ states[a.pool].lastAlert >= a.time
    /\ states[a.pool].lastBlock >= a.block - Slack(a.pool)

Over(a) == time - a.time >= IF at = "idle" THEN Cooldown - 1 ELSE Cooldown

(* An alert is remembered until its cooldown is over.                      *)
Remembered ==
    Without({"restart", "time"}) => \A a \in alerts :
        /\ a.time \in Nat
        /\ KeepsCooldown(a.pool) => Held(a) \/ Over(a)

Memory == Shapes /\ Recent /\ Remembered

LEMMA Positive == ASSUME NEW x \in Nat, NEW y \in Nat, x > 0, y > 0 PROVE x * y > 0
OBVIOUS

LEMMA FiresIs ==
    ASSUME EngineType, Shapes, Recent, Grounded, at = "evaluate", NEW p \in DOMAIN states, p \in todo,
           NEW t, Fires(Pruned(states[p], now), t)
    PROVE  states[p].lastBlock >= now - Slack(p)
<1> DEFINE st == states[p]
           s == st.price
           l == st.lastBlock
           x == Prune(s, now, Window)
<1>1. st \in PoolStates /\ now \in Int /\ p \in Pools
  BY ChainIs DEF EngineType, TypeOK
<1>2. Pruned(st, now).price = x
  BY <1>1, PrunedIs
<1>3. s \in Series /\ l \in Int /\ Shaped(s, l, now)
  BY <1>1, PartsOf DEF Shapes
<1>4. Top(x) > 0 /\ x.current > 0 /\ DropsAtLeast(Top(x), x.current, DropPct)
  BY <1>2 DEF Fires, Candidate
<1>5. CASE p \in V2Pools
  <2>1. p \in TouchedPools
    BY DEF Grounded
  <2>2. l = now
    BY <1>5, <2>1 DEF Recent
  <2>3. Slack(p) = 0
    BY <1>5 DEF Slack
  <2> HIDE DEF st, s, l, x
  <2>4. l >= now - Slack(p)
    BY <1>1, <2>2, <2>3
  <2>5. QED
    BY <2>4 DEF l, st
<1>6. CASE p \notin V2Pools
  <2> HIDE DEF s, l, x
  <2>1. x \in Series
    BY <1>1, <1>3, PruneIs DEF CutAt, x
  <2>2. x.current \in Int
    BY <2>1, PointsAre
  <2>3. Values(x) # {}
    BY <1>4 DEF Top, NoValue
  <2>4. Top(x) \in Int
    <3>1. Top(x) \in Values(x)
      BY <2>1, <2>3, TopIn
    <3>2. /\ DOMAIN x.points = 1 .. Len(x.points)
          /\ \A i \in 1 .. Len(x.points) : x.points[i].value \in Int
          /\ x.carry \in Int
      BY <2>1, PointsAre DEF Series
    <3>3. QED
      BY <3>1, <3>2 DEF Values
  <2> DEFINE u == Top(x)
             v == x.current
  <2> HIDE DEF u, v
  <2>5. u \in Nat /\ v \in Nat /\ u > 0 /\ v > 0 /\ (u - v) * 100 >= DropPct * u
    BY <1>4, <2>2, <2>4 DEF DropsAtLeast, u, v
  <2>6. DropPct \in Nat /\ DropPct > 0
    BY DetectorConfig
  <2>7. DropPct * u > 0
    BY <2>5, <2>6, Positive
  <2>8. DropPct * u \in Int
    BY <2>5, <2>6
  <2> DEFINE z == DropPct * u
  <2> HIDE DEF z
  <2>9. z \in Int /\ z > 0 /\ (u - v) * 100 >= z
    BY <2>5, <2>7, <2>8 DEF z
  <2>10. v < u /\ u # NoValue
    BY <2>5, <2>9 DEF NoValue
  <2>11. now - Window < l
    BY <1>1, <1>3, <2>10, FallIsRecent DEF u, v, x
  <2>12. Slack(p) = Window - 1 /\ Window \in Int
    BY <1>6, Numbers DEF Slack
  <2>13. l >= now - Slack(p)
    BY <1>1, <1>3, <2>11, <2>12
  <2>14. QED
    BY <2>13 DEF l, st
<1>7. QED
  BY <1>5, <1>6

LEMMA HeldGrows ==
    ASSUME NEW a, Held(a), a.time \in Int, a.block \in Int, EngineType, EngineType',
           a.pool \in DOMAIN states', states'[a.pool].lastAlert >= states[a.pool].lastAlert,
           states'[a.pool].lastBlock >= states[a.pool].lastBlock
    PROVE  Held(a)'
<1> DEFINE p == a.pool
           x == states[p].lastAlert
           y == states'[p].lastAlert
           l == states[p].lastBlock
           m == states'[p].lastBlock
           b == a.block - Slack(p)
<1>1. p \in DOMAIN states /\ p \in DOMAIN states' /\ x >= a.time /\ l >= b /\ y >= x /\ m >= l
  BY DEF Held
<1>2. states[p] \in PoolStates /\ states'[p] \in PoolStates
  BY <1>1 DEF EngineType
<1>3. x \in Int /\ y \in Int /\ l \in Int /\ m \in Int
  BY <1>2, PartsOf
<1>4. Slack(p) \in Int
  BY Numbers DEF Slack
<1>5. b \in Int
  BY <1>4
<1> HIDE DEF x, y, l, m, b
<1>6. y >= a.time /\ m >= b
  BY <1>1, <1>3, <1>5
<1>7. QED
  BY <1>1, <1>6 DEF Held, y, m, b, p

(* A pool with an alert is not unloaded before the cooldown is over.       *)
LEMMA Unloaded ==
    ASSUME NEW p, KeepsCooldown(p), NEW l \in Int, NEW n \in Int, NEW b \in Int, NEW d \in Int,
           l < n - StateGc, n - l > Cooldown, l >= b - Slack(p), n - b <= d
    PROVE  d >= Cooldown - 1
<1>1. StateGc \in Int /\ Cooldown \in Int /\ Window \in Int
  BY Numbers
<1>2. CASE p \in V2Pools
  <2>1. Slack(p) = 0
    BY <1>2 DEF Slack
  <2>2. QED
    BY <1>1, <2>1
<1>3. CASE p \notin V2Pools
  <2>1. Slack(p) = Window - 1 /\ (Window <= 3 \/ StateGc + 3 >= Cooldown + Window)
    BY <1>3 DEF Slack, KeepsCooldown
  <2>2. QED
    BY <1>1, <2>1
<1>4. QED
  BY <1>2, <1>3

LEMMA MemoryBlock == Sound /\ Memory /\ (Begin \/ EmptyBlock \/ SkipBlock) => Memory'
<1> SUFFICES ASSUME Sound, Memory, Begin \/ EmptyBlock \/ SkipBlock PROVE Memory'
  OBVIOUS
<1>0. EngineType /\ Grounded /\ Shapes /\ Remembered /\ [Next]_vars
  BY DEF Sound, Memory, Next
<1>1. states' = states /\ alerts' = alerts /\ at = "idle" /\ at' \in {"idle", "eth"}
  BY DEF Begin, EmptyBlock, SkipBlock, engineVars
<1>2. PICK chosen \in BlockChoices : NextBlock(chosen)
  BY DEF Begin, EmptyBlock, SkipBlock
<1> DEFINE n == now'
           u == time'
<1>3. n = now + 1 /\ now \in Int /\ u \in Nat /\ u >= time + 1 /\ time \in Nat
  BY <1>0, <1>2, ChainStep, Numerals DEF EngineType, TypeOK
<1>4. Shapes'
  <2> SUFFICES ASSUME NEW p \in DOMAIN states PROVE Shaped(states[p].price, states[p].lastBlock, n)
    BY <1>1 DEF Shapes
  <2> DEFINE s == states[p].price
             l == states[p].lastBlock
  <2>1. s \in Series /\ l \in Int /\ Shaped(s, l, now)
    BY <1>0, PartsOf DEF EngineType, Shapes
  <2> HIDE DEF s, l, n
  <2>2. Shaped(s, l, n)
    BY <1>3, <2>1, ShapedLater
  <2>3. QED
    BY <2>2 DEF s, l
<1>5. Recent'
  BY <1>1 DEF Recent
<1>6. Remembered'
  <2> SUFFICES ASSUME Without({"restart", "time"})', NEW a \in alerts
               PROVE  /\ a.time \in Nat
                      /\ KeepsCooldown(a.pool) => Held(a)' \/ Over(a)'
    BY <1>1 DEF Remembered
  <2>1. a.time \in Nat /\ (KeepsCooldown(a.pool) => Held(a) \/ Over(a))
    BY <1>0, WithoutBefore DEF Remembered
  <2>2. Held(a) => Held(a)'
    BY <1>1 DEF Held
  <2>3. Over(a) => Over(a)'
    <3> SUFFICES ASSUME time - a.time >= Cooldown - 1 PROVE u - a.time >= IF at' = "idle" THEN Cooldown - 1 ELSE Cooldown
      BY <1>1 DEF Over
    <3> DEFINE x == a.time
    <3>1. x \in Nat /\ Cooldown \in Nat /\ time - x >= Cooldown - 1
      BY <2>1, Numbers
    <3> HIDE DEF x, u
    <3>2. u - x >= Cooldown /\ u - x >= Cooldown - 1
      BY <1>3, <3>1
    <3>3. QED
      BY <3>2 DEF x
  <2>4. QED
    BY <2>1, <2>2, <2>3
<1>7. QED
  BY <1>4, <1>5, <1>6 DEF Memory

(* A step that takes no time, emits nothing and keeps what it knows.       *)
LEMMA RememberedSame ==
    ASSUME EngineType, EngineType', Grounded, Remembered, [Next]_vars, UNCHANGED <<chainVars, alerts>>,
           at' = at \/ (at # "idle" /\ at' # "idle"),
           \A p \in DOMAIN states :
               /\ p \in DOMAIN states' /\ states'[p].lastAlert = states[p].lastAlert
               /\ states'[p].lastBlock >= states[p].lastBlock
    PROVE  Remembered'
<1> SUFFICES ASSUME Without({"restart", "time"})', NEW a \in alerts
             PROVE  /\ a.time \in Nat
                    /\ KeepsCooldown(a.pool) => Held(a)' \/ Over(a)'
  BY DEF Remembered
<1>1. a.time \in Nat /\ a.block \in Int /\ (KeepsCooldown(a.pool) => Held(a) \/ Over(a))
  BY WithoutBefore DEF Remembered, Grounded
<1>2. Over(a) => Over(a)'
  BY DEF Over, chainVars
<1>3. ASSUME Held(a) PROVE Held(a)'
  <2>1. /\ a.pool \in DOMAIN states /\ a.pool \in DOMAIN states'
        /\ states'[a.pool].lastAlert = states[a.pool].lastAlert
        /\ states'[a.pool].lastBlock >= states[a.pool].lastBlock
    BY <1>3 DEF Held
  <2>2. states[a.pool].lastAlert \in Int
    BY <2>1, PartsOf DEF EngineType
  <2>3. states'[a.pool].lastAlert >= states[a.pool].lastAlert
    BY <2>1, <2>2
  <2>4. QED
    BY <1>1, <1>3, <2>1, <2>3, HeldGrows
<1>4. QED
  BY <1>1, <1>2, <1>3

LEMMA MemoryTold == Sound /\ Sound' /\ Memory /\ (Prime \/ Apply \/ Refresh) => Memory'
<1> SUFFICES ASSUME Sound, Sound', Memory, Prime \/ Apply \/ Refresh PROVE Memory'
  OBVIOUS
<1>0. EngineType /\ EngineType' /\ Grounded /\ Shapes /\ Recent /\ Remembered /\ [Next]_vars
  BY DEF Sound, Memory, Next
<1>1. UNCHANGED <<chainVars, alerts, ops>> /\ at # "idle" /\ at' # "idle"
  BY DEF Prime, Apply, Refresh
<1>2. now' = now /\ TouchedPools' = TouchedPools
  BY <1>1 DEF chainVars, TouchedPools
<1>3. ASSUME NEW p \in DOMAIN states'
      PROVE  /\ states'[p].lastAlert = StateOf(states, p).lastAlert
             /\ states'[p].lastBlock \in {StateOf(states, p).lastBlock, now}
             /\ Shaped(states'[p].price, states'[p].lastBlock, now)
  BY <1>0, PrimeGrows, ApplyGrows, RefreshGrows
<1>4. DOMAIN states \subseteq DOMAIN states'
  BY <1>0, PrimeDoes, ApplyDoes, RefreshDoes DEF EngineType, TypeOK
<1>5. Shapes'
  BY <1>2, <1>3 DEF Shapes
<1>6. Remembered'
  <2>1. ASSUME NEW p \in DOMAIN states
        PROVE  /\ p \in DOMAIN states' /\ states'[p].lastAlert = states[p].lastAlert
               /\ states'[p].lastBlock >= states[p].lastBlock
    <3>1. p \in DOMAIN states' /\ p \in Pools /\ StateOf(states, p) = states[p]
      BY <1>0, <1>4, StateOfIs DEF EngineType, TypeOK
    <3>2. states'[p].lastAlert = states[p].lastAlert /\ states'[p].lastBlock \in {states[p].lastBlock, now}
      BY <1>3, <3>1
    <3> DEFINE l == states[p].lastBlock
    <3>3. l \in {0} \cup (FirstBlock .. now) /\ now \in Nat /\ FirstBlock \in Nat
      BY <1>0, <3>1, ChainIs, Numbers DEF EngineType, TypeOK
    <3> HIDE DEF l
    <3>4. l \in Int /\ l <= now /\ now \in Int
      BY <3>3
    <3>5. QED
      BY <3>1, <3>2, <3>4 DEF l
  <2>2. QED
    BY <1>0, <1>1, <2>1, RememberedSame
<1>7. Recent'
  <2> SUFFICES ASSUME at' \in {"refresh", "evaluate"}, NEW p \in V2Pools \cap TouchedPools
               PROVE  p \in DOMAIN states' /\ states'[p].lastBlock = now
    BY <1>2 DEF Recent
  <2>1. CASE Prime
    BY <2>1 DEF Prime
  <2>2. CASE Apply
    <3>1. p \in Pools /\ OpsFit(p)
      BY <1>0, <1>1, Numbers DEF Grounded
    <3>2. ops[p] # <<>>
      BY DEF TouchedPools, Where
    <3>3. Recorded(p)
      BY <3>1, <3>2 DEF OpsFit, Recorded
    <3>4. p \in DOMAIN states'
      BY <1>0, <2>2, <3>1, <3>3, ApplyDoes
    <3>5. QED
      BY <1>0, <2>2, <3>3, <3>4, ApplyGrows
  <2>3. CASE Refresh
    <3>1. p \in DOMAIN states /\ states[p].lastBlock = now
      BY <1>0, <2>3 DEF Recent, Refresh
    <3>2. p \in DOMAIN states' /\ StateOf(states, p) = states[p]
      BY <1>0, <1>4, <3>1, StateOfIs
    <3>3. QED
      BY <1>0, <2>3, <3>1, <3>2, RefreshGrows
  <2>4. QED
    BY <2>1, <2>2, <2>3
<1>8. QED
  BY <1>5, <1>6, <1>7 DEF Memory

LEMMA MemoryJudged == \A q \in Pools : Sound /\ Sound' /\ Memory /\ (Dismiss(q) \/ Evaluate(q)) => Memory'
<1> SUFFICES ASSUME NEW q \in Pools, Sound, Sound', Memory, Dismiss(q) \/ Evaluate(q) PROVE Memory'
  OBVIOUS
<1>0. EngineType /\ EngineType' /\ Grounded /\ Shapes /\ Recent /\ Remembered /\ [Next]_vars
  BY DEF Sound, Memory, Next
<1>1. /\ UNCHANGED <<chainVars, ops, at>> /\ at = "evaluate" /\ q \in todo /\ DOMAIN states' = DOMAIN states
  BY <1>0, JudgedDoes
<1>2. now' = now /\ time' = time /\ TouchedPools' = TouchedPools /\ now \in Int /\ time \in Nat
  BY <1>0, <1>1, Numerals DEF chainVars, TouchedPools, EngineType, TypeOK
<1>3. ASSUME NEW p \in DOMAIN states
      PROVE  /\ p \in DOMAIN states' /\ states'[p].lastBlock = states[p].lastBlock
             /\ states'[p].lastAlert = states[p].lastAlert \/ ("time" \notin happened' => states'[p].lastAlert = time)
             /\ Shaped(states'[p].price, states'[p].lastBlock, now)
  BY <1>0, JudgedGrows
<1>4. Shapes' /\ Recent'
  BY <1>0, <1>1, <1>2, <1>3 DEF Shapes, Recent
<1>5. Remembered'
  <2> SUFFICES ASSUME Without({"restart", "time"})', NEW a \in alerts'
               PROVE  /\ a.time \in Nat
                      /\ KeepsCooldown(a.pool) => Held(a)' \/ Over(a)'
    BY DEF Remembered
  <2>0. "time" \notin happened'
    BY DEF Without
  <2>1. CASE a \in alerts
    <3>1. /\ a.time \in Nat /\ a.block \in Int /\ a.time <= time
          /\ KeepsCooldown(a.pool) => Held(a) \/ Over(a)
      BY <1>0, <2>1, WithoutBefore DEF Remembered, Grounded
    <3>2. Over(a) => Over(a)'
      BY <1>1, <1>2 DEF Over
    <3>3. ASSUME Held(a) PROVE Held(a)'
      <4> DEFINE p == a.pool
                 x == states[p].lastAlert
                 y == states'[p].lastAlert
                 l == states[p].lastBlock
                 m == states'[p].lastBlock
      <4>1. p \in DOMAIN states /\ x >= a.time /\ l >= a.block - Slack(p)
        BY <3>3 DEF Held
      <4>2. p \in DOMAIN states' /\ m = l /\ (y = x \/ y = time)
        BY <1>3, <2>0, <4>1
      <4> HIDE DEF x, y, l, m
      <4>3. y >= a.time /\ m >= a.block - Slack(p)
        BY <3>1, <4>1, <4>2
      <4>4. QED
        BY <4>2, <4>3 DEF Held, y, m
    <3>4. QED
      BY <3>1, <3>2, <3>3
  <2>2. CASE a \notin alerts
    <3>1. /\ q \in DOMAIN states /\ a = AlertOf(q, Pruned(states[q], now))
          /\ \E t \in Int : /\ "time" \notin happened' => t = time
                            /\ Fires(Pruned(states[q], now), t)
                            /\ states'[q] = [Pruned(states[q], now) EXCEPT !.lastAlert = t]
      BY <1>0, <2>2, JudgedDoes
    <3>2. /\ Fires(Pruned(states[q], now), time)
          /\ states'[q] = [Pruned(states[q], now) EXCEPT !.lastAlert = time]
      BY <2>0, <3>1
    <3>3. a.pool = q /\ a.block = now /\ a.time = time
      BY <3>1, AlertIs
    <3>4. states[q].lastBlock >= now - Slack(q)
      BY <1>0, <1>1, <3>1, <3>2, FiresIs
    <3>5. states'[q].lastAlert = time
      <4> DEFINE x == Pruned(states[q], now)
      <4>1. x \in PoolStates
        BY <1>0, <1>2, <3>1, PrunedIs DEF EngineType
      <4> HIDE DEF x
      <4>2. states'[q] = [x EXCEPT !.lastAlert = time]
        BY <3>2 DEF x
      <4>3. QED
        BY <4>1, <4>2 DEF PoolStates
    <3>6. q \in DOMAIN states' /\ states'[q].lastBlock = states[q].lastBlock
      BY <1>3, <3>1
    <3>7. states'[q].lastAlert >= a.time
      BY <1>2, <3>3, <3>5
    <3>8. Held(a)'
      BY <3>3, <3>4, <3>6, <3>7 DEF Held
    <3>9. QED
      BY <1>2, <3>3, <3>8
  <2>3. QED
    BY <2>1, <2>2
<1>6. QED
  BY <1>4, <1>5 DEF Memory

LEMMA MemoryFinish == Sound /\ Memory /\ Finish => Memory'
<1> SUFFICES ASSUME Sound, Memory, Finish PROVE Memory'
  OBVIOUS
<1>0. EngineType /\ Grounded /\ Shapes /\ Remembered /\ [Next]_vars
  BY DEF Sound, Memory, Next
<1>1. /\ UNCHANGED <<chainVars, alerts, happened>> /\ at = "evaluate" /\ at' = "idle"
      /\ \A p \in DOMAIN states' : p \in DOMAIN states /\ states'[p] = states[p]
      /\ \A p \in DOMAIN states \ DOMAIN states' : Stale(states[p], now)
  BY <1>0, FinishDoes
<1>2. now' = now /\ time' = time /\ now \in Int /\ time \in Nat
  BY <1>0, <1>1, Numerals DEF chainVars, EngineType, TypeOK
<1>3. Shapes' /\ Recent'
  BY <1>0, <1>1, <1>2 DEF Shapes, Recent
<1>4. Remembered'
  <2> SUFFICES ASSUME Without({"restart", "time"})', NEW a \in alerts
               PROVE  /\ a.time \in Nat
                      /\ KeepsCooldown(a.pool) => Held(a)' \/ Over(a)'
    BY <1>1 DEF Remembered
  <2>1. /\ a.time \in Nat /\ a.block \in Int /\ now - a.block <= time - a.time
        /\ KeepsCooldown(a.pool) => Held(a) \/ Over(a)
    BY <1>0, WithoutBefore DEF Remembered, Grounded
  <2>2. Over(a)' <=> time - a.time >= Cooldown - 1
    BY <1>1, <1>2 DEF Over
  <2>3. ASSUME Over(a) PROVE Over(a)'
    <3>1. time - a.time >= Cooldown
      BY <1>1, <2>3 DEF Over
    <3> DEFINE d == time - a.time
    <3>2. d \in Int /\ Cooldown \in Int
      BY <1>2, <2>1, Numbers
    <3> HIDE DEF d
    <3>3. d >= Cooldown => d >= Cooldown - 1
      BY <3>2
    <3>4. QED
      BY <2>2, <3>1, <3>3 DEF d
  <2>4. CASE Held(a) /\ a.pool \in DOMAIN states'
    <3>1. states'[a.pool] = states[a.pool]
      BY <1>1, <2>4
    <3>2. Held(a)'
      BY <2>4, <3>1 DEF Held
    <3>3. QED
      BY <2>1, <3>2
  <2>5. ASSUME KeepsCooldown(a.pool), Held(a), a.pool \notin DOMAIN states' PROVE Over(a)'
    <3> DEFINE p == a.pool
               l == states[p].lastBlock
               d == time - a.time
    <3>1. p \in DOMAIN states /\ states[p].lastAlert >= a.time /\ l >= a.block - Slack(p)
      BY <2>5 DEF Held
    <3>2. states[p] \in PoolStates
      BY <1>0, <3>1 DEF EngineType
    <3>3. states[p].lastAlert # NoTime
      <4>1. states[p].lastAlert \in Int
        BY <3>2, PartsOf
      <4>2. QED
        BY <2>1, <3>1, <4>1 DEF NoTime
    <3>4. l < now - StateGc /\ now - l > Cooldown
      BY <1>1, <2>5, <3>1, <3>3 DEF Stale
    <3>5. l \in Int /\ d \in Int
      BY <1>2, <2>1, <3>2, PartsOf
    <3>6. now - a.block <= d
      BY <2>1
    <3> HIDE DEF p, l, d
    <3>7. d >= Cooldown - 1
      <4>1. KeepsCooldown(p)
        BY <2>5 DEF p
      <4>2. QED
        BY <1>2, <2>1, <3>1, <3>4, <3>5, <3>6, <4>1, Unloaded
    <3>8. QED
      BY <2>2, <3>7 DEF d
  <2>6. QED
    BY <2>1, <2>3, <2>4, <2>5
<1>5. QED
  BY <1>3, <1>4 DEF Memory

LEMMA MemoryStep == Sound /\ Sound' /\ Memory /\ [Next]_vars => Memory'
<1> SUFFICES ASSUME Sound, Sound', Memory, [Next]_vars PROVE Memory'
  OBVIOUS
<1>1. CASE UNCHANGED vars
  BY <1>1 DEF vars, chainVars, engineVars, Memory, Shapes, Recent, Remembered, Held, Over, TouchedPools, Without
<1>2. CASE Wait
  BY <1>1, <1>2 DEF Wait
<1>3. CASE Begin \/ EmptyBlock \/ SkipBlock
  BY <1>3, MemoryBlock
<1>4. CASE Bootstrap
  <2>1. EngineType /\ EngineType' /\ Grounded /\ Shapes /\ Remembered
    BY DEF Sound, Memory
  <2>2. UNCHANGED <<chainVars, alerts>> /\ states' = states /\ at = "eth" /\ at' = "prime"
    BY <1>4 DEF Bootstrap
  <2>3. Shapes' /\ Recent'
    BY <2>1, <2>2 DEF Shapes, Recent, chainVars
  <2>4. \A p \in DOMAIN states : states[p].lastBlock \in Int
    BY <2>1, PartsOf DEF EngineType
  <2>5. Remembered'
    BY <2>1, <2>2, <2>4, RememberedSame
  <2>6. QED
    BY <2>3, <2>5 DEF Memory
<1>5. CASE Prime \/ Apply \/ Refresh
  BY <1>5, MemoryTold
<1>6. CASE \E q \in Pools : Dismiss(q) \/ Evaluate(q)
  BY <1>6, MemoryJudged
<1>7. CASE Finish
  BY <1>7, MemoryFinish
<1>8. CASE Restart
  <2>1. DOMAIN states' = {} /\ at' \in {"idle", "eth"} /\ "restart" \in happened'
    BY <1>8 DEF Restart, Fault
  <2>2. QED
    BY <2>1 DEF Memory, Shapes, Recent, Remembered, Without
<1>9. QED
  BY <1>1, <1>2, <1>3, <1>4, <1>5, <1>6, <1>7, <1>8 DEF Next

LEMMA MemoryInvariant == Spec => [](Sound /\ Memory)
<1>1. Init => Memory
  <2>1. Init => DOMAIN states = {} /\ at = "idle" /\ alerts = {}
    BY DEF Init
  <2>2. QED
    BY <2>1 DEF Memory, Shapes, Recent, Remembered
<1>2. QED
  BY <1>1, SoundInit, SoundStep, MemoryStep, PTL DEF Spec

(* README.md:44 (Engine.CooldownKept): while the process lives and time    *)
(* stamps are read, two alerts about a pool are at least the cooldown      *)
(* apart, whatever gc() unloads meanwhile and whatever other reads fail.   *)
THEOREM CooldownIsKept == Spec => []CooldownKept
<1>1. Init => CooldownKept
  BY DEF Init, CooldownKept, CooldownOf
<1>2. Sound /\ Memory /\ CooldownKept /\ [Next]_vars => CooldownKept'
  <2> SUFFICES ASSUME Sound, Memory, CooldownKept, [Next]_vars, Without({"restart", "time"})',
                      NEW a \in alerts', NEW b \in alerts', a.pool = b.pool,
                      a.pool \in Pools, KeepsCooldown(a.pool), a.block < b.block
               PROVE  b.time - a.time >= Cooldown
    BY DEF CooldownKept, CooldownOf
  <2>0. EngineType /\ Grounded /\ Remembered /\ Without({"restart", "time"}) /\ "time" \notin happened'
    <3>1. EngineType
      BY DEF Sound
    <3>2. QED
      BY <3>1, WithoutBefore DEF Sound, Memory, Without
  <2>1. a \in alerts /\ b \in alerts => b.time - a.time >= Cooldown
    BY <2>0 DEF CooldownKept, CooldownOf
  <2>2. CASE alerts' = alerts
    BY <2>1, <2>2
  <2>3. ASSUME NEW p \in DOMAIN states, NEW t \in Int, at = "evaluate",
               "time" \notin happened' => t = time, Fires(Pruned(states[p], now), t),
               alerts' = alerts \cup {AlertOf(p, Pruned(states[p], now))}
        PROVE  b.time - a.time >= Cooldown
    <3> DEFINE c == AlertOf(p, Pruned(states[p], now))
    <3>1. c.pool = p /\ c.block = now /\ c.time = time /\ t = time
      BY <2>0, <2>3, AlertIs
    <3>2. now \in Int /\ time \in Nat /\ Cooldown \in Nat /\ states[p] \in PoolStates
      BY <2>0, Numerals, Numbers DEF EngineType, TypeOK
    <3>3. b.block <= now
      <4>1. b \in alerts => b.block <= now
        BY <2>0 DEF Grounded
      <4>2. QED
        BY <2>3, <3>1, <3>2, <4>1
    <3>4. b.block \in Int
      BY <2>0, <2>3, <3>1, <3>2 DEF Grounded
    <3>5. a # c /\ a \in alerts
      <4>1. a.block # now
        BY <3>2, <3>3, <3>4
      <4>2. QED
        BY <2>3, <3>1, <4>1
    <3>6. CASE b = c
      <4>1. a.time \in Nat /\ a.pool = p /\ (Held(a) \/ Over(a))
        BY <2>0, <3>1, <3>5, <3>6 DEF Remembered
      <4>2. CASE Over(a)
        BY <2>3, <3>1, <3>6, <4>2 DEF Over
      <4>3. CASE Held(a)
        <5> DEFINE x == states[p].lastAlert
        <5>1. Pruned(states[p], now).lastAlert = x /\ x \in Int
          BY <3>2, PrunedIs, PartsOf
        <5>2. x >= a.time
          BY <4>1, <4>3 DEF Held
        <5>3. ~(x # NoTime /\ time - x < Cooldown)
          BY <2>3, <3>1, <5>1 DEF Fires, InCooldown
        <5> HIDE DEF x
        <5>4. time - a.time >= Cooldown
          BY <3>2, <4>1, <5>1, <5>2, <5>3 DEF NoTime
        <5>5. QED
          BY <3>1, <3>6, <5>4
      <4>4. QED
        BY <4>1, <4>2, <4>3
    <3>7. QED
      BY <2>1, <2>3, <3>5, <3>6
  <2>4. QED
    BY <2>2, <2>3, AlertsStep
<1>3. QED
  BY <1>1, <1>2, MemoryInvariant, PTL DEF Spec

-----------------------------------------------------------------------------
(* Dumps that are reported.                                                *)

LEMMA Liquidity ==
    /\ "liquidity" \in Kinds
    /\ \A p : Hist("liquidity", p) = liquidity[p]
    /\ \A st : Ser("liquidity", st) = st.liquidity
    /\ Without({"eth", "prime"}) => \A p \in V2Pools : Recording("liquidity", p)
BY DEF Kinds, Hist, Ser, Recording

(* The prices a pool is judged by.                                         *)
LEMMA PriceJudged ==
    ASSUME Sound, Exact, at = "evaluate", KeepsWindow, Without({"prime", "skip"}),
           NEW p \in DOMAIN states
    PROVE  LET st == Pruned(states[p], now)
           IN  /\ Top(st.price) = TrueTop(p, runFrom) /\ st.price.current = price[p][0]
               /\ Top(st.price) \in Nat /\ Top(st.price) > 0 /\ st.price.current \in Nat /\ st.price.current > 0
               /\ 0 \in Seen(p, runFrom)
<1> DEFINE x == Prune(states[p].price, now, Window)
<1>1. EngineType
  BY DEF Sound
<1>2. now \in Int /\ p \in Pools /\ states[p] \in PoolStates
  <2>1. p \in Pools /\ states[p] \in PoolStates
    BY <1>1 DEF EngineType, TypeOK
  <2>2. QED
    BY <1>1, <2>1, ChainIs
<1>3. Pruned(states[p], now).price = x
  BY <1>2, PrunedIs
<1>4. /\ Top(x) = Max({price[p][k] : k \in Seen(p, runFrom)}) /\ Values(x) # {}
      /\ \A k \in Seen(p, runFrom) : price[p][k] \in Values(x)
      /\ x.current = price[p][0] /\ x.current # NoValue
  <2> DEFINE s == Prune(Ser("price", states[p]), now, Window)
  <2>1. Recording("price", p) /\ Hist("price", p) = price[p] /\ s = x
    BY Price
  <2>2. /\ Top(s) = Max({Hist("price", p)[k] : k \in Seen(p, runFrom)}) /\ Values(s) # {}
        /\ \A k \in Seen(p, runFrom) : Hist("price", p)[k] \in Values(s)
        /\ s.current = Hist("price", p)[0] /\ s.current # NoValue
    BY <2>1, Price, Judging
  <2> HIDE DEF s, x
  <2>3. QED
    BY <2>1, <2>2
<1>5. price[p][0] \in Prices \cup {NoValue} /\ Prices \subseteq Nat \ {0}
  BY <1>1, <1>2, ChainIs, Numbers
<1>6. x \in Series
  BY <1>2, PartsOf, PruneIs DEF CutAt
<1>7. 0 \in Seen(p, runFrom)
  <2>1. now - 0 = now /\ runFrom <= now /\ runFrom \in Int /\ 0 \in Back
    BY <1>2, Numbers DEF Sound, EngineType, TypeOK, Grounded
  <2>2. now - 0 >= runFrom - 1
    BY <1>2, <2>1
  <2>3. QED
    BY <1>4, <2>1, <2>2 DEF Seen
<1> HIDE DEF x
<1>8. x.current \in Nat /\ x.current > 0
  <2> DEFINE u == x.current
  <2>1. u \in Prices \cup {NoValue} /\ u # NoValue
    BY <1>4, <1>5
  <2> HIDE DEF u
  <2>2. u \in Prices
    BY <2>1, Zenon
  <2>3. u \in Nat /\ u > 0
    BY <1>5, <2>2
  <2>4. QED
    BY <2>3 DEF u
<1>9. Top(x) \in Int /\ x.current <= Top(x)
  <2>1. x.current \in Values(x)
    BY <1>4, <1>7
  <2>2. Top(x) \in Values(x) /\ x.current <= Top(x)
    BY <1>4, <1>6, <2>1, TopIn
  <2>3. QED
    BY <1>6, <2>2, ValuesAreNumbers
<1>10. Top(x) \in Nat /\ Top(x) > 0
  BY <1>8, <1>9
<1>11. QED
  BY <1>3, <1>4, <1>7, <1>8, <1>10 DEF TrueTop

(* What a V2 pool is judged by.                                            *)
LEMMA PairJudged ==
    ASSUME Sound, Exact, at = "evaluate", KeepsWindow, Without({"eth", "prime", "skip"}),
           NEW p \in DOMAIN states, p \in V2Pools
    PROVE  LET st == Pruned(states[p], now)
           IN  /\ Top(st.price) = TrueTop(p, runFrom) /\ st.price.current = price[p][0]
               /\ Top(st.liquidity) = TrueLiquidityTop(p, runFrom) /\ st.liquidity.current = liquidity[p][0]
               /\ Top(st.price) \in Nat /\ Top(st.price) > 0 /\ st.price.current \in Nat /\ st.price.current > 0
               /\ Top(st.liquidity) \in Nat /\ st.liquidity.current \in Nat
               /\ st.liquidity.current # NoValue
<1> DEFINE y == Prune(states[p].liquidity, now, Window)
<1>1. EngineType /\ Without({"prime", "skip"}) /\ Without({"eth", "prime"})
  BY DEF Sound, Without
<1>2. now \in Int /\ p \in Pools /\ states[p] \in PoolStates
  BY <1>1, ChainIs, Numbers DEF EngineType
<1>3. Pruned(states[p], now).liquidity = y
  BY <1>2, PrunedIs
<1>4. LET st == Pruned(states[p], now)
      IN  /\ Top(st.price) = TrueTop(p, runFrom) /\ st.price.current = price[p][0]
          /\ Top(st.price) \in Nat /\ Top(st.price) > 0 /\ st.price.current \in Nat /\ st.price.current > 0
          /\ 0 \in Seen(p, runFrom)
  BY <1>1, PriceJudged
<1>5. /\ Top(y) = Max({liquidity[p][k] : k \in Seen(p, runFrom)}) /\ Values(y) # {}
      /\ \A k \in Seen(p, runFrom) : liquidity[p][k] \in Values(y)
      /\ y.current = liquidity[p][0] /\ y.current # NoValue
  <2> DEFINE s == Prune(Ser("liquidity", states[p]), now, Window)
  <2>1. Recording("liquidity", p) /\ Hist("liquidity", p) = liquidity[p] /\ s = y
    BY <1>1, Liquidity
  <2>2. /\ Top(s) = Max({Hist("liquidity", p)[k] : k \in Seen(p, runFrom)}) /\ Values(s) # {}
        /\ \A k \in Seen(p, runFrom) : Hist("liquidity", p)[k] \in Values(s)
        /\ s.current = Hist("liquidity", p)[0] /\ s.current # NoValue
    BY <1>1, <2>1, Liquidity, Judging
  <2> HIDE DEF s, y
  <2>3. QED
    BY <2>1, <2>2
<1>6. liquidity[p][0] \in Liquidities \cup {NoValue} /\ Liquidities \subseteq Nat
  BY <1>1, <1>2, ChainIs, Numbers
<1>7. y \in Series
  BY <1>2, PartsOf, PruneIs DEF CutAt
<1> HIDE DEF y
<1>8. y.current \in Nat
  <2> DEFINE v == y.current
  <2>1. v \in Liquidities \cup {NoValue} /\ v # NoValue
    BY <1>5, <1>6
  <2> HIDE DEF v
  <2>2. v \in Liquidities
    BY <2>1, Zenon
  <2>3. QED
    BY <1>6, <2>2 DEF v
<1>9. Top(y) \in Int /\ y.current <= Top(y)
  <2>1. y.current \in Values(y)
    BY <1>4, <1>5
  <2>2. Top(y) \in Values(y) /\ y.current <= Top(y)
    BY <1>5, <1>7, <2>1, TopIn
  <2>3. QED
    BY <1>7, <2>2, ValuesAreNumbers
<1>10. Top(y) \in Nat
  BY <1>8, <1>9
<1>11. QED
  BY <1>3, <1>4, <1>5, <1>8, <1>10 DEF TrueLiquidityTop

(* A pool in its cooldown has an alert to show for it.                     *)
Told ==
    Without({"time"}) => \A p \in DOMAIN states :
        \/ states[p].lastAlert = NoTime
        \/ \E a \in alerts : a.pool = p /\ a.time = states[p].lastAlert

LEMMA ToldStep == Sound /\ Told /\ [Next]_vars => Told'
<1> SUFFICES ASSUME Sound, Told, [Next]_vars, Without({"time"})', NEW p \in DOMAIN states'
             PROVE  \/ states'[p].lastAlert = NoTime
                    \/ \E a \in alerts' : a.pool = p /\ a.time = states'[p].lastAlert
  BY DEF Told
<1>0. EngineType /\ Grounded /\ Without({"time"}) /\ "time" \notin happened'
  <2>1. EngineType /\ Grounded
    BY DEF Sound
  <2>2. QED
    BY <2>1, WithoutBefore DEF Without
<1>1. \/ StateOf(states, p).lastAlert = NoTime
      \/ \E a \in alerts : a.pool = p /\ a.time = StateOf(states, p).lastAlert
  <2>1. CASE p \in DOMAIN states
    BY <1>0, <2>1, StateOfIs DEF Told
  <2>2. CASE p \notin DOMAIN states
    BY <1>0, <2>2, StateOfIs DEF NewState
  <2>3. QED
    BY <2>1, <2>2
<1>2. ASSUME alerts' = alerts, states'[p].lastAlert = StateOf(states, p).lastAlert
      PROVE  \/ states'[p].lastAlert = NoTime
             \/ \E a \in alerts' : a.pool = p /\ a.time = states'[p].lastAlert
  BY <1>1, <1>2
<1>3. CASE UNCHANGED <<states, alerts>>
  BY <1>0, <1>2, <1>3, StateOfIs
<1>4. CASE UNCHANGED vars
  BY <1>3, <1>4 DEF vars, engineVars
<1>5. CASE Wait
  BY <1>4, <1>5 DEF Wait
<1>6. CASE Begin \/ EmptyBlock \/ SkipBlock \/ Bootstrap
  BY <1>3, <1>6 DEF Begin, EmptyBlock, SkipBlock, Bootstrap, engineVars
<1>7. CASE Prime \/ Apply \/ Refresh
  <2>1. alerts' = alerts
    BY <1>7 DEF Prime, Apply, Refresh
  <2>2. states'[p].lastAlert = StateOf(states, p).lastAlert
    BY <1>0, <1>7, PrimeGrows, ApplyGrows, RefreshGrows
  <2>3. QED
    BY <1>2, <2>1, <2>2
<1>8. ASSUME NEW q \in Pools, Dismiss(q) \/ Evaluate(q)
      PROVE  \/ states'[p].lastAlert = NoTime
             \/ \E a \in alerts' : a.pool = p /\ a.time = states'[p].lastAlert
  <2>1. /\ p \in DOMAIN states /\ alerts \subseteq alerts' /\ StateOf(states, p) = states[p]
        /\ p # q => states'[p] = states[p]
    BY <1>0, <1>8, JudgedDoes, StateOfIs
  <2> DEFINE x == Pruned(states[p], now)
  <2>2. states[p] \in PoolStates /\ now \in Int
    BY <1>0, <2>1, Numerals DEF EngineType
  <2>3. x \in PoolStates /\ x.lastAlert = states[p].lastAlert
    BY <2>2, PrunedIs
  <2>4. CASE p # q
    BY <1>1, <2>1, <2>4
  <2>5. CASE p = q /\ states'[p] = x
    BY <1>1, <2>1, <2>3, <2>5
  <2>6. CASE p = q /\ states'[p] # x
    <3>1. /\ \E t \in Int : /\ "time" \notin happened' => t = time
                            /\ states'[p] = [x EXCEPT !.lastAlert = t]
          /\ alerts' = alerts \cup {AlertOf(p, x)}
      BY <1>0, <1>8, <2>1, <2>6, JudgedDoes
    <3>2. AlertOf(p, x).pool = p /\ AlertOf(p, x).time = time /\ AlertOf(p, x) \in alerts'
      BY <3>1, AlertIs
    <3> HIDE DEF x
    <3>3. states'[p] = [x EXCEPT !.lastAlert = time]
      BY <1>0, <3>1
    <3>4. states'[p].lastAlert = time
      BY <2>3, <3>3 DEF PoolStates
    <3>5. QED
      BY <3>2, <3>4
  <2>7. QED
    BY <2>4, <2>5, <2>6
<1>9. CASE Finish
  <2>1. alerts' = alerts /\ p \in DOMAIN states /\ states'[p] = states[p]
    BY <1>0, <1>9, FinishDoes
  <2>2. QED
    BY <1>0, <1>2, <2>1, StateOfIs
<1>10. CASE Restart
  BY <1>10 DEF Restart
<1>11. QED
  BY <1>4, <1>5, <1>6, <1>7, <1>8, <1>9, <1>10 DEF Next

(* A V3 pool under suspicion has been read in this block, and what was read *)
(* is in its window.                                                       *)
Weighed ==
    at = "evaluate" /\ Without({"refresh"}) => \A p \in todo \cap V3Pools :
        IsCandidate(p) /\ QuoteKnown(p, ethKnown) =>
            /\ states[p].liquidity.current = liquidity[p][0]
            /\ liquidity[p][0] \in Values(Prune(states[p].liquidity, now, Window))

LEMMA WeighedRefresh == Sound /\ Refresh => Weighed'
<1> SUFFICES ASSUME Sound, Refresh PROVE Weighed'
  OBVIOUS
<1>0. UNCHANGED <<chainVars, ops, ethKnown>> /\ todo' = TouchedPools
  BY DEF Refresh
<1> SUFFICES ASSUME Without({"refresh"})', NEW p \in TouchedPools, p \in V3Pools,
                    p \in DOMAIN states', Candidate(Pruned(states'[p], now)), QuoteKnown(p, ethKnown)
             PROVE  /\ states'[p].liquidity.current = liquidity[p][0]
                    /\ liquidity[p][0] \in Values(Prune(states'[p].liquidity, now, Window))
  <2>1. liquidity' = liquidity /\ now' = now
    BY <1>0 DEF chainVars
  <2>2. QED
    BY <1>0, <2>1 DEF Weighed, IsCandidate, QuoteKnown
<1> DEFINE st == StateOf(states, p)
           u == RecordLiquidity(st, now, liquidity[p][0])
<1>1. EngineType /\ "refresh" \notin happened'
  BY DEF Sound, Without
<1>2. p \in Pools /\ st \in PoolStates /\ now \in Int /\ liquidity[p][0] \in Int
  BY <1>1, StateOfIs, ChainIs DEF TouchedPools
<1>3. p \in NeedRefresh => states'[p] = u
  BY <1>1, RefreshDoes
<1>4. \/ p \in DOMAIN states /\ states'[p] = states[p]
      \/ states'[p] = u
  BY <1>1, RefreshDoes
<1>5. p \in DOMAIN states /\ states'[p] = states[p] => p \in NeedRefresh
  BY DEF NeedRefresh, IsCandidate
<1>6. states'[p] = u
  BY <1>3, <1>4, <1>5
<1> HIDE DEF st
<1>7. u.liquidity = Add(st.liquidity, now, liquidity[p][0]) /\ st.liquidity \in Series
  BY <1>2, RecordLiquidityIs, PartsOf
<1> HIDE DEF u
<1>8. Add(st.liquidity, now, liquidity[p][0]).current = liquidity[p][0]
  BY <1>2, <1>7, AddIs, SMTT(60)
<1>9. liquidity[p][0] \in Values(Prune(Add(st.liquidity, now, liquidity[p][0]), now, Window))
  BY <1>2, <1>7, AddedIsKept
<1>10. QED
  BY <1>6, <1>7, <1>8, <1>9

LEMMA WeighedStep == Sound /\ Weighed /\ [Next]_vars => Weighed'
<1> SUFFICES ASSUME Sound, Weighed, [Next]_vars PROVE Weighed'
  OBVIOUS
<1>0. EngineType
  BY DEF Sound
<1>1. CASE UNCHANGED vars
  BY <1>1 DEF vars, chainVars, engineVars, Weighed, Without, IsCandidate, QuoteKnown
<1>2. CASE Wait
  BY <1>1, <1>2 DEF Wait
<1>3. CASE Begin \/ EmptyBlock \/ SkipBlock \/ Bootstrap \/ Prime \/ Apply \/ Finish \/ Restart
  <2>1. at' # "evaluate"
    BY <1>3 DEF Begin, EmptyBlock, SkipBlock, Bootstrap, Prime, Apply, Finish, Restart
  <2>2. QED
    BY <2>1 DEF Weighed
<1>4. CASE Refresh
  BY <1>4, WeighedRefresh
<1>5. ASSUME NEW q \in Pools, Dismiss(q) \/ Evaluate(q) PROVE Weighed'
  <2>1. /\ UNCHANGED <<chainVars, ethKnown>> /\ at = "evaluate" /\ todo' = todo \ {q}
        /\ DOMAIN states' = DOMAIN states /\ \A p \in DOMAIN states : p # q => states'[p] = states[p]
    BY <1>0, <1>5, JudgedDoes
  <2>2. liquidity' = liquidity /\ now' = now
    BY <2>1 DEF chainVars
  <2>3. Without({"refresh"})' => Without({"refresh"})
    BY <1>0, WithoutBefore
  <2>4. ASSUME NEW p \in todo', IsCandidate(p)'
        PROVE  p \in todo /\ states'[p] = states[p] /\ IsCandidate(p)
    <3>1. p \in todo /\ p # q /\ p \in DOMAIN states /\ Candidate(Pruned(states'[p], now))
      BY <2>1, <2>2, <2>4 DEF IsCandidate
    <3>2. QED
      BY <2>1, <3>1 DEF IsCandidate
  <2>5. QED
    BY <2>1, <2>2, <2>3, <2>4 DEF Weighed, QuoteKnown
<1>6. QED
  BY <1>1, <1>2, <1>3, <1>4, <1>5 DEF Next

(* A pool that fires, but for its cooldown, has its alert.                 *)
LEMMA FiringIsReported ==
    ASSUME Sound, Told, [Next]_vars, Without({"time"})', NEW p \in Pools, Dismiss(p) \/ Evaluate(p),
           p \in DOMAIN states,
           Candidate(Pruned(states[p], now)), EnoughLiquidity(Pruned(states[p], now))
    PROVE  \E a \in alerts' : a.pool = p /\ (a.block = now \/ time - a.time < Cooldown)
<1>0. EngineType /\ Grounded
  BY DEF Sound
<1> DEFINE st == Pruned(states[p], now)
<1>1. Without({"time"}) /\ "time" \notin happened' /\ alerts \subseteq alerts'
  BY <1>0, WithoutBefore, JudgedDoes DEF Without
<1>2. now \in Int /\ time \in Int /\ states[p] \in PoolStates
  BY <1>0, Numerals DEF EngineType, TypeOK
<1>3. st.lastAlert = states[p].lastAlert
  BY <1>2, PrunedIs
<1>4. IsCandidate(p)
  BY DEF IsCandidate
<1>5. Candidate(st) /\ EnoughLiquidity(st)
  OBVIOUS
<1> HIDE DEF st
<1>6. CASE alerts' = alerts \cup {AlertOf(p, st)}
  BY <1>6, AlertIs
<1>7. CASE \E t \in Int : ("time" \notin happened' => t = time) /\ ~Fires(st, t)
  <2>1. ~Fires(st, time)
    BY <1>1, <1>7
  <2>2. InCooldown(st, time)
    BY <1>5, <2>1 DEF Fires
  <2>3. states[p].lastAlert # NoTime /\ time - states[p].lastAlert < Cooldown
    BY <1>3, <2>2 DEF InCooldown
  <2>4. \E a \in alerts : a.pool = p /\ a.time = states[p].lastAlert
    BY <1>1, <2>3 DEF Told
  <2>5. QED
    BY <1>1, <2>3, <2>4
<1>8. QED
  BY <1>0, <1>4, <1>6, <1>7, JudgedDoes DEF st

(* The dumps of which a report is promised, and the failures that leave    *)
(* the promise standing; the pools that were judged in this block have     *)
(* their alert.                                                            *)
Dumped(p) ==
    /\ DropsAtLeast(TrueTop(p, runFrom), price[p][0], DropPct)
    /\ \/ p \in V2Pools /\ TrueLiquidityTop(p, runFrom) >= MinLiquidity
       \/ p \in V3Pools /\ QuoteKnown(p, ethKnown) /\ liquidity[p][0] >= MinLiquidity

Promised(p) ==
    \/ p \in V2Pools /\ Without({"eth", "prime", "skip", "time"})
    \/ p \in V3Pools /\ Without({"prime", "refresh", "skip", "time"})

Answered ==
    at = "evaluate" /\ KeepsWindow => \A p \in TouchedPools \ todo :
        Promised(p) /\ Dumped(p) => Reported(p)

LEMMA AnswerNow ==
    ASSUME Sound, Exact, Told, Weighed, [Next]_vars, KeepsWindow,
           NEW p \in TouchedPools, Dismiss(p) \/ Evaluate(p), Promised(p)', Dumped(p)
    PROVE  \E a \in alerts' : a.pool = p /\ (a.block = now \/ time - a.time < Cooldown)
<1>0. EngineType /\ Known /\ p \in Pools
  BY DEF Sound, TouchedPools
<1>1. Promised(p) /\ Without({"prime", "skip"}) /\ Without({"time"})'
  <2>1. Promised(p)
    BY <1>0, WithoutBefore DEF Promised
  <2>2. QED
    BY <2>1 DEF Promised, Without
<1>2. at = "evaluate" /\ p \in todo
  BY <1>0, JudgedDoes
<1>3. p \in DOMAIN states
  BY <1>0, <1>1, <1>2 DEF Known
<1>4. now \in Int /\ states[p] \in PoolStates
  BY <1>0, <1>3, ChainIs DEF EngineType
<1> DEFINE st == Pruned(states[p], now)
<1>5. Candidate(st)
  <2>1. /\ Top(st.price) = TrueTop(p, runFrom) /\ st.price.current = price[p][0]
        /\ Top(st.price) > 0 /\ st.price.current > 0
    BY <1>1, <1>2, <1>3, PriceJudged
  <2>2. QED
    BY <2>1 DEF Candidate, Dumped
<1>6. CASE p \in V2Pools
  <2>1. Without({"eth", "prime", "skip"})
    BY <1>1, <1>6, Numbers DEF Promised, Without
  <2>2. Top(st.liquidity) = TrueLiquidityTop(p, runFrom) /\ st.liquidity.current # NoValue
    BY <1>2, <1>3, <1>6, <2>1, PairJudged
  <2>3. EnoughLiquidity(st)
    BY <1>6, <2>2, Numbers DEF EnoughLiquidity, Dumped
  <2>4. QED
    BY <1>0, <1>1, <1>3, <1>5, <2>3, FiringIsReported
<1>7. CASE p \notin V2Pools
  <2> DEFINE y == Prune(states[p].liquidity, now, Window)
             v == liquidity[p][0]
  <2>1. p \in V3Pools /\ Without({"refresh"}) /\ QuoteKnown(p, ethKnown) /\ v >= MinLiquidity
    BY <1>1, <1>7 DEF Promised, Dumped, Without
  <2>2. IsCandidate(p)
    BY <1>3, <1>5 DEF IsCandidate
  <2>3. states[p].liquidity.current = v /\ v \in Values(y)
    BY <1>2, <2>1, <2>2 DEF Weighed
  <2>4. y \in Series /\ st.liquidity = y /\ st.liquidity.current = states[p].liquidity.current
    BY <1>4, PartsOf, PruneIs, PrunedIs DEF CutAt
  <2>5. v \in Int /\ MinLiquidity \in Nat
    BY <1>0, ChainIs, Numbers
  <2> HIDE DEF y, v
  <2>6. Top(y) \in Values(y) /\ v <= Top(y)
    BY <2>3, <2>4, TopIn
  <2>7. Top(y) \in Int
    BY <2>4, <2>6, ValuesAreNumbers
  <2>8. Top(y) >= MinLiquidity /\ v # NoValue
    BY <2>1, <2>5, <2>6, <2>7 DEF NoValue
  <2>9. EnoughLiquidity(st)
    BY <2>3, <2>4, <2>8 DEF EnoughLiquidity
  <2>10. QED
    BY <1>0, <1>1, <1>3, <1>5, <2>9, FiringIsReported
<1>8. QED
  BY <1>6, <1>7

LEMMA AnsweredStep == Sound /\ Exact /\ Told /\ Weighed /\ Answered /\ [Next]_vars => Answered'
<1> SUFFICES ASSUME Sound, Exact, Told, Weighed, Answered, [Next]_vars,
                    at' = "evaluate", KeepsWindow, NEW p \in TouchedPools' \ todo', Promised(p)', Dumped(p)'
             PROVE  Reported(p)'
  BY DEF Answered, KeepsWindow
<1>0. EngineType /\ Promised(p)
  <2>1. EngineType
    BY DEF Sound
  <2>2. QED
    BY <2>1, WithoutBefore DEF Promised
<1>1. ASSUME UNCHANGED <<chainVars, ethKnown, runFrom>>
      PROVE  /\ now' = now /\ time' = time
             /\ Dumped(p)
             /\ alerts \subseteq alerts' /\ Reported(p) => Reported(p)'
  <2>1. now' = now /\ time' = time /\ price' = price /\ liquidity' = liquidity /\ runFrom' = runFrom
    BY <1>1 DEF chainVars
  <2>2. TrueTop(p, runFrom)' = TrueTop(p, runFrom) /\ TrueLiquidityTop(p, runFrom)' = TrueLiquidityTop(p, runFrom)
    BY <2>1 DEF TrueTop, TrueLiquidityTop, Seen
  <2>3. Dumped(p)
    BY <1>1, <2>1, <2>2 DEF Dumped, QuoteKnown
  <2>4. QED
    BY <2>1, <2>3 DEF Reported
<1>2. CASE UNCHANGED vars
  <2>1. UNCHANGED <<chainVars, ethKnown, runFrom, alerts, todo, ops, at>>
    BY <1>2 DEF vars, engineVars
  <2>2. p \in TouchedPools /\ p \notin todo /\ at = "evaluate"
    BY <2>1 DEF TouchedPools
  <2>3. QED
    BY <1>0, <1>1, <2>1, <2>2 DEF Answered
<1>3. CASE Wait
  BY <1>2, <1>3 DEF Wait
<1>4. CASE Begin \/ EmptyBlock \/ SkipBlock \/ Bootstrap \/ Prime \/ Apply \/ Finish \/ Restart
  BY <1>4 DEF Begin, EmptyBlock, SkipBlock, Bootstrap, Prime, Apply, Finish, Restart
<1>5. CASE Refresh
  <2>1. todo' = TouchedPools /\ ops' = ops
    BY <1>5 DEF Refresh
  <2>2. TouchedPools' = TouchedPools
    BY <2>1 DEF TouchedPools
  <2>3. QED
    BY <2>1, <2>2
<1>6. ASSUME NEW q \in Pools, Dismiss(q) \/ Evaluate(q) PROVE Reported(p)'
  <2>1. /\ UNCHANGED <<chainVars, ethKnown, runFrom, ops>> /\ at = "evaluate" /\ todo' = todo \ {q}
        /\ alerts \subseteq alerts'
    BY <1>0, <1>6, JudgedDoes
  <2>2. p \in TouchedPools
    BY <2>1 DEF TouchedPools
  <2>3. CASE p # q
    BY <1>0, <1>1, <2>1, <2>2, <2>3 DEF Answered
  <2>4. CASE p = q
    <3>1. \E a \in alerts' : a.pool = p /\ (a.block = now \/ time - a.time < Cooldown)
      BY <1>1, <1>6, <2>1, <2>2, <2>4, AnswerNow
    <3>2. QED
      BY <1>1, <2>1, <3>1 DEF Reported
  <2>5. QED
    BY <2>3, <2>4
<1>7. QED
  BY <1>2, <1>3, <1>4, <1>5, <1>6 DEF Next

LEMMA AnsweredInvariant == Spec => []Answered
<1>1. Init => Told /\ Weighed /\ Answered
  BY DEF Init, Told, Weighed, Answered
<1>2. QED
  BY <1>1, SoundInit, SoundStep, ExactInit, ExactStep, ToldStep, WeighedStep, AnsweredStep, PTL DEF Spec

(* README.md:39-44 (Engine.NoMissedDump): a V2 pool that really dumped,    *)
(* and was worth enough before, has an alert by the end of the block or    *)
(* had one less than the cooldown ago; through unloading and restarts, but *)
(* not when a read of the state before the block fails.                    *)
THEOREM DumpsAreReported == Spec => []NoMissedDump
<1>1. Answered => NoMissedDump
  BY Numbers DEF Answered, Promised, Dumped, NoMissedDump
<1>2. QED
  BY <1>1, AnsweredInvariant, PTL

(* README.md:36-44 (Engine.NoMissedV3Dump): so does a V3 pool that is      *)
(* worth enough at the end of the block, though its balance was not        *)
(* recorded before or was not due, when the reads of the block succeed.    *)
THEOREM V3DumpsAreReported == Spec => []NoMissedV3Dump
<1>1. Answered => NoMissedV3Dump
  BY Numbers DEF Answered, Promised, Dumped, NoMissedV3Dump
<1>2. QED
  BY <1>1, AnsweredInvariant, PTL

-----------------------------------------------------------------------------
(* Withdrawals.                                                            *)

(* The blocks in which the detector saw one are blocks that had one; it    *)
(* saw those of its run that the window can still reach.                   *)
BurnsFit(p) ==
    LET st == StateOf(states, p)
    IN  /\ \A b \in st.burns : /\ runFrom <= b /\ b <= Upto /\ b <= st.lastBlock
                               /\ now - b <= Window => now - b \in burnt[p]
        /\ \A k \in burnt[p] : /\ k < IF at = "idle" THEN Window - 1 ELSE Window
                               /\ runFrom <= now - k /\ now - k <= Upto
                               => now - k \in st.burns

Burns == KeepsWindow /\ Without({"skip"}) => \A p \in Pools : BurnsFit(p)

LEMMA StateOfNext ==
    ASSUME NEW p
    PROVE  /\ p \in DOMAIN states' => StateOf(states', p) = states'[p]
           /\ p \notin DOMAIN states' => StateOf(states', p) = NewState
BY DEF StateOf

(* Nothing is seen and nothing forgotten.                                  *)
LEMMA BurnsSame ==
    ASSUME EngineType, NEW p \in Pools, BurnsFit(p), UNCHANGED <<chainVars, runFrom>>, Upto' = Upto,
           at' = "idle" \/ at # "idle",
           StateOf(states', p).burns = StateOf(states, p).burns,
           StateOf(states', p).lastBlock >= StateOf(states, p).lastBlock,
           StateOf(states', p).lastBlock \in Int
    PROVE  BurnsFit(p)'
<1>1. now' = now /\ burnt' = burnt /\ runFrom' = runFrom /\ now \in Int /\ burnt[p] \in SUBSET Back
  BY ChainIs DEF chainVars, EngineType, TypeOK
<1> DEFINE B == StateOf(states, p).burns
           l == StateOf(states, p).lastBlock
           m == StateOf(states', p).lastBlock
<1>2. B \in SUBSET Int /\ l \in Int /\ m \in Int /\ l <= m /\ StateOf(states', p).burns = B
  BY StateOfIs, PartsOf
<1>3. /\ \A b \in B : runFrom <= b /\ b <= Upto /\ b <= l /\ (now - b <= Window => now - b \in burnt[p])
      /\ \A k \in burnt[p] : /\ k < IF at = "idle" THEN Window - 1 ELSE Window
                             /\ runFrom <= now - k /\ now - k <= Upto
                             => now - k \in B
  BY DEF BurnsFit
<1> HIDE DEF B, l, m
<1>4. \A b \in B : b <= m
  BY <1>2, <1>3
<1>5. \A k \in burnt[p] : k < (IF at' = "idle" THEN Window - 1 ELSE Window)
                          => k < (IF at = "idle" THEN Window - 1 ELSE Window)
  <2>1. \A k \in burnt[p] : k \in Int /\ (k < Window - 1 => k < Window)
    BY <1>1, Numbers
  <2>2. QED
    BY <2>1
<1>6. QED
  BY <1>1, <1>2, <1>3, <1>4, <1>5 DEF BurnsFit, m

LEMMA BurnsBlock == Sound /\ Burns /\ (Begin \/ EmptyBlock \/ SkipBlock) => Burns'
<1> SUFFICES ASSUME Sound, Burns, Begin \/ EmptyBlock \/ SkipBlock,
                    KeepsWindow, Without({"skip"})', NEW p \in Pools
             PROVE  BurnsFit(p)'
  BY DEF Burns, KeepsWindow
<1>0. EngineType /\ Grounded /\ [Next]_vars
  BY DEF Sound, Next
<1>1. Without({"skip"}) /\ ~SkipBlock
  <2>1. ~SkipBlock
    BY DEF SkipBlock, Fault, Without
  <2>2. QED
    BY <1>0, <2>1, WithoutBefore
<1>2. /\ states' = states /\ runFrom' = runFrom /\ at = "idle"
      /\ at' = "eth" \/ (EmptyBlock /\ at' = "idle")
  BY <1>1 DEF Begin, EmptyBlock, engineVars
<1>3. PICK chosen \in BlockChoices : NextBlock(chosen) /\ (EmptyBlock => Where(chosen[p], Emitting) = {})
  BY <1>1 DEF Begin, EmptyBlock
<1> DEFINE B == StateOf(states, p).burns
           l == StateOf(states, p).lastBlock
           n == now'
<1>4. /\ n = now + 1 /\ now \in Int /\ n \in Int /\ Upto = now
      /\ burnt[p] \in SUBSET Back /\ burnt'[p] \in SUBSET Back
  BY <1>0, <1>2, <1>3, ChainStep, ChainIs DEF EngineType, TypeOK, Upto
<1>5. \A k \in Back : k \in burnt'[p] <=> IF k = 0 THEN Where(chosen[p], {"burn"}) # {} ELSE k - 1 \in burnt[p]
  BY <1>0, <1>3, ChainStep
<1>6. Upto' = IF at' = "eth" THEN n - 1 ELSE n
  BY <1>2 DEF Upto
<1>7. at' # "eth" => 0 \notin burnt'[p]
  <2>1. EmptyBlock => Where(chosen[p], {"burn"}) = {}
    <3>1. Where(chosen[p], {"burn"}) \subseteq Where(chosen[p], Emitting)
      BY DEF Where, Emitting
    <3>2. QED
      BY <1>3, <3>1
  <2>2. QED
    BY <1>2, <1>5, <2>1, Numbers
<1>8. BurnsFit(p) /\ B \in SUBSET Int /\ l \in Int
  BY <1>0, <1>1, StateOfIs, PartsOf DEF Burns
<1>9. /\ \A b \in B : runFrom <= b /\ b <= now /\ b <= l /\ (now - b <= Window => now - b \in burnt[p])
      /\ \A k \in burnt[p] : k < Window - 1 /\ runFrom <= now - k /\ now - k <= now => now - k \in B
  BY <1>2, <1>4, <1>8 DEF BurnsFit
<1> HIDE DEF B, l, n
<1>10. ASSUME NEW b \in B PROVE runFrom <= b /\ b <= Upto' /\ b <= l /\ (n - b <= Window => n - b \in burnt'[p])
  <2>1. b \in Int /\ runFrom <= b /\ b <= now /\ b <= l /\ (now - b <= Window => now - b \in burnt[p])
    BY <1>8, <1>9
  <2>2. b <= Upto'
    BY <1>4, <1>6, <2>1
  <2>3. ASSUME n - b <= Window PROVE n - b \in burnt'[p]
    <3> DEFINE k == n - b
    <3>1. k \in Back /\ k # 0 /\ k - 1 = now - b /\ now - b <= Window
      BY <1>4, <2>1, <2>3, Numbers
    <3> HIDE DEF k
    <3>2. k \in burnt'[p]
      BY <1>5, <2>1, <3>1
    <3>3. QED
      BY <3>2 DEF k
  <2>4. QED
    BY <2>1, <2>2, <2>3
<1>11. ASSUME NEW k \in burnt'[p], k < (IF at' = "idle" THEN Window - 1 ELSE Window),
              runFrom <= n - k, n - k <= Upto'
       PROVE  n - k \in B
  <2>1. k \in Back /\ k \in Int /\ k >= 0 /\ k < Window
    BY <1>4, <1>11, Numbers
  <2>2. k # 0
    <3>1. CASE at' = "eth"
      BY <1>4, <1>6, <1>11, <2>1, <3>1
    <3>2. CASE at' # "eth"
      BY <1>7, <1>11, <3>2
    <3>3. QED
      BY <3>1, <3>2
  <2>3. k - 1 \in burnt[p]
    BY <1>5, <1>11, <2>1, <2>2
  <2>4. k - 1 < Window - 1 /\ now - (k - 1) = n - k /\ n - k <= now
    BY <1>4, <2>1, <2>2, Numbers
  <2> DEFINE j == k - 1
  <2> HIDE DEF j
  <2>5. j \in burnt[p] /\ j < Window - 1 /\ now - j = n - k /\ n - k <= now
    BY <2>3, <2>4 DEF j
  <2>6. now - j \in B
    BY <1>9, <1>11, <2>5
  <2>7. QED
    BY <2>5, <2>6
<1>12. QED
  BY <1>2, <1>10, <1>11 DEF BurnsFit, B, l, n

LEMMA BurnsApply == Sound /\ Burns /\ Apply => Burns'
<1> SUFFICES ASSUME Sound, Burns, Apply, KeepsWindow, Without({"skip"})', NEW p \in Pools
             PROVE  BurnsFit(p)'
  BY DEF Burns, KeepsWindow
<1>0. EngineType /\ Grounded /\ [Next]_vars
  BY DEF Sound, Next
<1>1. /\ UNCHANGED <<chainVars, runFrom>> /\ at = "apply" /\ at' = "refresh"
      /\ now' = now /\ burnt' = burnt /\ runFrom' = runFrom
  BY DEF Apply, chainVars
<1> DEFINE B == StateOf(states, p).burns
           C == StateOf(states', p).burns
           l == StateOf(states, p).lastBlock
           m == StateOf(states', p).lastBlock
           W == Where(ops[p], {"burn"}) = {}
<1>2. /\ now \in Int /\ burnt[p] \in SUBSET Back /\ Upto = now - 1 /\ Upto' = now
      /\ runFrom \in Int /\ runFrom <= now
      /\ (W <=> 0 \notin burnt[p])
  BY <1>0, <1>1, Numerals DEF EngineType, TypeOK, Upto, Grounded, OpsFit
<1>3. /\ StateOf(states, p) \in PoolStates /\ l <= now
  <2>1. l \in {0} \cup (FirstBlock .. now) /\ now \in Nat /\ FirstBlock \in Nat /\ StateOf(states, p) \in PoolStates
    BY <1>0, StateOfIs, ChainIs, Numbers
  <2> HIDE DEF l
  <2>2. QED
    BY <2>1
<1>4. B \in SUBSET Int /\ l \in Int
  BY <1>3, PartsOf
<1>5. C = (IF W THEN B ELSE B \cup {now}) /\ l <= m /\ m \in Int /\ (~W => m = now)
  <2>1. CASE Recorded(p)
    <3>1. PICK known \in BOOLEAN : states'[p] = ApplyEvents(StateOf(states, p), p, known)
      BY <1>0, <2>1, ApplyDoes
    <3>2. p \in DOMAIN states'
      BY <1>0, <2>1, ApplyDoes
    <3> DEFINE t == ApplyEvents(StateOf(states, p), p, known)
    <3>3. t.burns = (IF W THEN B ELSE B \cup {now}) /\ t.lastBlock = now
      BY <1>0, <1>3, <2>1, ApplyEventsIs
    <3>4. StateOf(states', p) = t
      BY <3>1, <3>2, StateOfNext
    <3> HIDE DEF t, W, B, l
    <3>5. C = (IF W THEN B ELSE B \cup {now}) /\ m = now
      BY <3>3, <3>4
    <3> HIDE DEF m
    <3>6. QED
      BY <1>2, <1>3, <3>5
  <2>2. CASE ~Recorded(p)
    <3>1. W
      BY <2>2 DEF Recorded, Where
    <3>2. StateOf(states', p) = StateOf(states, p)
      BY <1>0, <2>2, ApplyDoes, StateOfIs, StateOfNext
    <3> HIDE DEF W
    <3>3. C = B /\ m = l
      BY <3>2
    <3> HIDE DEF B, C, m, l
    <3>4. QED
      BY <1>4, <3>1, <3>3
  <2>3. QED
    BY <2>1, <2>2
<1>6. BurnsFit(p)
  BY <1>0, WithoutBefore DEF Burns
<1>7. /\ \A b \in B : runFrom <= b /\ b <= now - 1 /\ b <= l /\ (now - b <= Window => now - b \in burnt[p])
      /\ \A k \in burnt[p] : k < Window /\ runFrom <= now - k /\ now - k <= now - 1 => now - k \in B
  BY <1>1, <1>2, <1>6 DEF BurnsFit
<1> HIDE DEF B, C, l, m, W
<1>8. ASSUME NEW b \in C PROVE runFrom <= b /\ b <= now /\ b <= m /\ (now - b <= Window => now - b \in burnt[p])
  <2>1. CASE b \in B
    <3>1. b \in Int /\ runFrom <= b /\ b <= now - 1 /\ b <= l /\ (now - b <= Window => now - b \in burnt[p])
      BY <1>4, <1>7, <2>1
    <3>2. b <= now /\ b <= m
      BY <1>2, <1>4, <1>5, <3>1
    <3>3. QED
      BY <3>1, <3>2
  <2>2. CASE b \notin B
    <3>1. b = now /\ ~W
      BY <1>5, <1>8, <2>2
    <3>2. now - b = 0
      BY <1>2, <3>1
    <3>3. QED
      BY <1>2, <1>5, <3>1, <3>2
  <2>3. QED
    BY <2>1, <2>2
<1>9. ASSUME NEW k \in burnt[p], k < Window, runFrom <= now - k PROVE now - k \in C
  <2>1. k \in Int /\ k >= 0
    BY <1>2, Numbers
  <2>2. CASE k = 0
    <3>1. ~W /\ now - k = now
      BY <1>2, <2>2, <1>9
    <3>2. QED
      BY <1>5, <3>1
  <2>3. CASE k # 0
    <3>1. now - k <= now - 1
      BY <1>2, <2>1, <2>3
    <3>2. QED
      BY <1>5, <1>7, <1>9, <3>1
  <2>4. QED
    BY <2>2, <2>3
<1>10. QED
  BY <1>1, <1>2, <1>8, <1>9 DEF BurnsFit, C, m

(* current_drop() forgets what the window no longer reaches.               *)
LEMMA BurnsJudged == \A q \in Pools : Sound /\ Burns /\ (Dismiss(q) \/ Evaluate(q)) => Burns'
<1> SUFFICES ASSUME NEW q \in Pools, Sound, Burns, Dismiss(q) \/ Evaluate(q),
                    KeepsWindow, Without({"skip"})', NEW p \in Pools
             PROVE  BurnsFit(p)'
  BY DEF Burns, KeepsWindow
<1>0. EngineType /\ Grounded /\ [Next]_vars
  BY DEF Sound, Next
<1>1. /\ UNCHANGED <<chainVars, runFrom, at>> /\ at = "evaluate" /\ DOMAIN states' = DOMAIN states
      /\ now' = now /\ burnt' = burnt /\ runFrom' = runFrom
  BY <1>0, JudgedDoes DEF chainVars
<1>2. BurnsFit(p)
  BY <1>0, WithoutBefore DEF Burns
<1> DEFINE B == StateOf(states, p).burns
           C == StateOf(states', p).burns
           l == StateOf(states, p).lastBlock
           m == StateOf(states', p).lastBlock
<1>3. now \in Int /\ burnt[p] \in SUBSET Back /\ Upto = now /\ Upto' = now
  BY <1>0, <1>1, ChainIs DEF EngineType, TypeOK, Upto
<1>4. B \in SUBSET Int
  BY <1>0, StateOfIs, PartsOf
<1>5. m = l /\ (C = B \/ C = {b \in B : b > now - Window})
  <2>1. CASE p \notin DOMAIN states
    BY <1>0, <1>1, <2>1, StateOfIs, StateOfNext
  <2>2. CASE p \in DOMAIN states
    <3>1. StateOf(states, p) = states[p] /\ StateOf(states', p) = states'[p] /\ states[p] \in PoolStates
      BY <1>0, <1>1, <2>2, StateOfIs, StateOfNext
    <3> DEFINE x == Pruned(states[p], now)
    <3>2. x.burns = {b \in states[p].burns : b > now - Window} /\ x \in PoolStates
      BY <1>3, <3>1, PrunedIs
    <3>3. states'[p].lastBlock = states[p].lastBlock
      BY <1>0, <2>2, JudgedGrows
    <3>4. states'[p].burns = states[p].burns \/ states'[p].burns = x.burns
      <4>1. CASE p # q
        BY <1>0, <2>2, <4>1, JudgedGrows
      <4>2. CASE p = q /\ states'[p] = x
        BY <4>2
      <4>3. CASE p = q /\ states'[p] # x
        <5>1. \E t \in Int : states'[p] = [x EXCEPT !.lastAlert = t]
          BY <1>0, <2>2, <4>3, JudgedDoes
        <5> HIDE DEF x
        <5>2. QED
          BY <3>2, <5>1 DEF PoolStates
      <4>4. QED
        BY <4>1, <4>2, <4>3
    <3> HIDE DEF x
    <3>5. QED
      BY <3>1, <3>2, <3>3, <3>4
  <2>3. QED
    BY <2>1, <2>2
<1>6. /\ \A b \in B : runFrom <= b /\ b <= now /\ b <= l /\ (now - b <= Window => now - b \in burnt[p])
      /\ \A k \in burnt[p] : k < Window /\ runFrom <= now - k /\ now - k <= now => now - k \in B
  BY <1>1, <1>2, <1>3 DEF BurnsFit
<1> HIDE DEF B, C, l, m
<1>7. \A b \in C : runFrom <= b /\ b <= now /\ b <= m /\ (now - b <= Window => now - b \in burnt[p])
  BY <1>5, <1>6
<1>8. ASSUME NEW k \in burnt[p], k < Window, runFrom <= now - k, now - k <= now PROVE now - k \in C
  <2>1. now - k \in B /\ now - k > now - Window
    BY <1>3, <1>6, <1>8, Numbers
  <2>2. QED
    BY <1>5, <2>1
<1>9. QED
  BY <1>1, <1>3, <1>7, <1>8 DEF BurnsFit, C, m

(* gc() unloads no pool with a withdrawal that still counts.               *)
LEMMA BurnsFinish == Sound /\ Burns /\ Finish => Burns'
<1> SUFFICES ASSUME Sound, Burns, Finish, KeepsWindow, Without({"skip"})', NEW p \in Pools
             PROVE  BurnsFit(p)'
  BY DEF Burns, KeepsWindow
<1>0. EngineType /\ Grounded /\ [Next]_vars
  BY DEF Sound, Next
<1>1. /\ UNCHANGED <<chainVars, runFrom>> /\ at = "evaluate" /\ at' = "idle"
      /\ \A q \in DOMAIN states' : q \in DOMAIN states /\ states'[q] = states[q]
      /\ \A q \in DOMAIN states \ DOMAIN states' : Stale(states[q], now)
      /\ now' = now /\ burnt' = burnt /\ runFrom' = runFrom
  BY <1>0, FinishDoes DEF chainVars
<1>2. BurnsFit(p)
  BY <1>0, WithoutBefore DEF Burns
<1>3. now \in Int /\ burnt[p] \in SUBSET Back /\ Upto = now /\ Upto' = now
  BY <1>0, <1>1, ChainIs DEF EngineType, TypeOK, Upto
<1> DEFINE B == StateOf(states, p).burns
           l == StateOf(states, p).lastBlock
<1>4. B \in SUBSET Int /\ l \in Int
  BY <1>0, StateOfIs, PartsOf
<1>5. CASE StateOf(states', p) = StateOf(states, p)
  BY <1>0, <1>1, <1>2, <1>3, <1>4, <1>5, BurnsSame
<1>6. CASE StateOf(states', p) # StateOf(states, p)
  <2>1. p \in DOMAIN states /\ p \notin DOMAIN states'
    BY <1>0, <1>1, <1>6, StateOfIs, StateOfNext
  <2>2. l < now - StateGc
    BY <1>0, <1>1, <2>1, StateOfIs DEF Stale
  <2>3. StateOf(states', p).burns = {}
    BY <2>1, StateOfNext DEF NewState
  <2>4. /\ \A b \in B : b <= l
        /\ \A k \in burnt[p] : k < Window /\ runFrom <= now - k /\ now - k <= now => now - k \in B
    BY <1>1, <1>2, <1>3 DEF BurnsFit
  <2> HIDE DEF B, l
  <2>5. ASSUME NEW k \in burnt[p], k < Window - 1, runFrom <= now - k, now - k <= now PROVE FALSE
    <3>1. k \in Int /\ Window \in Int /\ StateGc \in Int /\ StateGc + 2 >= Window
      BY <1>3, Numbers DEF KeepsWindow
    <3>2. now - k \in B
      BY <2>4, <2>5, <3>1
    <3>3. now - k <= l
      BY <2>4, <3>2
    <3>4. QED
      BY <1>3, <1>4, <2>2, <2>5, <3>1, <3>3
  <2>6. QED
    BY <1>1, <1>3, <2>3, <2>5 DEF BurnsFit
<1>7. QED
  BY <1>5, <1>6

LEMMA BurnsStep == Sound /\ Sound' /\ Burns /\ [Next]_vars => Burns'
<1> SUFFICES ASSUME Sound, Sound', Burns, [Next]_vars PROVE Burns'
  OBVIOUS
<1>0. EngineType /\ EngineType' /\ Grounded
  BY DEF Sound
<1>1. ASSUME UNCHANGED <<chainVars, runFrom>>, Upto' = Upto, at' = "idle" \/ at # "idle",
             \A p \in Pools : /\ StateOf(states', p).burns = StateOf(states, p).burns
                              /\ StateOf(states', p).lastBlock = StateOf(states, p).lastBlock
      PROVE  Burns'
  <2> SUFFICES ASSUME KeepsWindow, Without({"skip"})', NEW p \in Pools PROVE BurnsFit(p)'
    BY DEF Burns, KeepsWindow
  <2>1. BurnsFit(p)
    BY <1>0, WithoutBefore DEF Burns
  <2>2. StateOf(states, p).lastBlock \in Int
    BY <1>0, StateOfIs, PartsOf
  <2>3. QED
    BY <1>0, <1>1, <2>1, <2>2, BurnsSame
<1>2. CASE UNCHANGED vars
  <2>1. UNCHANGED <<chainVars, runFrom, at, states>>
    BY <1>2 DEF vars, engineVars
  <2>2. now' = now
    BY <2>1 DEF chainVars
  <2>3. QED
    BY <1>1, <2>1, <2>2 DEF Upto
<1>3. CASE Wait
  BY <1>2, <1>3 DEF Wait
<1>4. CASE Begin \/ EmptyBlock \/ SkipBlock
  BY <1>4, BurnsBlock
<1>5. CASE Bootstrap
  <2>1. UNCHANGED <<chainVars, runFrom, states>> /\ now' = now /\ at = "eth" /\ at' = "prime"
    BY <1>5 DEF Bootstrap, chainVars
  <2>2. QED
    BY <1>1, <2>1 DEF Upto
<1>6. CASE Prime \/ Refresh
  <2>1. /\ UNCHANGED <<chainVars, runFrom>> /\ now' = now
        /\ (at = "prime" /\ at' = "apply") \/ (at = "refresh" /\ at' = "evaluate")
    BY <1>6 DEF Prime, Refresh, chainVars
  <2>2. Upto' = Upto
    BY <2>1 DEF Upto
  <2>3. ASSUME NEW p \in Pools
        PROVE  /\ StateOf(states', p).burns = StateOf(states, p).burns
               /\ StateOf(states', p).lastBlock = StateOf(states, p).lastBlock
    <3>1. CASE p \in DOMAIN states'
      BY <1>0, <1>6, <3>1, PrimeGrows, RefreshGrows, StateOfNext
    <3>2. CASE p \notin DOMAIN states'
      <4>1. p \notin DOMAIN states
        BY <1>0, <1>6, <3>2, PrimeDoes, RefreshDoes
      <4>2. QED
        BY <1>0, <3>2, <4>1, StateOfIs, StateOfNext
    <3>3. QED
      BY <3>1, <3>2
  <2>4. QED
    BY <1>1, <2>1, <2>2, <2>3
<1>7. CASE Apply
  BY <1>7, BurnsApply
<1>8. CASE \E q \in Pools : Dismiss(q) \/ Evaluate(q)
  BY <1>8, BurnsJudged
<1>9. CASE Finish
  BY <1>9, BurnsFinish
<1>10. CASE Restart
  <2> SUFFICES ASSUME NEW p \in Pools PROVE BurnsFit(p)'
    BY DEF Burns
  <2>1. /\ UNCHANGED chainVars /\ DOMAIN states' = {} /\ now' = now /\ now \in Int
        /\ \/ runFrom' = now + 1 /\ at' = "idle"
           \/ runFrom' = now /\ at' = "eth"
    BY <1>0, <1>10, Numerals DEF Restart, chainVars
  <2>2. StateOf(states', p).burns = {}
    BY <2>1, StateOfNext DEF NewState
  <2>3. runFrom' = Upto' + 1 /\ Upto' \in Int
    BY <2>1 DEF Upto
  <2>4. ASSUME NEW k \in burnt'[p], runFrom' <= now' - k, now' - k <= Upto' PROVE FALSE
    <3>1. k \in Int
      BY <1>0, Numbers DEF EngineType, TypeOK
    <3> DEFINE r == runFrom'
               n == now'
               u == Upto'
    <3>2. r = u + 1 /\ u \in Int /\ n \in Int /\ r <= n - k /\ n - k <= u
      BY <2>1, <2>3, <2>4
    <3> HIDE DEF r, n, u
    <3>3. QED
      BY <3>1, <3>2
  <2>5. QED
    BY <2>2, <2>4 DEF BurnsFit
<1>11. QED
  BY <1>2, <1>3, <1>4, <1>5, <1>6, <1>7, <1>8, <1>9, <1>10 DEF Next

LEMMA BurnsInvariant == Spec => [](Sound /\ Exact /\ Burns)
<1>1. Init => Burns
  <2> SUFFICES ASSUME Init, NEW p \in Pools PROVE BurnsFit(p)
    BY DEF Burns
  <2>1. StateOf(states, p).burns = {} /\ burnt[p] = {}
    BY DEF Init, StateOf, NewState
  <2>2. QED
    BY <2>1 DEF BurnsFit
<1>2. QED
  BY <1>1, SoundInit, SoundStep, ExactInit, ExactStep, BurnsStep, PTL DEF Spec

LEMMA BurnIsTrue ==
    ASSUME Sound, Burns, KeepsWindow, Without({"skip"}), at = "evaluate", NEW p \in DOMAIN states
    PROVE  Pruned(states[p], now).burns # {} <=> TrueBurn(p, runFrom)
<1>1. EngineType /\ p \in Pools /\ states[p] \in PoolStates /\ StateOf(states, p) = states[p] /\ BurnsFit(p)
  BY StateOfIs DEF Sound, Burns, EngineType, TypeOK
<1> DEFINE B == states[p].burns
<1>2. now \in Int /\ burnt[p] \in SUBSET Back /\ Upto = now /\ B \in SUBSET Int /\ Window \in Int
  <2>1. now \in Int /\ B \in SUBSET Int /\ Window \in Int
    BY <1>1, ChainIs, PartsOf, Numbers
  <2>2. burnt[p] \in SUBSET Back /\ Upto = now
    BY <1>1 DEF EngineType, TypeOK, Upto
  <2>3. QED
    BY <2>1, <2>2
<1>3. /\ \A b \in B : runFrom <= b /\ b <= now /\ (now - b <= Window => now - b \in burnt[p])
      /\ \A k \in burnt[p] : k < Window /\ runFrom <= now - k /\ now - k <= now => now - k \in B
  BY <1>1, <1>2 DEF BurnsFit
<1>4. Pruned(states[p], now).burns = {b \in B : b > now - Window}
  BY <1>1, <1>2, PrunedIs
<1> HIDE DEF B
<1>5. ASSUME NEW b \in B, b > now - Window PROVE TrueBurn(p, runFrom)
  <2> DEFINE k == now - b
  <2>1. k \in burnt[p] /\ k < Window /\ now - k = b /\ b >= runFrom
    BY <1>2, <1>3, <1>5
  <2> HIDE DEF k
  <2>2. QED
    BY <2>1 DEF TrueBurn
<1>6. ASSUME NEW k \in burnt[p], k < Window, now - k >= runFrom PROVE now - k \in B /\ now - k > now - Window
  <2>1. k \in Int /\ k >= 0
    BY <1>2, Numbers
  <2>2. now - k <= now /\ runFrom <= now - k /\ now - k > now - Window
    BY <1>1, <1>2, <1>6, <2>1 DEF EngineType, TypeOK
  <2>3. QED
    BY <1>3, <1>6, <2>2
<1>7. QED
  BY <1>4, <1>5, <1>6 DEF TrueBurn

(* README.md:55-56 (Engine.RugpullExact): an alert about a V2 pool is      *)
(* marked as a rug pull exactly when liquidity was withdrawn within the    *)
(* window and it fell by more than the threshold, as far back as the run   *)
(* can know; the state of the pool unloaded as it may be in between.       *)
THEOREM RugpullIsExact == Spec => []RugpullExact
<1>1. Init => RugpullExact
  BY DEF Init, RugpullExact, AlertsNow
<1>2. Sound /\ Exact /\ Burns /\ RugpullExact /\ [Next]_vars => RugpullExact'
  <2> DEFINE Mark(a) ==
                a.rugpull <=> /\ TrueBurn(a.pool, a.run)
                              /\ DropsMoreThan(TrueLiquidityTop(a.pool, a.run), liquidity[a.pool][0], RugpullPct)
  <2> SUFFICES ASSUME Sound, Exact, Burns, RugpullExact, [Next]_vars, KeepsWindow,
                      Without({"eth", "prime", "skip"})', NEW a \in AlertsNow', a.pool \in V2Pools
               PROVE  Mark(a)'
    BY DEF RugpullExact, KeepsWindow
  <2>1. Without({"eth", "prime", "skip"}) /\ EngineType
    BY WithoutBefore DEF Sound
  <2>2. ASSUME UNCHANGED chainVars, Mark(a) PROVE Mark(a)'
    <3>1. now' = now /\ price' = price /\ liquidity' = liquidity /\ burnt' = burnt
      BY <2>2 DEF chainVars
    <3>2. QED
      BY <2>2, <3>1 DEF TrueBurn, TrueLiquidityTop, Seen
  <2>3. a \in AlertsNow => Mark(a)
    BY <2>1 DEF RugpullExact
  <2>4. CASE UNCHANGED <<chainVars, alerts>>
    <3>1. a \in AlertsNow
      BY <2>4 DEF chainVars, AlertsNow
    <3>2. QED
      BY <2>2, <2>3, <2>4, <3>1
  <2>5. ASSUME NEW p \in DOMAIN states, NEW t \in Int, UNCHANGED <<chainVars, at>>, at = "evaluate", p \in todo,
               Fires(Pruned(states[p], now), t),
               alerts' = alerts \cup {AlertOf(p, Pruned(states[p], now))}
        PROVE  Mark(a)'
    <3>1. a \in AlertsNow \/ a = AlertOf(p, Pruned(states[p], now))
      BY <2>5 DEF chainVars, AlertsNow
    <3>2. CASE a \in AlertsNow
      BY <2>2, <2>3, <2>5, <3>2
    <3>3. CASE a = AlertOf(p, Pruned(states[p], now))
      <4> DEFINE st == Pruned(states[p], now)
                 u == Top(st.liquidity)
                 v == st.liquidity.current
      <4>1. a.pool = p /\ a.rugpull = Rugpull(st) /\ a.run = runFrom
        BY <3>3, AlertIs
      <4>2. u = TrueLiquidityTop(p, runFrom) /\ v = liquidity[p][0] /\ u \in Nat /\ v \in Nat
        BY <2>1, <2>5, <4>1, PairJudged
      <4>3. st.burns # {} <=> TrueBurn(p, runFrom)
        <5>1. Without({"skip"})
          BY <2>1 DEF Without
        <5>2. QED
          BY <2>5, <5>1, BurnIsTrue
      <4>4. Rugpull(st) <=> st.burns # {} /\ u > 0 /\ DropsMoreThan(u, v, RugpullPct)
        BY DEF Rugpull
      <4> HIDE DEF st, u, v
      <4>5. DropsMoreThan(u, v, RugpullPct) => u > 0
        <5>1. RugpullPct \in Nat
          BY DetectorConfig
        <5>2. u = 0 => RugpullPct * u = 0 /\ (u - v) * 100 <= 0
          BY <4>2, <5>1
        <5>3. u = 0 => ~((u - v) * 100 > RugpullPct * u)
          <6> DEFINE x == RugpullPct * u
                     y == (u - v) * 100
          <6>1. x \in Int /\ y \in Int
            BY <4>2, <5>1
          <6> HIDE DEF x, y
          <6>2. x = 0 /\ y <= 0 => ~(y > x)
            BY <6>1
          <6>3. QED
            BY <5>2, <6>2 DEF x, y
        <5>4. QED
          BY <4>2, <5>3 DEF DropsMoreThan
      <4>6. Mark(a)
        BY <4>1, <4>2, <4>3, <4>4, <4>5
      <4>7. QED
        BY <2>2, <2>5, <4>6
    <3>4. QED
      BY <3>1, <3>2, <3>3
  <2>6. QED
    BY <2>4, <2>5, AlertsStep
<1>3. QED
  BY <1>1, <1>2, BurnsInvariant, SoundStep, PTL DEF Spec
=============================================================================
