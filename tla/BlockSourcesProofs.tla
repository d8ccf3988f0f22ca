-------------------------- MODULE BlockSourcesProofs --------------------------
(***************************************************************************)
(* What heads() keeps, for any settings, any length of the slots and any   *)
(* time the consumer takes.                                                *)
(***************************************************************************)
EXTENDS BlockSources, FiniteSetTheorems, SequenceTheorems, TLAPS

(* Requests every Interval in d seconds.                                   *)
Ceil(d) == (d + Interval - 1) \div Interval
Positive(d) == IF d > 0 THEN d ELSE 0

ToBlock == BlockTime - slot
Behindhand == slot + BlockTime * empty

(* A pause is left only while it lasts; the polling source that has given  *)
(* a head is not fresh.                                                    *)
Awake ==
    /\ at # "sleeping" => wait = 0
    /\ kind = "polling" /\ (at = "working" \/ ~disturbed) => ~fresh

(* The requests still allowed are those of the slot that runs: while no    *)
(* block is due a request every Interval from the end of the pause on, and *)
(* one more for the block.                                                 *)
Budget ==
    kind = "polling" =>
        /\ at = "working" =>
              /\ spare >= 1
              /\ behind = 0 => spare >= 1 + PerSlot \/ (slot >= since /\ spare >= PerHead)
        /\ at # "working" /\ ~disturbed =>
              /\ spare >= 1
              /\ behind = 0 => spare >= 1 + Ceil(Positive(ToBlock - wait))

(* How late the next head can be: as late as the one before, and what the  *)
(* pause and the work took of its slot.                                    *)
Lateness ==
    kind = "polling" =>
        /\ at = "working" => Behindhand + (IF behind = 0 THEN 0 ELSE BlockTime) <= age + since
        /\ at # "working" /\ ~disturbed =>
              /\ age >= Interval
              /\ IF behind = 0 THEN wait <= age + ToBlock ELSE Behindhand + wait <= age

(* A WebSocket that delivers has been silent no longer than the chain.     *)
Heard ==
    at = "waiting" /\ inbox = <<>> /\ connection = "open" /\ ~disturbed => since <= Behindhand

SourcesInv == TypeOK /\ Awake /\ Budget /\ Lateness /\ Heard

-----------------------------------------------------------------------------
(* What the settings are.                                                  *)
LEMMA Settings ==
    /\ Interval \in Nat \ {0} /\ BlockTime \in Nat \ {0} /\ RetryBase \in Nat \ {0}
    /\ MaxInbox \in Nat \ {0} /\ MaxBehind \in Nat \ {0}
    /\ Quiet \in Nat /\ IdleTimeout \in Nat /\ RetryMax \in Nat /\ MaxExponent \in Nat
    /\ MaxMissed \in Nat /\ MaxWork \in Nat /\ Faults \in Nat
BY BlockSourcesConfig

(* The greater and the less of two numbers.                                *)
LEMMA MaxTwo ==
    ASSUME NEW a \in Int, NEW b \in Int
    PROVE  Max({a, b}) = IF a >= b THEN a ELSE b
BY DEF Max

LEMMA MinTwo ==
    ASSUME NEW a \in Int, NEW b \in Int
    PROVE  Min({a, b}) = IF a <= b THEN a ELSE b
BY DEF Min

(* No sleep of the code's is longer.                                       *)
LEMMA Longest ==
    /\ LongestSleep \in Nat
    /\ Quiet <= LongestSleep /\ Interval <= LongestSleep
    /\ RetryBase <= LongestSleep /\ RetryMax <= LongestSleep
<1> DEFINE S == {Quiet, Interval, RetryBase, RetryMax}
<1>1. S \subseteq Nat
  BY Settings
<1>2. \E x \in S : \A y \in S : x >= y
  BY Settings
<1>3. LongestSleep \in S /\ \A y \in S : LongestSleep >= y
  BY <1>2 DEF LongestSleep, Max
<1>4. QED
  BY <1>1, <1>3

(* A quotient and its product.                                             *)
LEMMA Quotient ==
    ASSUME NEW a \in Nat, NEW b \in Nat \ {0}
    PROVE  a \div b \in Nat /\ b * (a \div b) <= a /\ a < b * (a \div b) + b
OBVIOUS

(* The requests that Ceil counts are enough, and no more than needed.      *)
LEMMA CeilIs ==
    ASSUME NEW d \in Nat
    PROVE  Ceil(d) \in Nat /\ Interval * Ceil(d) >= d /\ Interval * Ceil(d) < d + Interval
<1>1. d + Interval - 1 \in Nat
  BY Settings
<1>2. QED
  BY <1>1, Quotient, Settings DEF Ceil

LEMMA CeilGrows ==
    ASSUME NEW d \in Nat, NEW e \in Nat, d <= e
    PROVE  Ceil(d) <= Ceil(e)
<1> DEFINE x == Ceil(d)
           y == Ceil(e)
<1>1. /\ x \in Nat /\ y \in Nat /\ Interval \in Nat /\ Interval >= 1
      /\ Interval * x < d + Interval /\ Interval * y >= e
  BY CeilIs, Settings
<1> HIDE DEF x, y
<1>2. ASSUME x > y PROVE FALSE
  <2>1. PICK k \in Nat : x = y + 1 + k
    <3>1. x - y - 1 \in Nat /\ x = y + 1 + (x - y - 1)
      BY <1>1, <1>2
    <3>2. QED
      BY <3>1
  <2>2. Interval * x = Interval * y + Interval + Interval * k /\ Interval * k \in Nat
    BY <1>1, <2>1
  <2>3. Interval * x \in Nat /\ Interval * y \in Nat
    BY <1>1
  <2>4. QED
    BY <1>1, <2>2, <2>3
<1>3. x <= y
  BY <1>1, <1>2
<1>4. QED
  BY <1>3 DEF x, y

(* An Interval later one request less is needed.                           *)
LEMMA CeilStep ==
    ASSUME NEW d \in Nat, d > 0
    PROVE  Ceil(d) >= 1 + Ceil(Positive(d - Interval))
<1> DEFINE e == Positive(d - Interval)
           x == Ceil(d)
           y == Ceil(e)
<1>1. Interval \in Nat /\ Interval >= 1
  BY Settings
<1>2. e \in Nat /\ (e = d - Interval \/ (e = 0 /\ d <= Interval))
  BY <1>1 DEF Positive
<1>3. /\ x \in Nat /\ y \in Nat
      /\ Interval * x >= d /\ Interval * y < e + Interval
  BY <1>2, CeilIs
<1> HIDE DEF x, y, e
<1>4. ASSUME x <= y PROVE FALSE
  <2>1. PICK k \in Nat : y = x + k
    <3>1. y - x \in Nat /\ y = x + (y - x)
      BY <1>3, <1>4
    <3>2. QED
      BY <3>1
  <2>2. Interval * y = Interval * x + Interval * k /\ Interval * k \in Nat
    BY <1>1, <1>3, <2>1
  <2>3. Interval * x \in Nat /\ Interval * y \in Nat
    BY <1>1, <1>3
  <2>4. CASE e = d - Interval
    BY <1>1, <1>3, <2>2, <2>3, <2>4
  <2>5. CASE e = 0 /\ d <= Interval
    <3>1. Interval * x >= 1 /\ Interval * y < Interval
      BY <1>1, <1>3, <2>3, <2>5
    <3>2. CASE x = 0
      BY <3>1, <3>2, <1>1
    <3>3. CASE x # 0
      <4>1. x - 1 \in Nat /\ x = 1 + (x - 1)
        BY <1>3, <3>3
      <4>2. Interval * x = Interval + Interval * (x - 1) /\ Interval * (x - 1) \in Nat
        BY <1>1, <4>1
      <4>3. QED
        BY <4>2, <3>1, <2>2, <2>3, <1>1
    <3>4. QED
      BY <3>2, <3>3
  <2>6. QED
    BY <1>2, <2>4, <2>5
<1>5. x >= 1 + y
  BY <1>3, <1>4
<1>6. QED
  BY <1>5 DEF x, y, e

(* What a slot and what a head allow.                                      *)
LEMMA Allowed ==
    /\ PerSlot = Ceil(BlockTime) /\ PerSlot \in Nat
    /\ PerHead = 1 + Ceil(Positive(BlockTime - Quiet)) /\ PerHead \in Nat
<1>1. PerSlot = Ceil(BlockTime)
  BY DEF PerSlot, Ceil
<1>2. PerSlot \in Nat
  BY <1>1, CeilIs, Settings
<1> DEFINE x == BlockTime - Quiet + Interval - 1
           p == Positive(BlockTime - Quiet)
<1>3. /\ x \in Int /\ p \in Nat
      /\ p + Interval - 1 \in Nat
      /\ x >= 0 /\ p = BlockTime - Quiet => p + Interval - 1 = x
      /\ p = BlockTime - Quiet \/ (p = 0 /\ x < Interval)
      /\ p = BlockTime - Quiet => x >= 0
  BY Settings DEF Positive
<1>4. Max({0, x}) = IF x >= 0 THEN x ELSE 0
  <2> HIDE DEF x
  <2>1. Max({0, x}) = IF 0 >= x THEN 0 ELSE x
    BY <1>3, MaxTwo
  <2>2. QED
    BY <2>1, <1>3
<1>5. Max({0, x}) \div Interval = Ceil(p)
  <2>1. CASE p = BlockTime - Quiet
    BY <2>1, <1>3, <1>4 DEF Ceil
  <2>2. CASE p = 0 /\ x < Interval
    <3> DEFINE y == Max({0, x})
    <3>1. y \in Nat /\ y < Interval
      BY <2>2, <1>3, <1>4, Settings
    <3> HIDE DEF y
    <3>2. y \div Interval = 0 /\ (0 + Interval - 1) \div Interval = 0
      BY <3>1, Settings
    <3>3. QED
      BY <3>2, <2>2 DEF Ceil, y
  <2>3. QED
    BY <2>1, <2>2, <1>3
<1>6. PerHead = 1 + Ceil(p)
  BY <1>5 DEF PerHead
<1>7. QED
  BY <1>1, <1>2, <1>3, <1>6, CeilIs
(* The longest that is measured.                                           *)
LEMMA Measured ==
    LET M == Max({MaxWork, IdleTimeout})
    IN  M \in Nat /\ MaxWork <= M /\ IdleTimeout <= M
<1>1. Max({MaxWork, IdleTimeout}) = IF MaxWork >= IdleTimeout THEN MaxWork ELSE IdleTimeout
  BY MaxTwo, Settings
<1>2. QED
  BY <1>1, Settings

LEMMA CappedIs ==
    ASSUME NEW n \in Nat
    PROVE  Capped(n) \in 0 .. MaxBehind /\ (n > 0 => Capped(n) > 0)
<1>1. Capped(n) = IF n <= MaxBehind THEN n ELSE MaxBehind
  BY MinTwo, Settings DEF Capped
<1>2. QED
  BY <1>1, Settings

LEMMA NotificationsType ==
    ASSUME inbox \in Seq(0 .. MaxBehind), NEW new \in Seq(0 .. MaxBehind)
    PROVE  Notifications(new) \in Seq(0 .. MaxBehind)
<1> DEFINE older == [i \in DOMAIN inbox |-> Capped(inbox[i] + 1)]
<1>1. \A i \in DOMAIN inbox : Capped(inbox[i] + 1) \in 0 .. MaxBehind
  <2> TAKE i \in DOMAIN inbox
  <2>1. inbox[i] + 1 \in Nat
    BY Settings
  <2>2. QED
    BY <2>1, CappedIs
<1>2. older \in Seq(0 .. MaxBehind)
  <2> DEFINE m == Len(inbox)
             T == 0 .. MaxBehind
  <2>1. m \in Nat /\ DOMAIN inbox = 1 .. m
    OBVIOUS
  <2>2. older \in [1 .. m -> T]
    BY <1>1, <2>1
  <2> HIDE DEF older, m, T
  <2>3. older \in Seq(T)
    BY <2>1, <2>2
  <2>4. QED
    BY <2>3 DEF T
<1>3. Notifications(new) = older \o new
  BY DEF Notifications
<1> HIDE DEF older
<1>4. QED
  BY <1>2, <1>3, ConcatProperties

(* The next second of a slot.                                              *)
LEMMA NextSecond ==
    ASSUME NEW b \in Nat \ {0}, NEW x \in 0 .. b - 1
    PROVE  (x + 1) % b = IF x = b - 1 THEN 0 ELSE x + 1
OBVIOUS

(* A power of two is a number: as many are the sets of n numbers.          *)
LEMMA PowerType ==
    ASSUME NEW n \in Nat
    PROVE  2 ^ n \in Nat
<1>1. IsFiniteSet(1 .. n) /\ Cardinality(1 .. n) = n
  BY FS_Interval
<1>2. IsFiniteSet(SUBSET (1 .. n)) /\ Cardinality(SUBSET (1 .. n)) = 2 ^ Cardinality(1 .. n)
  BY <1>1, FS_SUBSET
<1>3. Cardinality(SUBSET (1 .. n)) \in Nat
  BY <1>2, FS_CardinalityType
<1>4. QED
  BY <1>1, <1>2, <1>3, Zenon

LEMMA DelayIs ==
    ASSUME NEW n \in Nat
    PROVE  Delay(n + 1) \in 0 .. LongestSleep
<1> DEFINE x == 2 ^ ((n + 1) - 1)
<1>1. x \in Nat
  <2>1. (n + 1) - 1 \in Nat
    OBVIOUS
  <2>2. QED
    BY <2>1, PowerType
<1>2. Delay(n + 1) = Min({RetryBase * x, RetryMax})
  BY DEF Delay
<1> HIDE DEF x
<1>3. RetryBase * x \in Nat /\ RetryMax \in Nat
  BY <1>1, Settings
<1>4. Min({RetryBase * x, RetryMax}) = IF RetryBase * x <= RetryMax THEN RetryBase * x ELSE RetryMax
  BY <1>3, MinTwo
<1>5. QED
  BY <1>2, <1>3, <1>4, Longest

(* A second passes: what it changes.                                       *)
LEMMA TickIs ==
    ASSUME TypeOK, Tick
    PROVE  /\ UNCHANGED <<kind, at, fresh, connection, attempt, age>>
           /\ \/ at = "working" /\ since < MaxWork /\ since' = since + 1 /\ wait' = wait
              \/ at = "sleeping" /\ wait > 0 /\ wait' = wait - 1 /\ since' = since
              \/ at = "waiting" /\ inbox = <<>> /\ since < IdleTimeout /\ since' = since + 1 /\ wait' = wait
           /\ \/ /\ slot < BlockTime - 1 /\ slot' = slot + 1
                 /\ UNCHANGED <<empty, behind, inbox, spare, disturbed, faults>>
              \/ slot = BlockTime - 1 /\ slot' = 0 /\ (NewBlock \/ MissedSlot)
<1>1. slot' = IF slot = BlockTime - 1 THEN 0 ELSE slot + 1
  BY NextSecond, Settings DEF Tick, TypeOK
<1>2. slot \in 0 .. BlockTime - 1
  BY DEF TypeOK
<1>3. slot < BlockTime - 1 <=> slot # BlockTime - 1
  BY <1>2, Settings
<1>4. slot' = 0 <=> slot = BlockTime - 1
  BY <1>1, <1>2
<1>5. /\ UNCHANGED <<kind, at, fresh, connection, attempt, age>>
      /\ \/ slot' = 0 /\ (NewBlock \/ MissedSlot)
         \/ slot' # 0 /\ UNCHANGED <<empty, behind, inbox, spare, disturbed, faults>>
      /\ wait' = (IF at = "sleeping" THEN wait - 1 ELSE wait)
      /\ since' = (IF at \in {"working", "waiting"} THEN since + 1 ELSE since)
      /\ Idle
  BY DEF Tick
<1>6. \/ at = "working" /\ since < MaxWork /\ since' = since + 1 /\ wait' = wait
      \/ at = "sleeping" /\ wait > 0 /\ wait' = wait - 1 /\ since' = since
      \/ at = "waiting" /\ inbox = <<>> /\ since < IdleTimeout /\ since' = since + 1 /\ wait' = wait
  BY <1>5 DEF Idle
<1>7. QED
  BY <1>1, <1>3, <1>4, <1>5, <1>6
-----------------------------------------------------------------------------
(* Every step keeps the types.                                             *)
LEMMA TypeKept ==
    ASSUME TypeOK, [Next]_vars
    PROVE  TypeOK'
<1> DEFINE M == Max({MaxWork, IdleTimeout})
<1>0. M \in Nat /\ MaxWork <= M /\ IdleTimeout <= M /\ since \in 0 .. M /\ 0 \in 0 .. M
  <2>1. M \in Nat /\ MaxWork <= M /\ IdleTimeout <= M
    BY Measured
  <2>2. since \in 0 .. M
    BY DEF TypeOK
  <2> HIDE DEF M
  <2>3. 0 \in 0 .. M
    BY <2>1
  <2>4. QED
    BY <2>1, <2>2, <2>3
<1> USE Settings
<1>1. CASE Tick
  <2>1. /\ UNCHANGED <<kind, at, fresh, connection, attempt, age>>
        /\ \/ at = "working" /\ since < MaxWork /\ since' = since + 1 /\ wait' = wait
           \/ at = "sleeping" /\ wait > 0 /\ wait' = wait - 1 /\ since' = since
           \/ at = "waiting" /\ inbox = <<>> /\ since < IdleTimeout /\ since' = since + 1 /\ wait' = wait
        /\ \/ /\ slot < BlockTime - 1 /\ slot' = slot + 1
              /\ UNCHANGED <<empty, behind, inbox, spare, disturbed, faults>>
           \/ slot = BlockTime - 1 /\ slot' = 0 /\ (NewBlock \/ MissedSlot)
    BY <1>1, TickIs
  <2>2. wait' \in 0 .. LongestSleep /\ since' \in 0 .. M
    <3> HIDE DEF M
    <3>1. QED
      BY <2>1, <1>0, Longest DEF TypeOK
  <2>3. CASE UNCHANGED <<empty, behind, inbox, spare, disturbed, faults>> /\ slot' \in 0 .. BlockTime - 1
    BY <2>1, <2>2, <2>3 DEF TypeOK
  <2>4. CASE slot' = 0 /\ NewBlock
    <3>1. behind' \in 0 .. MaxBehind
      <4>1. behind + 1 \in Nat
        BY DEF TypeOK
      <4>2. QED
        BY <2>4, <4>1, CappedIs DEF NewBlock
    <3>2. inbox' \in Seq(0 .. MaxBehind)
      <4>1. <<0>> \in Seq(0 .. MaxBehind) /\ <<>> \in Seq(0 .. MaxBehind) /\ inbox \in Seq(0 .. MaxBehind)
        BY DEF TypeOK
      <4>2. QED
        BY <2>4, <4>1, NotificationsType DEF NewBlock
    <3>3. faults' \in 0 .. Faults /\ disturbed' \in BOOLEAN
      <4>1. UNCHANGED <<disturbed, faults>> \/ (disturbed' = TRUE /\ Fault)
        BY <2>4 DEF NewBlock
      <4>2. disturbed \in BOOLEAN /\ faults \in 0 .. Faults
        BY DEF TypeOK
      <4>3. disturbed' \in BOOLEAN
        BY <4>1, <4>2
      <4>4. faults' \in 0 .. Faults
        BY <4>1, <4>2 DEF Fault
      <4>5. QED
        BY <4>3, <4>4
    <3>4. empty' = 0 /\ spare' = spare
      BY <2>4 DEF NewBlock
    <3>5. QED
      BY <2>1, <2>2, <2>4, <3>1, <3>2, <3>3, <3>4 DEF TypeOK
  <2>5. CASE slot' = 0 /\ MissedSlot
    <3>1. spare' \in Int /\ empty' \in 0 .. MaxMissed
      BY <2>5, Allowed DEF MissedSlot, TypeOK
    <3>2. QED
      BY <2>1, <2>2, <2>5, <3>1 DEF TypeOK, MissedSlot
  <2>6. QED
    BY <2>1, <2>3, <2>4, <2>5 DEF TypeOK
<1> DEFINE Answer(n) == Answered(n) /\ disturbed' \in BOOLEAN /\ faults' \in 0 .. Faults
<1>2. ASSUME NEW n \in 0 .. behind, Answer(n)
      PROVE  TypeOK'
  <2>1. kind = "polling" /\ at = "asking" /\ UNCHANGED socket
    BY <1>2 DEF Answered
  <2>2. n \in 0 .. MaxBehind /\ slot + BlockTime * (empty + n) \in Nat
    <3>1. n \in Nat /\ slot \in Nat /\ empty \in Nat /\ n \in 0 .. MaxBehind
      BY DEF TypeOK
    <3>2. BlockTime * (empty + n) \in Nat
      BY <3>1
    <3>3. QED
      BY <3>1, <3>2
  <2>3. CASE n < behind \/ fresh
    <3>1. Give(n) /\ age' = slot + BlockTime * (empty + n) /\ spare' = PerHead
      BY <1>2, <2>3 DEF Answered
    <3>2. /\ behind' = n /\ at' = "working" /\ since' = 0 /\ fresh' = FALSE
          /\ UNCHANGED <<kind, slot, empty, wait, connection, inbox, attempt>>
      BY <2>1, <3>1 DEF Give, socket
    <3>3. age' \in Nat /\ spare' \in Int
      BY <2>2, <3>1, Allowed
    <3>4. disturbed' \in BOOLEAN /\ faults' \in 0 .. Faults
      BY <1>2
    <3>5. QED
      BY <1>0, <2>1, <2>2, <3>2, <3>3, <3>4 DEF TypeOK
  <2>4. CASE ~ (n < behind \/ fresh)
    <3>1. Sleep(Interval) /\ spare' = spare - 1 /\ UNCHANGED <<kind, chain, since, fresh, age>>
      BY <1>2, <2>4 DEF Answered
    <3>2. QED
      BY <1>2, <2>1, <3>1, Longest DEF TypeOK, Sleep, socket, chain
  <2>5. QED
    BY <2>3, <2>4
<1>3. CASE Ask
  <2>1. Answered(0) /\ UNCHANGED <<disturbed, faults>> /\ 0 \in 0 .. behind
    BY <1>3 DEF Ask, TypeOK
  <2>2. disturbed' \in BOOLEAN /\ faults' \in 0 .. Faults
    BY <2>1 DEF TypeOK
  <2>3. Answer(0)
    BY <2>1, <2>2
  <2>4. QED
    BY <1>2, <2>1, <2>3
<1>4. CASE AskOldNode
  <2>1. PICK n \in 1 .. behind : Answered(n)
    BY <1>4 DEF AskOldNode
  <2>2. disturbed' \in BOOLEAN /\ faults' \in 0 .. Faults
    BY <1>4 DEF AskOldNode, Fault, TypeOK
  <2>3. Answer(n) /\ n \in 0 .. behind
    BY <2>1, <2>2
  <2>4. QED
    BY <1>2, <2>3
<1>5. CASE Wake
  BY <1>5 DEF Wake, Begun, TypeOK, chain, socket, ghosts
<1>6. CASE AskAgain
  BY <1>6 DEF AskAgain, Fault, TypeOK, socket
<1>7. CASE Resume
  <2>1. CASE kind = "polling"
    <3>1. /\ at = "working" /\ Polled /\ since' = 0 /\ disturbed' = FALSE
          /\ age' = Max({Interval, age + Max({Quiet, since}) - BlockTime})
          /\ UNCHANGED <<kind, chain, fresh, socket, spare, faults>>
      BY <1>7, <2>1 DEF Resume
    <3>2. age' \in Nat
      <4> DEFINE x == Max({Quiet, since})
                 y == age + x - BlockTime
      <4>1. x \in Int /\ age \in Int
        BY MaxTwo DEF TypeOK
      <4> HIDE DEF x
      <4>2. y \in Int
        BY <4>1
      <4> HIDE DEF y
      <4>3. Max({Interval, y}) \in Nat
        BY <4>2, MaxTwo
      <4>4. QED
        BY <3>1, <4>3 DEF x, y
    <3>3. wait' \in 0 .. LongestSleep /\ at' \in {"asking", "sleeping"}
      BY <3>1, Longest DEF Polled, Sleep, Pause, TypeOK
    <3>4. /\ UNCHANGED <<kind, slot, empty, behind, fresh, connection, inbox, attempt, spare, faults>>
          /\ since' = 0 /\ disturbed' \in BOOLEAN
      BY <3>1 DEF chain, socket
    <3>5. QED
      BY <1>0, <2>1, <3>1, <3>2, <3>3, <3>4 DEF TypeOK
  <2>2. CASE kind # "polling"
    BY <1>0, <1>7, <2>2 DEF Resume, TypeOK, chain, socket
  <2>3. QED
    BY <2>1, <2>2
<1>8. CASE Subscribe
  <2>1. <<>> \in Seq(0 .. MaxBehind)
    OBVIOUS
  <2>2. /\ at = "connecting" /\ at' = "waiting" /\ since' = 0 /\ connection' = "open"
        /\ inbox' = <<>> /\ attempt' = 0 /\ disturbed' = FALSE
        /\ UNCHANGED <<kind, slot, empty, behind, wait, fresh, age, spare, faults>>
    BY <1>8 DEF Subscribe, chain
  <2>3. QED
    BY <1>0, <2>1, <2>2 DEF TypeOK
<1>9. CASE Receive
  <2>1. inbox # <<>> /\ inbox \in Seq(0 .. MaxBehind)
    BY <1>9 DEF Receive, TypeOK
  <2>2. Tail(inbox) \in Seq(0 .. MaxBehind) /\ Head(inbox) \in 0 .. MaxBehind
    BY <2>1, HeadTailProperties
  <2>3. Min({behind, Head(inbox)}) \in 0 .. MaxBehind
    BY <2>2, MinTwo DEF TypeOK
  <2>4. /\ at = "waiting" /\ at' = "working" /\ since' = 0 /\ fresh' = FALSE /\ disturbed' = FALSE
        /\ behind' = Min({behind, Head(inbox)}) /\ inbox' = Tail(inbox)
        /\ UNCHANGED <<kind, slot, empty, wait, connection, attempt, age, spare, faults>>
    BY <1>9 DEF Receive, Give
  <2>5. behind' \in 0 .. MaxBehind /\ inbox' \in Seq(0 .. MaxBehind)
    BY <2>2, <2>3, <2>4
  <2>6. QED
    BY <1>0, <2>4, <2>5 DEF TypeOK
<1>10. ASSUME Reconnect, at \in {"connecting", "waiting"}, faults' \in 0 .. Faults
       PROVE  TypeOK'
  <2>1. <<>> \in Seq(0 .. MaxBehind)
    OBVIOUS
  <2>2. CASE Overflows
    <3>1. PICK d \in {RetryBase, RetryMax} : Sleep(d)
      BY <1>10, <2>2 DEF Reconnect, Restart
    <3>2. d \in 0 .. LongestSleep
      BY Longest
    <3>3. QED
      BY <1>10, <2>1, <2>2, <3>1, <3>2 DEF Reconnect, Restart, Sleep, TypeOK, chain
  <2>3. CASE ~Overflows
    <3>1. Delay(attempt + 1) \in 0 .. LongestSleep
      BY DelayIs DEF TypeOK
    <3>2. QED
      BY <1>10, <2>1, <2>3, <3>1 DEF Reconnect, Sleep, TypeOK, chain
  <2>4. QED
    BY <2>2, <2>3
<1>11. CASE CannotConnect
  BY <1>10, <1>11 DEF CannotConnect, Fault, TypeOK
<1>12. CASE ConnectionLost \/ Timeout
  BY <1>10, <1>12 DEF ConnectionLost, Timeout, TypeOK
<1>13. CASE Heartbeat
  BY <1>0, <1>13 DEF Heartbeat, Fault, TypeOK, chain, socket, ghosts
<1>14. CASE GoesBad
  BY <1>14 DEF GoesBad, Fault, TypeOK, chain, ghosts
<1>15. CASE Crash
  <2>1. <<>> \in Seq(0 .. MaxBehind)
    OBVIOUS
  <2>2. PICK d \in {RetryBase, RetryMax} : Sleep(d)
    BY <1>15 DEF Crash, Restart
  <2>3. d \in 0 .. LongestSleep
    BY Longest
  <2>4. QED
    BY <1>15, <2>1, <2>2, <2>3 DEF Crash, Restart, Sleep, Fault, TypeOK, chain
<1>16. CASE UNCHANGED vars
  BY <1>16 DEF vars, TypeOK, chain, socket, ghosts
<1>17. QED
  BY <1>1, <1>3, <1>4, <1>5, <1>6, <1>7, <1>8, <1>9, <1>11, <1>12, <1>13, <1>14, <1>15, <1>16
  DEF Next, Run
-----------------------------------------------------------------------------

(* A source stays the one it is.                                           *)
LEMMA KindStays ==
    ASSUME TypeOK, [Next]_vars
    PROVE  kind' = kind
<1>1. CASE Tick
  BY <1>1, TickIs
<1>2. CASE Ask \/ AskOldNode
  BY <1>2 DEF Ask, AskOldNode, Answered, Give
<1>3. CASE Wake \/ AskAgain \/ Resume \/ Subscribe \/ Heartbeat \/ GoesBad
  BY <1>3 DEF Wake, AskAgain, Resume, Subscribe, Heartbeat, GoesBad
<1>4. CASE Receive
  BY <1>4 DEF Receive, Give
<1>5. CASE CannotConnect \/ ConnectionLost \/ Timeout
  BY <1>5 DEF CannotConnect, ConnectionLost, Timeout, Reconnect
<1>6. CASE Crash
  BY <1>6 DEF Crash
<1>7. CASE UNCHANGED vars
  BY <1>7 DEF vars
<1>8. QED
  BY <1>1, <1>2, <1>3, <1>4, <1>5, <1>6, <1>7 DEF Next, Run

(* The steps of the polling source.                                        *)
LEMMA PollingSteps ==
    ASSUME TypeOK, [Next]_vars, kind' = "polling"
    PROVE  /\ kind = "polling" /\ connection = "none"
           /\ \/ Tick \/ Wake \/ Ask \/ AskOldNode \/ AskAgain \/ Resume \/ Crash
              \/ UNCHANGED vars
<1>1. kind' = kind
  BY KindStays
<1>2. kind = "polling" /\ connection = "none" /\ at \in {"asking", "working", "sleeping"}
  BY <1>1 DEF TypeOK
<1>3. ~ (Subscribe \/ Receive \/ ConnectionLost \/ Timeout \/ Heartbeat \/ CannotConnect \/ GoesBad)
  BY <1>2 DEF Subscribe, Receive, ConnectionLost, Timeout, Heartbeat, CannotConnect, GoesBad
<1>4. QED
  BY <1>2, <1>3 DEF Next, Run

(* A second of the polling source.                                         *)
LEMMA PollingSecond ==
    ASSUME TypeOK, Tick, kind = "polling", connection = "none"
    PROVE  /\ UNCHANGED <<at, fresh, age, disturbed>>
           /\ \/ at = "working" /\ since < MaxWork /\ since' = since + 1 /\ wait' = wait
              \/ at = "sleeping" /\ wait > 0 /\ wait' = wait - 1 /\ since' = since
           /\ \/ /\ slot < BlockTime - 1 /\ slot' = slot + 1
                 /\ UNCHANGED <<empty, behind, spare>>
              \/ /\ slot = BlockTime - 1 /\ slot' = 0
                 /\ empty' = 0 /\ behind' > 0 /\ spare' = spare
              \/ /\ slot = BlockTime - 1 /\ slot' = 0
                 /\ empty' = empty + 1 /\ behind' = behind /\ spare' = spare + PerSlot
<1>1. /\ UNCHANGED <<at, fresh, age>>
      /\ \/ at = "working" /\ since < MaxWork /\ since' = since + 1 /\ wait' = wait
         \/ at = "sleeping" /\ wait > 0 /\ wait' = wait - 1 /\ since' = since
  BY TickIs DEF TypeOK
<1>2. \/ slot < BlockTime - 1 /\ slot' = slot + 1 /\ UNCHANGED <<empty, behind, spare, disturbed>>
      \/ slot = BlockTime - 1 /\ slot' = 0 /\ (NewBlock \/ MissedSlot)
  BY TickIs
<1>3. ASSUME NewBlock PROVE empty' = 0 /\ behind' > 0 /\ UNCHANGED <<spare, disturbed>>
  <2>1. behind + 1 \in Nat /\ behind + 1 > 0
    BY DEF TypeOK
  <2>2. behind' = Capped(behind + 1) /\ empty' = 0 /\ UNCHANGED <<spare, disturbed>>
    BY <1>3 DEF NewBlock
  <2>3. QED
    BY <2>1, <2>2, CappedIs
<1>4. ASSUME MissedSlot
      PROVE  empty' = empty + 1 /\ spare' = spare + PerSlot /\ UNCHANGED <<behind, disturbed>>
  BY <1>4 DEF MissedSlot
<1>5. QED
  BY <1>1, <1>2, <1>3, <1>4

(* What is done with an answer.                                            *)
LEMMA AnswerIs ==
    ASSUME TypeOK, NEW n \in Nat, Answered(n)
    PROVE  /\ kind = "polling" /\ at = "asking" /\ UNCHANGED <<slot, empty>>
           /\ \/ /\ n < behind \/ fresh
                 /\ at' = "working" /\ since' = 0 /\ behind' = n /\ wait' = wait /\ ~fresh'
                 /\ age' = slot + BlockTime * (empty + n) /\ spare' = PerHead
              \/ /\ n >= behind /\ ~fresh
                 /\ at' = "sleeping" /\ wait' = Interval /\ behind' = behind /\ fresh' = fresh
                 /\ age' = age /\ spare' = spare - 1
<1>1. CASE n < behind \/ fresh
  BY <1>1 DEF Answered, Give
<1>2. CASE ~ (n < behind \/ fresh)
  <2>1. n >= behind
    BY <1>2 DEF TypeOK
  <2>2. QED
    BY <1>2, <2>1 DEF Answered, Sleep, chain
<1>3. QED
  BY <1>1, <1>2

(* The consumer is done with a head that was polled for.                   *)
LEMMA ResumeIs ==
    ASSUME TypeOK, Resume, kind = "polling"
    PROVE  /\ at = "working" /\ since \in Nat /\ ~disturbed' /\ UNCHANGED <<slot, empty, behind, fresh, spare>>
           /\ \/ since < Quiet /\ at' = "sleeping" /\ wait' = Quiet - since
              \/ since >= Quiet /\ at' = "asking" /\ wait' = wait
           /\ age' \in Int /\ age' >= Interval
           /\ age' >= age + (IF since < Quiet THEN Quiet ELSE since) - BlockTime
<1>1. since \in Nat
  BY DEF TypeOK
<1>2. /\ at = "working" /\ ~disturbed' /\ UNCHANGED <<slot, empty, behind, fresh, spare>>
      /\ Polled /\ age' = Max({Interval, age + Max({Quiet, since}) - BlockTime})
  BY DEF Resume, chain
<1>3. \/ since < Quiet /\ at' = "sleeping" /\ wait' = Quiet - since
      \/ since >= Quiet /\ at' = "asking" /\ wait' = wait
  BY <1>1, <1>2, Settings DEF Polled, Pause, Sleep
<1> DEFINE x == Max({Quiet, since})
           y == age + x - BlockTime
<1>4. x \in Int /\ x = IF since < Quiet THEN Quiet ELSE since
  BY <1>1, MaxTwo, Settings
<1>5. y \in Int
  <2> HIDE DEF x
  <2>1. QED
    BY <1>4, Settings DEF TypeOK
<1>6. Max({Interval, y}) = IF Interval >= y THEN Interval ELSE y
  <2> HIDE DEF y
  <2>1. QED
    BY <1>5, MaxTwo, Settings
<1>7. age' \in Int /\ age' >= Interval /\ age' >= y
  <2>1. age' = Max({Interval, y})
    BY <1>2
  <2> HIDE DEF y
  <2>2. QED
    BY <2>1, <1>5, <1>6, Settings
<1> HIDE DEF x
<1>8. QED
  BY <1>1, <1>2, <1>3, <1>4, <1>7

(* Every step keeps Awake.                                                 *)
LEMMA AwakeKept ==
    ASSUME TypeOK, Awake, [Next]_vars
    PROVE  Awake'
<1>1. CASE Tick
  <2>1. at' = at /\ kind' = kind /\ (at # "sleeping" => wait' = wait)
    BY <1>1, TickIs
  <2>2. CASE kind = "polling"
    <3>1. connection = "none"
      BY <2>2 DEF TypeOK
    <3>2. fresh' = fresh /\ disturbed' = disturbed
      BY <1>1, <2>2, <3>1, PollingSecond
    <3>3. QED
      BY <2>1, <3>2 DEF Awake
  <2>3. CASE kind # "polling"
    BY <2>1, <2>3 DEF Awake
  <2>4. QED
    BY <2>2, <2>3
<1>2. CASE Ask \/ AskOldNode
  <2>1. PICK n \in Nat : Answered(n)
    BY <1>2 DEF Ask, AskOldNode, TypeOK
  <2>2. QED
    BY <2>1, AnswerIs DEF Awake
<1>3. CASE Wake
  BY <1>3 DEF Wake, Awake, Begun, TypeOK, ghosts
<1>4. CASE AskAgain
  BY <1>4 DEF AskAgain, Awake
<1>5. CASE Resume
  BY <1>5 DEF Resume, Polled, Sleep, Awake
<1>6. CASE Subscribe \/ Receive \/ Heartbeat \/ GoesBad
  BY <1>6 DEF Subscribe, Receive, Give, Heartbeat, GoesBad, ghosts, Awake, TypeOK
<1>7. CASE CannotConnect \/ ConnectionLost \/ Timeout
  <2>1. Reconnect /\ kind = "websocket"
    BY <1>7 DEF CannotConnect, ConnectionLost, Timeout, TypeOK
  <2>2. at' = "sleeping" /\ kind' = kind
    BY <2>1 DEF Reconnect, Restart, Sleep
  <2>3. QED
    BY <2>1, <2>2 DEF Awake
<1>8. CASE Crash
  BY <1>8 DEF Crash, Restart, Sleep, Awake
<1>9. CASE UNCHANGED vars
  BY <1>9 DEF vars, ghosts, Awake
<1>10. QED
  BY <1>1, <1>2, <1>3, <1>4, <1>5, <1>6, <1>7, <1>8, <1>9 DEF Next, Run
(* Every step keeps the requests allowed.                                  *)
LEMMA BudgetKept ==
    ASSUME TypeOK, Awake, Budget, [Next]_vars
    PROVE  Budget'
<1> SUFFICES ASSUME kind' = "polling" PROVE Budget'
  BY DEF Budget
<1>0. /\ kind = "polling" /\ connection = "none"
      /\ \/ Tick \/ Wake \/ Ask \/ AskOldNode \/ AskAgain \/ Resume \/ Crash
         \/ UNCHANGED vars
  BY PollingSteps
<1> DEFINE Due(b, sp, d) == sp >= 1 /\ (b = 0 => sp >= 1 + Ceil(Positive(d)))
           Working(b, sp, sl, si) ==
              sp >= 1 /\ (b = 0 => sp >= 1 + PerSlot \/ (sl >= si /\ sp >= PerHead))
<1>1. /\ at = "working" => Working(behind, spare, slot, since)
      /\ at # "working" /\ ~disturbed => Due(behind, spare, ToBlock - wait)
  BY <1>0 DEF Budget
<1>2. SUFFICES /\ at' = "working" => Working(behind', spare', slot', since')
               /\ at' # "working" /\ ~disturbed' => Due(behind', spare', (BlockTime - slot') - wait')
  BY DEF Budget, ToBlock
<1>3. /\ slot \in Nat /\ slot <= BlockTime - 1 /\ behind \in Nat /\ wait \in Nat /\ since \in Nat
      /\ spare \in Int /\ BlockTime \in Nat /\ Interval \in Nat \ {0} /\ Quiet \in Nat
      /\ PerSlot \in Nat /\ PerHead \in Nat
      /\ PerSlot = Ceil(BlockTime) /\ PerHead = 1 + Ceil(Positive(BlockTime - Quiet))
  BY Settings, Allowed DEF TypeOK
<1>4. \A d, e \in Int : d <= e => Ceil(Positive(d)) \in Nat /\ Ceil(Positive(d)) <= Ceil(Positive(e))
  <2> TAKE d, e \in Int
  <2> HAVE d <= e
  <2>1. Positive(d) \in Nat /\ Positive(e) \in Nat /\ Positive(d) <= Positive(e)
    BY DEF Positive
  <2>2. QED
    BY <2>1, CeilIs, CeilGrows
<1>5. Positive(BlockTime) = BlockTime
  BY <1>3 DEF Positive
<1> HIDE DEF Due, Working
<1>6. CASE Tick
  <2>1. /\ UNCHANGED <<at, disturbed>>
        /\ \/ at = "working" /\ since' = since + 1
           \/ at = "sleeping" /\ wait > 0 /\ wait' = wait - 1
        /\ \/ slot' = slot + 1 /\ UNCHANGED <<behind, spare>>
           \/ slot = BlockTime - 1 /\ slot' = 0 /\ behind' > 0 /\ spare' = spare
           \/ slot = BlockTime - 1 /\ slot' = 0 /\ behind' = behind /\ spare' = spare + PerSlot
    BY <1>0, <1>6, PollingSecond
  <2>2. CASE at = "working"
    <3>1. since' = since + 1
      BY <2>1, <2>2
    <3>2. Working(behind', spare', slot', since')
      BY <1>1, <1>3, <2>1, <2>2, <3>1 DEF Working
    <3>3. QED
      BY <2>1, <2>2, <3>2
  <2>3. CASE at = "sleeping" /\ ~disturbed
    <3>1. Due(behind, spare, BlockTime - slot - wait) /\ wait > 0 /\ wait' = wait - 1
      BY <1>1, <2>1, <2>3 DEF ToBlock
    <3>2. CASE slot' = slot + 1 /\ UNCHANGED <<behind, spare>>
      <4>1. (BlockTime - slot') - wait' = BlockTime - slot - wait
        BY <1>3, <3>1, <3>2
      <4>2. Due(behind', spare', (BlockTime - slot') - wait')
        BY <3>1, <3>2, <4>1
      <4>3. QED
        BY <2>1, <2>3, <4>2
    <3>3. CASE behind' > 0 /\ spare' = spare
      <4>1. Due(behind', spare', (BlockTime - slot') - wait')
        BY <3>1, <3>3 DEF Due
      <4>2. QED
        BY <2>1, <2>3, <4>1
    <3>4. CASE slot' = 0 /\ behind' = behind /\ spare' = spare + PerSlot
      <4>1. (BlockTime - slot') - wait' \in Int /\ (BlockTime - slot') - wait' <= BlockTime
        BY <1>3, <3>1, <3>4
      <4>2. Ceil(Positive((BlockTime - slot') - wait')) <= PerSlot
        BY <1>3, <1>4, <1>5, <4>1
      <4>3. Ceil(Positive((BlockTime - slot') - wait')) \in Nat
        BY <1>4, <4>1
      <4> DEFINE c == Ceil(Positive((BlockTime - slot') - wait'))
      <4>4. spare >= 1 /\ c <= PerSlot /\ c \in Nat
        BY <3>1, <4>2, <4>3 DEF Due
      <4> HIDE DEF c
      <4>5. spare' >= 1 /\ spare' >= 1 + c
        BY <1>3, <3>4, <4>4
      <4>6. Due(behind', spare', (BlockTime - slot') - wait')
        BY <4>5 DEF Due, c
      <4>7. QED
        BY <2>1, <2>3, <4>6
    <3>5. QED
      BY <2>1, <3>2, <3>3, <3>4
  <2>4. QED
    BY <2>1, <2>2, <2>3
<1>7. ASSUME NEW n \in Nat, Answered(n), n = 0 \/ disturbed', n # 0 \/ disturbed' = disturbed
      PROVE  /\ at' = "working" => Working(behind', spare', slot', since')
             /\ at' # "working" /\ ~disturbed' => Due(behind', spare', (BlockTime - slot') - wait')
  <2>1. at = "asking" /\ slot' = slot
    BY <1>7, AnswerIs
  <2>2. CASE at' = "working"
    <3>1. since' = 0 /\ spare' = PerHead
      BY <1>7, <2>2, AnswerIs
    <3>2. Ceil(Positive(BlockTime - Quiet)) \in Nat
      BY <1>3, <1>4
    <3>3. PerHead >= 1 /\ slot' >= since'
      BY <1>3, <2>1, <3>1, <3>2
    <3>4. QED
      BY <1>3, <2>2, <3>1, <3>3 DEF Working
  <2>3. CASE at' # "working" /\ ~disturbed'
    <3>1. /\ n = 0 /\ n >= behind /\ ~disturbed /\ at' = "sleeping" /\ wait' = Interval /\ spare' = spare - 1
          /\ behind' = behind
      BY <1>7, <2>3, AnswerIs
    <3>2. behind = 0 /\ wait = 0
      BY <1>3, <2>1, <3>1 DEF Awake
    <3>3. spare >= 1 + Ceil(Positive(BlockTime - slot))
      <4>1. Due(behind, spare, (BlockTime - slot) - 0) /\ (BlockTime - slot) - 0 = BlockTime - slot
        BY <1>1, <1>3, <2>1, <3>1, <3>2 DEF ToBlock
      <4>2. QED
        BY <3>2, <4>1 DEF Due
    <3> DEFINE t == BlockTime - slot
    <3>4. t \in Nat /\ t > 0 /\ Positive(t) = t
      BY <1>3 DEF Positive
    <3>5. Ceil(t) >= 1 + Ceil(Positive(t - Interval))
      <4> HIDE DEF t
      <4>1. QED
        BY <3>4, CeilStep
    <3>6. Ceil(t) \in Nat /\ Ceil(Positive(t - Interval)) \in Nat
      <4>1. t \in Int /\ t - Interval \in Int
        BY <1>3
      <4> HIDE DEF t
      <4>2. QED
        BY <1>4, <3>4, <4>1
    <3> DEFINE x == Ceil(t)
               y == Ceil(Positive(t - Interval))
    <3>7. spare >= 1 + x /\ x >= 1 + y /\ x \in Nat /\ y \in Nat
      BY <3>3, <3>4, <3>5, <3>6
    <3> HIDE DEF x, y
    <3>8. spare' >= 1 /\ spare' >= 1 + y
      BY <1>3, <3>1, <3>7
    <3>9. Due(behind', spare', t - Interval)
      BY <3>8 DEF Due, y
    <3>10. QED
      BY <2>1, <2>3, <3>1, <3>9
  <2>4. QED
    BY <2>2, <2>3
<1>8. CASE Ask
  <2>1. Answered(0) /\ disturbed' = disturbed
    BY <1>8 DEF Ask
  <2>2. QED
    BY <1>7, <2>1
<1>9. CASE AskOldNode
  <2>1. PICK n \in 1 .. behind : Answered(n)
    BY <1>9 DEF AskOldNode
  <2>2. n \in Nat /\ n # 0 /\ disturbed'
    BY <1>9, <2>1 DEF AskOldNode
  <2>3. QED
    BY <1>7, <2>1, <2>2
<1>10. CASE Wake
  <2>1. /\ at = "sleeping" /\ at' = "asking" /\ UNCHANGED <<slot, behind, wait, spare, disturbed>>
    BY <1>0, <1>10 DEF Wake, Begun, chain, ghosts
  <2>2. QED
    BY <1>1, <2>1 DEF ToBlock
<1>11. CASE AskAgain \/ Crash
  <2>1. disturbed' /\ at' # "working"
    BY <1>11 DEF AskAgain, Crash, Restart, Sleep
  <2>2. QED
    BY <2>1
<1>12. CASE Resume
  <2>1. /\ at = "working" /\ UNCHANGED <<slot, behind, spare>>
        /\ \/ since < Quiet /\ at' = "sleeping" /\ wait' = Quiet - since
           \/ since >= Quiet /\ at' = "asking" /\ wait' = wait
    BY <1>0, <1>12, ResumeIs
  <2>2. wait = 0 /\ Working(behind, spare, slot, since)
    BY <1>1, <2>1 DEF Awake
  <2> DEFINE t == (BlockTime - slot') - wait'
             c == Ceil(Positive(t))
  <2>3. t \in Int /\ t <= BlockTime /\ (slot >= since => t <= BlockTime - Quiet)
    BY <1>3, <2>1, <2>2
  <2>4. c \in Nat /\ c <= PerSlot /\ (slot >= since => 1 + c <= PerHead)
    <3> HIDE DEF t
    <3>1. c \in Nat /\ c <= PerSlot
      BY <1>3, <1>4, <1>5, <2>3
    <3>2. slot >= since => c <= Ceil(Positive(BlockTime - Quiet))
      BY <1>3, <1>4, <2>3
    <3>3. Ceil(Positive(BlockTime - Quiet)) \in Nat
      BY <1>3, <1>4
    <3> HIDE DEF c
    <3>4. QED
      BY <1>3, <3>1, <3>2, <3>3
  <2> HIDE DEF c
  <2>5. spare >= 1 /\ (behind = 0 => spare >= 1 + c)
    BY <1>3, <2>2, <2>4 DEF Working
  <2>6. Due(behind', spare', t)
    BY <2>1, <2>5 DEF Due, c
  <2>7. QED
    BY <2>1, <2>6
<1>13. CASE UNCHANGED vars
  BY <1>1, <1>13 DEF vars, chain, ghosts, ToBlock
<1>14. QED
  BY <1>0, <1>6, <1>8, <1>9, <1>10, <1>11, <1>12, <1>13
(* Every step keeps how late the next head can be.                         *)
LEMMA LatenessKept ==
    ASSUME TypeOK, Awake, Lateness, [Next]_vars
    PROVE  Lateness'
<1> SUFFICES ASSUME kind' = "polling" PROVE Lateness'
  BY DEF Lateness
<1>0. /\ kind = "polling" /\ connection = "none"
      /\ \/ Tick \/ Wake \/ Ask \/ AskOldNode \/ AskAgain \/ Resume \/ Crash
         \/ UNCHANGED vars
  BY PollingSteps
<1> DEFINE Working(b, late, ag, si) == late + (IF b = 0 THEN 0 ELSE BlockTime) <= ag + si
           Due(b, sl, late, w, ag) ==
              ag >= Interval /\ IF b = 0 THEN w <= ag + (BlockTime - sl) ELSE late + w <= ag
           Goal == /\ at' = "working" => Working(behind', Behindhand', age', since')
                   /\ at' # "working" /\ ~disturbed' => Due(behind', slot', Behindhand', wait', age')
<1>1. /\ at = "working" => Working(behind, Behindhand, age, since)
      /\ at # "working" /\ ~disturbed => Due(behind, slot, Behindhand, wait, age)
  BY <1>0 DEF Lateness, ToBlock
<1>2. SUFFICES Goal
  BY DEF Lateness, ToBlock
<1>3. /\ slot \in Nat /\ slot <= BlockTime - 1 /\ behind \in Nat /\ wait \in Nat /\ since \in Nat
      /\ age \in Nat /\ empty \in Nat /\ BlockTime \in Nat \ {0} /\ Interval \in Nat \ {0} /\ Quiet \in Nat
  BY Settings DEF TypeOK
<1>4. Behindhand \in Nat /\ Behindhand >= slot
  <2>1. BlockTime * empty \in Nat
    BY <1>3
  <2>2. QED
    BY <1>3, <2>1 DEF Behindhand
<1>5. Behindhand' = slot' + BlockTime * empty'
  BY DEF Behindhand
<1> HIDE DEF Due, Working
<1>6. CASE Tick
  <2>1. /\ UNCHANGED <<at, disturbed, age>>
        /\ \/ at = "working" /\ since' = since + 1
           \/ at = "sleeping" /\ wait > 0 /\ wait' = wait - 1
        /\ \/ slot' = slot + 1 /\ UNCHANGED <<empty, behind>>
           \/ slot = BlockTime - 1 /\ slot' = 0 /\ empty' = 0 /\ behind' > 0
           \/ slot = BlockTime - 1 /\ slot' = 0 /\ empty' = empty + 1 /\ behind' = behind
    BY <1>0, <1>6, PollingSecond
  <2>2. \/ slot' = slot + 1 /\ behind' = behind /\ Behindhand' = Behindhand + 1
        \/ slot = BlockTime - 1 /\ slot' = 0 /\ behind' > 0 /\ Behindhand' = 0
        \/ slot = BlockTime - 1 /\ slot' = 0 /\ behind' = behind /\ Behindhand' = Behindhand + 1
    <3>1. CASE slot' = slot + 1 /\ UNCHANGED <<empty, behind>>
      <4> DEFINE x == BlockTime * empty
      <4>1. Behindhand = slot + x /\ Behindhand' = (slot + 1) + x /\ x \in Nat
        BY <1>3, <1>5, <3>1 DEF Behindhand
      <4> HIDE DEF x
      <4>2. Behindhand' = Behindhand + 1
        BY <1>3, <4>1
      <4>3. QED
        BY <3>1, <4>2
    <3>2. CASE slot = BlockTime - 1 /\ slot' = 0 /\ empty' = 0 /\ behind' > 0
      <4>1. BlockTime * 0 = 0
        BY <1>3
      <4>2. QED
        BY <1>5, <3>2, <4>1
    <3>3. CASE slot = BlockTime - 1 /\ slot' = 0 /\ empty' = empty + 1 /\ behind' = behind
      <4> DEFINE x == BlockTime * empty
      <4>1. BlockTime * (empty + 1) = x + BlockTime /\ x \in Nat
        BY <1>3
      <4>2. Behindhand = (BlockTime - 1) + x /\ Behindhand' = 0 + (x + BlockTime)
        BY <1>5, <3>3, <4>1 DEF Behindhand
      <4> HIDE DEF x
      <4>3. Behindhand' = Behindhand + 1
        BY <1>3, <4>1, <4>2
      <4>4. QED
        BY <3>3, <4>3
    <3>4. QED
      BY <2>1, <3>1, <3>2, <3>3
  <2>3. CASE at = "working"
    <3>1. since' = since + 1 /\ age' = age /\ at' = "working"
      BY <2>1, <2>3
    <3>2. Working(behind', Behindhand', age', since')
      BY <1>1, <1>3, <1>4, <2>2, <2>3, <3>1 DEF Working
    <3>3. QED
      BY <3>1, <3>2
  <2>4. CASE at = "sleeping" /\ ~disturbed
    <3>1. Due(behind, slot, Behindhand, wait, age) /\ wait > 0 /\ wait' = wait - 1 /\ age' = age
      BY <1>1, <2>1, <2>4
    <3>2. Due(behind', slot', Behindhand', wait', age')
      BY <1>3, <1>4, <2>2, <3>1 DEF Due
    <3>3. QED
      BY <2>1, <2>4, <3>2
  <2>5. QED
    BY <2>1, <2>3, <2>4
<1>7. ASSUME NEW n \in Nat, Answered(n), n = 0 \/ disturbed', n # 0 \/ disturbed' = disturbed
      PROVE  Goal
  <2>1. at = "asking" /\ UNCHANGED <<slot, empty>> /\ Behindhand' = Behindhand
    BY <1>7, AnswerIs DEF Behindhand
  <2>2. CASE at' = "working"
    <3>1. since' = 0 /\ behind' = n /\ age' = slot + BlockTime * (empty + n)
      BY <1>7, <2>2, AnswerIs
    <3> DEFINE x == BlockTime * empty
               y == BlockTime * n
    <3>2. age' = slot + (x + y) /\ x \in Nat /\ y \in Nat /\ Behindhand = slot + x
      BY <1>3, <3>1 DEF Behindhand
    <3>3. n # 0 => y >= BlockTime
      <4>1. ASSUME n # 0 PROVE y >= BlockTime
        <5>1. n - 1 \in Nat /\ n = (n - 1) + 1
          BY <4>1
        <5>2. y = BlockTime * (n - 1) + BlockTime /\ BlockTime * (n - 1) \in Nat
          BY <1>3, <5>1
        <5>3. QED
          BY <1>3, <5>2
      <4>2. QED
        BY <4>1
    <3> HIDE DEF x, y
    <3>4. Working(behind', Behindhand', age', since')
      BY <1>3, <2>1, <3>1, <3>2, <3>3 DEF Working
    <3>5. QED
      BY <2>2, <3>4
  <2>3. CASE at' # "working" /\ ~disturbed'
    <3>1. /\ n = 0 /\ n >= behind /\ ~disturbed /\ wait' = Interval /\ behind' = behind /\ age' = age
      BY <1>7, <2>3, AnswerIs
    <3>2. behind = 0 /\ Due(behind, slot, Behindhand, wait, age)
      BY <1>1, <1>3, <2>1, <3>1
    <3>3. Due(behind', slot', Behindhand', wait', age')
      BY <1>3, <2>1, <3>1, <3>2 DEF Due
    <3>4. QED
      BY <2>3, <3>3
  <2>4. QED
    BY <2>2, <2>3
<1>8. CASE Ask
  <2>1. Answered(0) /\ disturbed' = disturbed
    BY <1>8 DEF Ask
  <2>2. QED
    BY <1>7, <2>1
<1>9. CASE AskOldNode
  <2>1. PICK n \in 1 .. behind : Answered(n)
    BY <1>9 DEF AskOldNode
  <2>2. n \in Nat /\ n # 0 /\ disturbed'
    BY <1>9, <2>1 DEF AskOldNode
  <2>3. QED
    BY <1>7, <2>1, <2>2
<1>10. CASE Wake
  <2>1. /\ at = "sleeping" /\ at' = "asking" /\ UNCHANGED <<slot, empty, behind, wait, age, disturbed>>
    BY <1>0, <1>10 DEF Wake, Begun, chain, ghosts
  <2>2. Behindhand' = Behindhand
    BY <2>1 DEF Behindhand
  <2>3. QED
    BY <1>1, <2>1, <2>2
<1>11. CASE AskAgain \/ Crash
  <2>1. disturbed' /\ at' # "working"
    BY <1>11 DEF AskAgain, Crash, Restart, Sleep
  <2>2. QED
    BY <2>1
<1>12. CASE Resume
  <2>1. /\ at = "working" /\ UNCHANGED <<slot, empty, behind>>
        /\ \/ since < Quiet /\ at' = "sleeping" /\ wait' = Quiet - since
           \/ since >= Quiet /\ at' = "asking" /\ wait' = wait
        /\ age' \in Int /\ age' >= Interval
        /\ age' >= age + (IF since < Quiet THEN Quiet ELSE since) - BlockTime
    BY <1>0, <1>12, ResumeIs
  <2>2. wait = 0 /\ Working(behind, Behindhand, age, since) /\ Behindhand' = Behindhand
    BY <1>1, <2>1 DEF Awake, Behindhand
  <2>3. age' >= age + since + wait' - BlockTime /\ wait' \in Nat
    BY <1>3, <2>1, <2>2
  <2>4. Due(behind', slot', Behindhand', wait', age')
    <3> DEFINE a == age'
               w == wait'
               l == Behindhand
    <3>1. /\ a \in Int /\ a >= Interval /\ w \in Nat /\ a >= age + since + w - BlockTime
          /\ l \in Nat /\ l >= slot
          /\ l + (IF behind = 0 THEN 0 ELSE BlockTime) <= age + since
      BY <1>4, <2>1, <2>2, <2>3 DEF Working
    <3> HIDE DEF a, w, l
    <3>2. IF behind = 0 THEN w <= a + (BlockTime - slot) ELSE l + w <= a
      <4>1. CASE behind = 0
        BY <1>3, <3>1, <4>1
      <4>2. CASE behind # 0
        BY <1>3, <3>1, <4>2
      <4>3. QED
        BY <4>1, <4>2
    <3>3. Due(behind, slot, l, w, a)
      BY <3>1, <3>2 DEF Due
    <3>4. QED
      BY <2>1, <2>2, <3>3 DEF a, w, l
  <2>5. QED
    BY <2>1, <2>4
<1>13. CASE UNCHANGED vars
  BY <1>1, <1>13 DEF vars, chain, ghosts, Behindhand
<1>14. QED
  BY <1>0, <1>6, <1>8, <1>9, <1>10, <1>11, <1>12, <1>13
(* Every step keeps Heard.                                                 *)
LEMMA HeardKept ==
    ASSUME TypeOK, Heard, [Next]_vars
    PROVE  Heard'
<1>0. /\ slot \in Nat /\ empty \in Nat /\ BlockTime \in Nat \ {0} /\ since \in Nat
      /\ slot <= BlockTime - 1 /\ BlockTime * empty \in Nat
  BY Settings DEF TypeOK
<1>1. TypeOK'
  BY TypeKept
<1>2. slot' \in Nat /\ BlockTime * empty' \in Nat /\ Behindhand' = slot' + BlockTime * empty'
  <2>1. slot' \in Nat /\ empty' \in Nat
    BY <1>1, Settings DEF TypeOK
  <2>2. \A m \in Nat : BlockTime * m \in Nat
    BY <1>0
  <2>3. QED
    BY <2>1, <2>2 DEF Behindhand
<1>3. ASSUME since' = 0 PROVE Heard'
  BY <1>2, <1>3 DEF Heard
<1>4. ASSUME at' # "waiting" PROVE Heard'
  BY <1>4 DEF Heard
<1>5. CASE Tick
  <2> SUFFICES ASSUME at' = "waiting", inbox' = <<>>, connection' = "open", ~disturbed'
               PROVE  since' <= Behindhand'
    BY DEF Heard
  <2>1. /\ at = "waiting" /\ inbox = <<>> /\ connection = "open" /\ since' = since + 1
        /\ \/ slot' = slot + 1 /\ UNCHANGED <<empty, disturbed>>
           \/ slot = BlockTime - 1 /\ slot' = 0 /\ (NewBlock \/ MissedSlot)
    BY <1>5, TickIs
  <2>2. CASE NewBlock
    <3>1. inbox' = Notifications(<<0>>)
      BY <2>1, <2>2 DEF NewBlock
    <3>2. Notifications(<<0>>) # <<>>
      <4> DEFINE older == [i \in DOMAIN inbox |-> Capped(inbox[i] + 1)]
      <4>1. older = <<>>
        BY <2>1
      <4>2. Notifications(<<0>>) = older \o <<0>>
        BY DEF Notifications
      <4> HIDE DEF older
      <4>3. QED
        BY <4>1, <4>2
    <3>3. QED
      BY <3>1, <3>2
  <2>3. CASE slot' = slot + 1 /\ UNCHANGED <<empty, disturbed>>
    <3>1. since <= Behindhand
      BY <2>1, <2>3 DEF Heard
    <3> DEFINE x == BlockTime * empty
    <3>2. since <= slot + x /\ Behindhand' = (slot + 1) + x
      BY <1>2, <2>3, <3>1 DEF Behindhand
    <3> HIDE DEF x
    <3>3. x \in Nat
      BY <1>0 DEF x
    <3>4. QED
      BY <1>0, <2>1, <3>2, <3>3
  <2>4. CASE MissedSlot /\ slot = BlockTime - 1 /\ slot' = 0
    <3>1. since <= Behindhand /\ empty' = empty + 1
      BY <2>1, <2>4 DEF Heard, MissedSlot
    <3> DEFINE x == BlockTime * empty
    <3>2. BlockTime * (empty + 1) = x + BlockTime
      BY <1>0
    <3>3. since <= (BlockTime - 1) + x /\ Behindhand' = 0 + (x + BlockTime)
      BY <1>2, <2>4, <3>1, <3>2 DEF Behindhand
    <3> HIDE DEF x
    <3>4. x \in Nat
      BY <1>0 DEF x
    <3>5. QED
      BY <1>0, <2>1, <3>3, <3>4
  <2>5. QED
    BY <2>1, <2>2, <2>3, <2>4
<1>6. CASE Ask \/ AskOldNode \/ AskAgain \/ Wake
  BY <1>4, <1>6 DEF Ask, AskOldNode, AskAgain, Answered, Give, Sleep, Wake, Begun
<1>7. CASE Resume \/ Subscribe \/ Heartbeat
  BY <1>3, <1>7 DEF Resume, Subscribe, Heartbeat
<1>8. CASE Receive \/ Crash
  BY <1>4, <1>8 DEF Receive, Give, Crash, Restart, Sleep
<1>9. CASE CannotConnect \/ ConnectionLost \/ Timeout
  BY <1>4, <1>9 DEF CannotConnect, ConnectionLost, Timeout, Reconnect, Restart, Sleep
<1>10. CASE GoesBad
  BY <1>10 DEF GoesBad, Heard
<1>11. CASE UNCHANGED vars
  BY <1>11 DEF vars, chain, socket, ghosts, Heard, Behindhand
<1>12. QED
  BY <1>5, <1>6, <1>7, <1>8, <1>9, <1>10, <1>11 DEF Next, Run

-----------------------------------------------------------------------------
(* The strengthening holds at first and is kept by every step.             *)
THEOREM SourcesInductive == Spec => []SourcesInv
<1>1. Init => SourcesInv
  <2> SUFFICES ASSUME Init PROVE SourcesInv
    OBVIOUS
  <2>1. <<>> \in Seq(0 .. MaxBehind)
    OBVIOUS
  <2>2. LongestSleep \in Nat /\ Max({MaxWork, IdleTimeout}) \in Nat
    BY Longest, Measured
  <2>3. 0 \in 0 .. LongestSleep /\ 0 \in 0 .. Max({MaxWork, IdleTimeout})
    <3> DEFINE M == Max({MaxWork, IdleTimeout})
    <3>1. LongestSleep \in Nat /\ M \in Nat
      BY <2>2
    <3> HIDE DEF M
    <3>2. 0 \in 0 .. LongestSleep /\ 0 \in 0 .. M
      BY <3>1
    <3>3. QED
      BY <3>2 DEF M
  <2>4. /\ kind \in {"polling", "websocket"} /\ slot \in 0 .. BlockTime - 1 /\ empty = 0 /\ behind = 1
        /\ at = (IF kind = "polling" THEN "asking" ELSE "connecting")
        /\ wait = 0 /\ since = 0 /\ fresh = TRUE /\ connection = "none" /\ inbox = <<>> /\ attempt = 0
        /\ age = 0 /\ spare = 0 /\ disturbed = TRUE /\ faults = Faults
    BY DEF Init, Begun
  <2>5. TypeOK
    BY <2>1, <2>3, <2>4, Settings DEF TypeOK
  <2>6. QED
    BY <2>4, <2>5 DEF SourcesInv, Awake, Budget, Lateness, Heard
<1>2. SourcesInv /\ [Next]_vars => SourcesInv'
  BY TypeKept, AwakeKept, BudgetKept, LatenessKept, HeardKept DEF SourcesInv
<1>3. QED
  BY <1>1, <1>2, PTL DEF Spec

(* The variables keep their types.                                         *)
THEOREM SourcesTypeCorrect == Spec => []TypeOK
<1>1. SourcesInv => TypeOK
  BY DEF SourcesInv
<1>2. QED
  BY <1>1, SourcesInductive, PTL

(* After a head the polling source asks as often as the block is late, and *)
(* once more, whatever the pause, the slots and the work                   *)
(* (block_source.py:28-34, 48-53).                                         *)
THEOREM PollsSparingly == Spec => []FewRequests
<1>1. SourcesInv => FewRequests
  BY DEF SourcesInv, Budget, FewRequests, TypeOK
<1>2. QED
  BY <1>1, SourcesInductive, PTL

(* The pause after a head costs nothing that lasts: a head that is polled  *)
(* for comes within Interval, or sooner by the slot less the pause or the  *)
(* work than the one before (block_source.py:28-34, 48-53).                *)
THEOREM PauseCostsNothing == Spec => CatchesUp
<1>1. ASSUME SourcesInv, [Next]_vars, at = "asking", at' = "working", ~disturbed'
      PROVE  age' <= age
  <2>1. kind = "polling" /\ kind' = "polling"
    <3>1. TypeOK /\ TypeOK'
      BY <1>1, TypeKept DEF SourcesInv
    <3>2. kind = "polling"
      BY <1>1, <3>1 DEF TypeOK
    <3>3. CASE kind' = "polling"
      BY <3>2, <3>3
    <3>4. CASE kind' # "polling"
      BY <1>1, <3>1, <3>2, <3>4, TickIs DEF Next, Run, Wake, Ask, AskOldNode, AskAgain, Answered, Give,
         Resume, Subscribe, Receive, ConnectionLost, Timeout, Heartbeat, CannotConnect, GoesBad, Crash, vars
    <3>5. QED
      BY <3>3, <3>4
  <2>2. Ask
    <3>1. /\ Tick \/ Wake \/ Ask \/ AskOldNode \/ AskAgain \/ Resume \/ Crash \/ UNCHANGED vars
      BY <1>1, <2>1, PollingSteps DEF SourcesInv
    <3>2. ~ Tick
      BY <1>1, TickIs DEF SourcesInv
    <3>3. ~ (Wake \/ AskOldNode \/ AskAgain \/ Resume \/ Crash \/ UNCHANGED vars)
      BY <1>1 DEF Wake, AskOldNode, AskAgain, Resume, Crash, vars
    <3>4. QED
      BY <3>1, <3>2, <3>3
  <2>3. Answered(0) /\ ~disturbed
    BY <1>1, <2>2 DEF Ask
  <2>4. ~fresh /\ wait = 0
    BY <1>1, <2>1, <2>3 DEF SourcesInv, Awake
  <2>5. behind # 0 /\ age' = slot + BlockTime * (empty + 0)
    BY <1>1, <2>3, <2>4, AnswerIs DEF SourcesInv
  <2>6. Behindhand + wait <= age
    BY <1>1, <2>1, <2>3, <2>5 DEF SourcesInv, Lateness
  <2>7. empty + 0 = empty /\ Behindhand = slot + BlockTime * empty /\ Behindhand \in Int
    BY <1>1, Settings DEF SourcesInv, TypeOK, Behindhand
  <2>8. QED
    BY <2>4, <2>5, <2>6, <2>7
<1>2. SourcesInv /\ [Next]_vars => [at = "asking" /\ at' = "working" /\ ~disturbed' => age' <= age]_vars
  BY <1>1
<1>3. QED
  BY <1>2, SourcesInductive, PTL DEF Spec, CatchesUp

(* A WebSocket that delivers is never dropped, if a silence of as many     *)
(* slots as are ever missed, and one more, is shorter than the time it may *)
(* be idle (block_source.py:79-84; 60 s are five slots).                   *)
THEOREM HealthyNeverDropped ==
    ASSUME IdleTimeout >= BlockTime * (MaxMissed + 1)
    PROVE  Spec => HealthyKept
<1>1. ASSUME SourcesInv, [Next]_vars, connection = "open", ~disturbed, connection' # "open"
      PROVE  faults' < faults
  <2>1. at \in {"waiting", "working"} /\ faults \in Nat /\ kind = "websocket"
    BY <1>1 DEF SourcesInv, TypeOK
  <2>2. CASE GoesBad \/ Crash
    BY <2>1, <2>2 DEF GoesBad, Crash, Fault
  <2>3. ~ Timeout
    <3> SUFFICES ASSUME Timeout PROVE FALSE
      OBVIOUS
    <3>1. since = IdleTimeout /\ since <= Behindhand
      BY <1>1 DEF Timeout, SourcesInv, Heard
    <3>2. /\ slot \in Nat /\ slot < BlockTime /\ empty \in Nat /\ empty <= MaxMissed
          /\ MaxMissed \in Nat /\ BlockTime \in Nat /\ IdleTimeout \in Nat
      BY <1>1, Settings DEF SourcesInv, TypeOK
    <3>3. PICK k \in Nat : MaxMissed = empty + k
      <4>1. MaxMissed - empty \in Nat /\ MaxMissed = empty + (MaxMissed - empty)
        BY <3>2
      <4>2. QED
        BY <4>1
    <3> DEFINE x == BlockTime * empty
               y == BlockTime * k
    <3>4. x \in Nat /\ y \in Nat /\ BlockTime * (MaxMissed + 1) = x + y + BlockTime
      BY <3>2, <3>3
    <3>5. Behindhand = slot + x
      BY DEF Behindhand
    <3> HIDE DEF x, y
    <3>6. QED
      BY <3>1, <3>2, <3>4, <3>5
  <2>4. ~ (Ask \/ AskOldNode \/ AskAgain \/ CannotConnect \/ ConnectionLost)
    BY <1>1, <2>1 DEF Ask, AskOldNode, Answered, AskAgain, CannotConnect, ConnectionLost
  <2>5. ~ Tick
    BY <1>1, TickIs DEF SourcesInv
  <2>6. ~ (Wake \/ Resume \/ Subscribe \/ Receive \/ Heartbeat \/ UNCHANGED vars)
    BY <1>1 DEF Wake, Resume, Subscribe, Receive, Heartbeat, vars, socket
  <2>7. QED
    BY <1>1, <2>2, <2>3, <2>4, <2>5, <2>6 DEF Next, Run
<1>2. SourcesInv /\ [Next]_vars =>
         [connection = "open" /\ ~disturbed /\ connection' # "open" => faults' < faults]_vars
  BY <1>1
<1>3. QED
  BY <1>2, SourcesInductive, PTL DEF Spec, HealthyKept
-----------------------------------------------------------------------------
(* How long the polling source is silent.  HeadsKeepComing rests on time   *)
(* going on; what follows bounds how much of it may pass between a head    *)
(* and the next, as long as no fault comes between.                        *)

(* Seconds after which there is a newer head, and a request for it.        *)
ToNewer ==
    IF behind > 0 THEN 0 ELSE (BlockTime - slot) + BlockTime * (MaxMissed - empty) + Interval

(* Seconds until the source asks, if the consumer takes all its time.      *)
ToAsking ==
    CASE at = "working" -> (MaxWork - since) + Positive(Quiet - since)
      [] at = "sleeping" -> wait
      [] at \notin {"working", "sleeping"} -> 0

ToHead == IF ToAsking >= ToNewer THEN ToAsking ELSE ToNewer

(* What comes before what, without a second passing.                       *)
Turn ==
    CASE at = "working" -> 3
      [] at = "sleeping" /\ wait = 0 -> 2
      [] at = "asking" -> 1
      [] at = "sleeping" /\ wait # 0 -> 0
      [] at \notin {"working", "sleeping", "asking"} -> 0

(* The work and the pause, or the longest gap of the chain and a request,  *)
(* or a sleep of the supervisor.                                           *)
SilenceIsShort ==
    kind = "polling" =>
        /\ ToHead \in Nat
        /\ \/ ToHead <= MaxWork + Quiet
           \/ ToHead <= BlockTime * (MaxMissed + 1) + Interval
           \/ ToHead <= LongestSleep

(* Every second brings the next head nearer; the steps between two seconds *)
(* are few, unless one is a fault or gives a head, which is newer than the *)
(* one before or the source's first.                                       *)
SilenceEnds ==
    [][kind = "polling" =>
          /\ Tick => ToHead' < ToHead
          /\ ~Tick => \/ faults' < faults
                      \/ at = "asking" /\ at' = "working" /\ (behind' < behind \/ fresh)
                      \/ ToHead' <= ToHead /\ Turn' < Turn]_vars

(* Slots that may be missed take their time.                               *)
LEMMA ToNewerIs ==
    ASSUME TypeOK
    PROVE  /\ ToNewer \in Nat
           /\ behind = 0 => ToNewer > Interval
           /\ ToNewer <= BlockTime * (MaxMissed + 1) + Interval
<1>1. /\ slot \in Nat /\ slot < BlockTime /\ BlockTime \in Nat /\ Interval \in Nat
      /\ empty \in Nat /\ MaxMissed \in Nat /\ empty <= MaxMissed /\ behind \in Nat
  BY Settings DEF TypeOK
<1>2. PICK k \in Nat : MaxMissed = empty + k
  <2>1. MaxMissed - empty \in Nat /\ MaxMissed = empty + (MaxMissed - empty)
    BY <1>1
  <2>2. QED
    BY <2>1
<1> DEFINE x == BlockTime * empty
           y == BlockTime * k
<1>3. x \in Nat /\ y \in Nat /\ BlockTime * (MaxMissed + 1) = x + y + BlockTime
  BY <1>1, <1>2
<1>4. MaxMissed - empty = k
  BY <1>1, <1>2
<1>5. ToNewer = IF behind > 0 THEN 0 ELSE (BlockTime - slot) + y + Interval
  BY <1>4 DEF ToNewer
<1> HIDE DEF x, y
<1>6. CASE behind > 0
  BY <1>1, <1>3, <1>5, <1>6
<1>7. CASE behind = 0
  BY <1>1, <1>3, <1>5, <1>7
<1>8. QED
  BY <1>1, <1>6, <1>7

LEMMA ToAskingIs ==
    ASSUME TypeOK
    PROVE  /\ ToAsking \in Int
           /\ ToAsking <= MaxWork + Quiet \/ ToAsking <= LongestSleep
<1>1. since \in Nat /\ wait \in Nat /\ wait <= LongestSleep
  BY Longest DEF TypeOK
<1>2. CASE at = "working"
  BY <1>1, <1>2, Settings DEF ToAsking, Positive
<1>3. CASE at = "sleeping"
  BY <1>1, <1>3 DEF ToAsking
<1>4. CASE at \notin {"working", "sleeping"}
  BY <1>4, Longest DEF ToAsking
<1>5. QED
  BY <1>2, <1>3, <1>4

(* The consumer takes no longer than it may.                               *)
Paced == at = "working" => since <= MaxWork

LEMMA PacedHolds == Spec => []Paced
<1>1. Init => Paced
  BY DEF Init, Paced, Begun
<1>2. ASSUME SourcesInv, Paced, [Next]_vars PROVE Paced'
  <2>1. CASE Tick
    <3>1. TypeOK /\ since \in Nat
      BY <1>2 DEF SourcesInv, TypeOK
    <3>2. at' = at /\ (at = "working" => since < MaxWork /\ since' = since + 1)
      BY <2>1, <3>1, TickIs
    <3>3. QED
      BY <3>1, <3>2, Settings DEF Paced
  <2>2. ASSUME at' = "working", ~Tick PROVE since' = 0 \/ (at = "working" /\ since' = since)
    <3>1. CASE Ask \/ AskOldNode
      BY <2>2, <3>1 DEF Ask, AskOldNode, Answered, Give, Sleep
    <3>2. CASE Wake \/ AskAgain \/ Resume \/ Subscribe \/ Heartbeat \/ GoesBad \/ Crash
      BY <2>2, <3>2 DEF Wake, Begun, AskAgain, Resume, Subscribe, Heartbeat, GoesBad, Crash, Restart, Sleep
    <3>3. CASE Receive
      BY <3>3 DEF Receive, Give
    <3>4. CASE CannotConnect \/ ConnectionLost \/ Timeout
      BY <2>2, <3>4 DEF CannotConnect, ConnectionLost, Timeout, Reconnect, Restart, Sleep
    <3>5. CASE UNCHANGED vars
      BY <2>2, <3>5 DEF vars
    <3>6. QED
      BY <1>2, <2>2, <3>1, <3>2, <3>3, <3>4, <3>5 DEF Next, Run
  <2>3. QED
    BY <1>2, <2>1, <2>2, Settings DEF Paced
<1>3. QED
  BY <1>1, <1>2, SourcesInductive, PTL DEF Spec

(* A second passes.                                                        *)
LEMMA SecondNearer ==
    ASSUME SourcesInv, SourcesInv', kind = "polling", Tick
    PROVE  ToHead' < ToHead
<1>1. TypeOK /\ TypeOK' /\ connection = "none"
  BY DEF SourcesInv, TypeOK
<1>2. /\ at' = at /\ since \in Nat /\ wait \in Nat
      /\ \/ at = "working" /\ since < MaxWork /\ since' = since + 1 /\ wait' = wait
         \/ at = "sleeping" /\ wait > 0 /\ wait' = wait - 1 /\ since' = since
  BY <1>1, PollingSecond DEF TypeOK
<1>3. ToAsking \in Int /\ ToNewer \in Nat /\ ToAsking >= 1 /\ ToAsking' \in Int /\ ToAsking' < ToAsking
  <2>1. ToNewer \in Nat
    BY <1>1, ToNewerIs
  <2>2. CASE at = "working"
    <3>1. since' = since + 1 /\ since < MaxWork
      BY <1>2, <2>2
    <3>2. /\ ToAsking = (MaxWork - since) + Positive(Quiet - since)
          /\ ToAsking' = (MaxWork - (since + 1)) + Positive(Quiet - (since + 1))
      BY <1>2, <2>2, <3>1 DEF ToAsking, Positive
    <3>3. QED
      BY <1>2, <2>1, <3>1, <3>2, Settings DEF Positive
  <2>3. CASE at = "sleeping"
    <3>1. ToAsking = wait /\ ToAsking' = wait - 1 /\ wait > 0
      BY <1>2, <2>3 DEF ToAsking
    <3>2. QED
      BY <1>2, <2>1, <3>1
  <2>4. QED
    BY <1>2, <2>2, <2>3
<1>4. ToNewer' \in Nat /\ (ToNewer' = 0 \/ ToNewer' < ToNewer)
  <2>0. /\ slot \in Nat /\ slot < BlockTime /\ BlockTime \in Nat /\ Interval \in Nat
        /\ empty \in Nat /\ MaxMissed \in Nat /\ behind \in Nat /\ behind' \in Nat
    BY <1>1, Settings DEF TypeOK
  <2>1. CASE behind' > 0
    BY <2>1 DEF ToNewer
  <2>2. CASE behind' = 0 /\ slot < BlockTime - 1 /\ slot' = slot + 1 /\ UNCHANGED <<empty, behind>>
    <3> DEFINE y == BlockTime * (MaxMissed - empty)
    <3>1. y \in Int
      BY <2>0
    <3>2. ToNewer = (BlockTime - slot) + y + Interval /\ ToNewer' = (BlockTime - (slot + 1)) + y + Interval
      BY <2>2 DEF ToNewer
    <3> HIDE DEF y
    <3>3. ToNewer' < ToNewer
      BY <2>0, <3>1, <3>2
    <3>4. ToNewer' \in Nat
      BY <2>0, <2>2, <3>1, <3>2, <1>1, ToNewerIs, <3>3
    <3>5. QED
      BY <3>3, <3>4
  <2>3. CASE behind' = 0 /\ slot = BlockTime - 1 /\ slot' = 0 /\ empty' = empty + 1 /\ behind' = behind
    <3>1. empty + 1 <= MaxMissed
      BY <1>1, <2>3 DEF TypeOK
    <3>2. PICK k \in Nat : MaxMissed = (empty + 1) + k
      <4>1. MaxMissed - (empty + 1) \in Nat /\ MaxMissed = (empty + 1) + (MaxMissed - (empty + 1))
        BY <2>0, <3>1
      <4>2. QED
        BY <4>1
    <3> DEFINE y == BlockTime * k
    <3>3. MaxMissed - empty = k + 1 /\ MaxMissed - (empty + 1) = k
      BY <2>0, <3>2
    <3>4. BlockTime * (k + 1) = y + BlockTime /\ y \in Nat
      BY <2>0, <3>2
    <3>5. ToNewer = (BlockTime - (BlockTime - 1)) + BlockTime * (k + 1) + Interval
      BY <2>3, <3>3 DEF ToNewer
    <3>6. ToNewer' = (BlockTime - 0) + y + Interval
      BY <2>3, <3>3 DEF ToNewer
    <3> HIDE DEF y
    <3>7. QED
      BY <2>0, <3>4, <3>5, <3>6
  <2>4. QED
    BY <1>1, <2>0, <2>1, <2>2, <2>3, PollingSecond
<1>5. QED
  BY <1>3, <1>4 DEF ToHead

(* The other steps of the polling source.                                  *)
LEMMA BetweenSeconds ==
    ASSUME SourcesInv, Paced, [Next]_vars, vars' # vars, kind = "polling", ~Tick
    PROVE  \/ faults' < faults
           \/ at = "asking" /\ at' = "working" /\ (behind' < behind \/ fresh)
           \/ ToHead' <= ToHead /\ Turn' < Turn
<1>1. TypeOK /\ kind' = "polling" /\ ToNewer \in Nat /\ ToAsking \in Int
      /\ (at # "sleeping" => wait = 0) /\ since \in Nat /\ behind \in Nat
  BY KindStays, ToNewerIs, ToAskingIs DEF SourcesInv, TypeOK, Awake
<1>2. Wake \/ Ask \/ AskOldNode \/ AskAgain \/ Resume \/ Crash
  BY <1>1, PollingSteps
<1>3. CASE AskOldNode \/ AskAgain \/ Crash
  BY <1>1, <1>3 DEF AskOldNode, AskAgain, Crash, Fault, TypeOK
<1>4. CASE Wake
  <2>1. at = "sleeping" /\ wait = 0 /\ at' = "asking" /\ UNCHANGED <<slot, empty, behind>>
    BY <1>1, <1>4 DEF Wake, Begun, chain
  <2>2. ToAsking = 0 /\ ToAsking' = 0 /\ ToNewer' = ToNewer
    BY <2>1 DEF ToAsking, ToNewer
  <2>3. Turn = 2 /\ Turn' = 1
    BY <2>1 DEF Turn
  <2>4. QED
    BY <1>1, <2>2, <2>3 DEF ToHead
<1>5. CASE Resume
  <2>1. /\ at = "working" /\ UNCHANGED <<slot, empty, behind>>
        /\ \/ since < Quiet /\ at' = "sleeping" /\ wait' = Quiet - since
           \/ since >= Quiet /\ at' = "asking" /\ wait' = wait
    BY <1>1, <1>5, ResumeIs
  <2>2. ToNewer' = ToNewer
    BY <2>1 DEF ToNewer
  <2>3. Turn = 3 /\ Turn' < 3
    BY <2>1 DEF Turn
  <2>4. ToAsking' \in Int /\ (ToAsking' <= ToAsking \/ ToAsking' = 0)
    <3>1. CASE at' = "asking"
      BY <3>1 DEF ToAsking
    <3>2. CASE at' = "sleeping" /\ since < Quiet /\ wait' = Quiet - since
      <4>1. ToAsking' = Quiet - since
        BY <3>2 DEF ToAsking
      <4>2. ToAsking = (MaxWork - since) + (Quiet - since) /\ since <= MaxWork
        BY <2>1, <3>2, <1>1, Settings DEF ToAsking, Positive, Paced
      <4>3. QED
        BY <1>1, <4>1, <4>2, Settings
    <3>3. QED
      BY <2>1, <3>1, <3>2
  <2>5. QED
    BY <1>1, <2>2, <2>3, <2>4 DEF ToHead
<1>6. CASE Ask
  <2>1. Answered(0) /\ at = "asking"
    BY <1>6 DEF Ask, Answered
  <2>2. /\ UNCHANGED <<slot, empty>>
        /\ \/ (0 < behind \/ fresh) /\ at' = "working" /\ behind' = 0
           \/ 0 >= behind /\ at' = "sleeping" /\ wait' = Interval /\ behind' = behind
    BY <1>1, <2>1, AnswerIs
  <2>3. CASE at' = "working" /\ (0 < behind \/ fresh) /\ behind' = 0
    BY <1>1, <2>1, <2>3
  <2>4. CASE 0 >= behind /\ at' = "sleeping" /\ wait' = Interval /\ behind' = behind
    <3>1. behind = 0 /\ Interval \in Nat \ {0}
      BY <1>1, <2>4, Settings
    <3>2. ToNewer > Interval /\ ToNewer' = ToNewer
      BY <1>1, <2>2, <2>4, <3>1, ToNewerIs DEF ToNewer
    <3>3. ToAsking = 0 /\ ToAsking' = Interval
      BY <2>1, <2>4 DEF ToAsking
    <3>4. Turn = 1 /\ Turn' = 0
      BY <2>1, <2>4, <3>1 DEF Turn
    <3>5. QED
      BY <1>1, <3>1, <3>2, <3>3, <3>4 DEF ToHead
  <2>5. QED
    BY <2>2, <2>3, <2>4
<1>7. QED
  BY <1>2, <1>3, <1>4, <1>5, <1>6

(* A polled head is followed by another within the seconds that the work   *)
(* and the pause, or the chain's longest gap and a request, take, if no    *)
(* fault comes between: what HeadsKeepComing needs of the polling source   *)
(* besides that time goes on (block_source.py:28-53).                      *)
THEOREM PolledHeadsCome == Spec => []SilenceIsShort /\ SilenceEnds
<1>1. ASSUME SourcesInv PROVE SilenceIsShort
  BY <1>1, ToNewerIs, ToAskingIs DEF SourcesInv, SilenceIsShort, ToHead
<1>2. SourcesInv /\ SourcesInv' /\ Paced /\ [Next]_vars =>
        [kind = "polling" =>
          /\ Tick => ToHead' < ToHead
          /\ ~Tick => \/ faults' < faults
                      \/ at = "asking" /\ at' = "working" /\ (behind' < behind \/ fresh)
                      \/ ToHead' <= ToHead /\ Turn' < Turn]_vars
  BY SecondNearer, BetweenSeconds
<1>3. QED
  BY <1>1, <1>2, SourcesInductive, PacedHolds, PTL DEF Spec, SilenceEnds

=============================================================================
