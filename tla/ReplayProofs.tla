---------------------------- MODULE ReplayProofs ----------------------------
(***************************************************************************)
(* Proofs about replay and get_logs, for every range, every setting of the *)
(* batch, every pattern of refusals and any number of transient failures.  *)
(***************************************************************************)
EXTENDS Replay, TLAPS

(* The ranges within another one.                                          *)
Within(r) == [from : r.from .. r.to, to : r.from .. r.to]

(* A stack of ranges that covers from..to without a gap or an overlap.     *)
Covers(ranges, from, to) ==
    /\ ranges # <<>>
    /\ ranges[1].from = from
    /\ ranges[Len(ranges)].to = to
    /\ \A i \in 1 .. Len(ranges) : ranges[i].from <= ranges[i].to
    /\ \A i \in 1 .. Len(ranges) - 1 : ranges[i + 1].from = ranges[i].to + 1

(* Which request runs, and what it means when it is refused.               *)
Request1 ==
    /\ call \in {LogsOfBlock, LogsOfRange}
    /\ retry = "failed" /\ call = LogsOfBlock => attempt >= CallAttempts /\ permanents > 0
    /\ retry # "reverted"

(* What is fetched, and what is left, make the range asked for.            *)
Running ==
    outcome = "running" =>
        /\ Covers(todo, Next1.from, asked.to)
        /\ got = BlocksOf(Range(asked.from, Next1.from - 1))
        /\ call = CallFor(Next1)

GetLogsInv ==
    /\ GetLogsType
    /\ asked.from <= asked.to
    /\ Request1
    /\ Running
    /\ ResultComplete
    /\ RefusesOneBlock

(* How far the engine has come, by the place of the loop.                  *)
Progress ==
    /\ replay \in {"starting", "loop", "fetching"} => Len(processed) = start - From
    /\ replay \in {"fetching", "processing"} =>
          /\ asked.from = start /\ start <= asked.to /\ asked.to <= To
          /\ outcome # "idle"
    /\ replay = "processing" =>
          /\ outcome = "returned"
          /\ start <= block /\ block <= asked.to
          /\ Len(processed) = block - From
    /\ replay = "finished" => start = To + 1

IInv == TypeOK /\ GetLogsInv /\ Progress /\ ReplayedOnce

-----------------------------------------------------------------------------
(* When a sequence is two others in a row.                                 *)
LEMMA InARow ==
    ASSUME NEW S, NEW l \in Seq(S), NEW r \in Seq(S), NEW w \in Seq(S), Len(w) = Len(l) + Len(r),
           \A i \in 1 .. Len(l) : w[i] = l[i],
           \A i \in 1 .. Len(r) : w[Len(l) + i] = r[i]
    PROVE  l \o r = w
<1>1. l \o r \in Seq(S) /\ Len(l \o r) = Len(w)
  OBVIOUS
<1>2. ASSUME NEW i \in 1 .. Len(w) PROVE (l \o r)[i] = w[i]
  <2>1. CASE i <= Len(l)
    BY <2>1
  <2>2. CASE i > Len(l)
    <3>1. i - Len(l) \in 1 .. Len(r) /\ (l \o r)[i] = r[i - Len(l)] /\ Len(l) + (i - Len(l)) = i
      BY <2>2
    <3>2. w[Len(l) + (i - Len(l))] = r[i - Len(l)]
      BY <3>1
    <3>3. QED
      BY <3>1, <3>2
  <2>3. QED
    BY <2>1, <2>2
<1>3. QED
  BY <1>1, <1>2

(* The blocks of a range, one by one.                                      *)
LEMMA BlockAt ==
    ASSUME NEW a \in Nat, NEW b \in Int, a <= b + 1, NEW S, a .. b \subseteq S
    PROVE  /\ BlocksOf(Range(a, b)) \in Seq(S)
           /\ Len(BlocksOf(Range(a, b))) = b - a + 1
           /\ \A i \in 1 .. b - a + 1 : BlocksOf(Range(a, b))[i] = a + i - 1
<1>1. b - a + 1 \in Nat /\ \A i \in 1 .. b - a + 1 : a + i - 1 \in S
  OBVIOUS
<1>2. BlocksOf(Range(a, b)) = [i \in 1 .. b - a + 1 |-> a + i - 1]
  BY DEF BlocksOf, Range
<1>3. QED
  BY <1>1, <1>2

(* The blocks of two ranges in a row are those of the range they make.     *)
LEMMA BlocksInARow ==
    ASSUME NEW a \in Nat, NEW b \in Int, NEW c \in Nat, a <= b + 1, b <= c
    PROVE  BlocksOf(Range(a, b)) \o BlocksOf(Range(b + 1, c)) = BlocksOf(Range(a, c))
<1> DEFINE l == BlocksOf(Range(a, b))
           r == BlocksOf(Range(b + 1, c))
           w == BlocksOf(Range(a, c))
<1>1. l \in Seq(Nat) /\ Len(l) = b - a + 1 /\ \A i \in 1 .. b - a + 1 : l[i] = a + i - 1
  BY BlockAt, a .. b \subseteq Nat
<1>2. r \in Seq(Nat) /\ Len(r) = c - b /\ \A i \in 1 .. c - b : r[i] = b + i
  <2>1. /\ b + 1 \in Nat /\ c \in Int /\ b + 1 <= c + 1
        /\ b + 1 .. c \subseteq Nat /\ c - (b + 1) + 1 = c - b
    OBVIOUS
  <2>2. r \in Seq(Nat) /\ Len(r) = c - (b + 1) + 1 /\ \A i \in 1 .. c - (b + 1) + 1 : r[i] = (b + 1) + i - 1
    BY <2>1, BlockAt
  <2>3. QED
    BY <2>1, <2>2
<1>3. w \in Seq(Nat) /\ Len(w) = c - a + 1 /\ \A i \in 1 .. c - a + 1 : w[i] = a + i - 1
  <2>1. a <= c + 1 /\ c \in Int /\ a .. c \subseteq Nat
    OBVIOUS
  <2>2. QED
    BY <2>1, BlockAt
<1> HIDE DEF l, r, w
<1>4. Len(w) = Len(l) + Len(r)
  BY <1>1, <1>2, <1>3
<1>5. \A i \in 1 .. Len(l) : w[i] = l[i]
  BY <1>1, <1>3
<1>6. \A i \in 1 .. Len(r) : w[Len(l) + i] = r[i]
  BY <1>1, <1>2, <1>3
<1>7. l \o r = w
  BY <1>1, <1>2, <1>3, <1>4, <1>5, <1>6, InARow
<1>8. QED
  BY <1>7 DEF l, r, w

(* What is left when the first range is taken off.                         *)
LEMMA CoversTail ==
    ASSUME NEW r \in [from : Nat, to : Nat], NEW s \in Seq(Within(r)),
           Covers(s, s[1].from, r.to), Tail(s) # <<>>
    PROVE  /\ Tail(s) \in Seq(Within(r))
           /\ Covers(Tail(s), s[1].to + 1, r.to)
<1> DEFINE t == Tail(s)
<1>1. s # <<>>
  BY DEF Covers
<1>2. t \in Seq(Within(r)) /\ Len(t) = Len(s) - 1 /\ \A i \in 1 .. Len(t) : t[i] = s[i + 1]
  BY <1>1
<1>3. Len(t) \in Nat /\ Len(t) >= 1 /\ Len(s) = Len(t) + 1
  BY <1>2, <1>1
<1>4. t[1].from = s[1].to + 1
  BY <1>2, <1>3 DEF Covers
<1>5. t[Len(t)].to = r.to
  BY <1>2, <1>3 DEF Covers
<1>6. \A i \in 1 .. Len(t) : t[i].from <= t[i].to
  BY <1>2, <1>3 DEF Covers
<1>7. \A i \in 1 .. Len(t) - 1 : t[i + 1].from = t[i].to + 1
  <2> TAKE i \in 1 .. Len(t) - 1
  <2>1. i + 1 \in 1 .. Len(s) - 1 /\ t[i] = s[i + 1] /\ t[i + 1] = s[(i + 1) + 1]
    BY <1>2, <1>3
  <2>2. s[(i + 1) + 1].from = s[i + 1].to + 1
    BY <2>1 DEF Covers
  <2>3. QED
    BY <2>1, <2>2
<1>8. QED
  BY <1>2, <1>4, <1>5, <1>6, <1>7 DEF Covers

(* The halves of the first range cover what it covered.                    *)
LEMMA CoversHalves ==
    ASSUME NEW r \in [from : Nat, to : Nat], NEW s \in Seq(Within(r)),
           Covers(s, s[1].from, r.to), s[1].from # s[1].to
    PROVE  /\ Halves(s[1]) \o Tail(s) \in Seq(Within(r))
           /\ Covers(Halves(s[1]) \o Tail(s), s[1].from, r.to)
           /\ (Halves(s[1]) \o Tail(s))[1].from = s[1].from
           /\ (Halves(s[1]) \o Tail(s))[1].to \in s[1].from .. s[1].to - 1
<1> DEFINE f == s[1].from
           m == Middle(s[1])
           l == s[1].to
           t == Halves(s[1]) \o Tail(s)
<1>1. /\ s # <<>> /\ Len(s) \in Nat /\ Len(s) >= 1
      /\ f \in Nat /\ l \in Nat /\ f < l /\ f >= r.from /\ l <= r.to
      /\ s[1] = Range(f, l)
  <2>1. s # <<>> /\ s[1] \in Within(r) /\ Len(s) \in Nat /\ Len(s) >= 1
    BY DEF Covers
  <2>2. f <= l
    BY <2>1 DEF Covers
  <2>3. QED
    BY <2>1, <2>2 DEF Within, Range
<1>2. m \in Nat /\ f <= m /\ m < l
  BY <1>1 DEF Middle
<1>3. Halves(s[1]) = <<Range(f, m), Range(m + 1, l)>>
  BY DEF Halves
<1>4. Range(f, m) \in Within(r) /\ Range(m + 1, l) \in Within(r)
  BY <1>1, <1>2 DEF Within, Range
<1>5. /\ t \in Seq(Within(r)) /\ Len(t) = Len(s) + 1
      /\ t[1] = Range(f, m) /\ t[2] = Range(m + 1, l)
      /\ \A i \in 3 .. Len(t) : t[i] = s[i - 1]
  <2>1. Tail(s) \in Seq(Within(r)) /\ Len(Tail(s)) = Len(s) - 1 /\ \A i \in 1 .. Len(s) - 1 : Tail(s)[i] = s[i + 1]
    BY <1>1
  <2>2. t \in Seq(Within(r)) /\ Len(t) = Len(s) + 1
    BY <1>1, <1>3, <1>4, <2>1
  <2>3. t[1] = Range(f, m) /\ t[2] = Range(m + 1, l)
    BY <1>1, <1>3, <1>4, <2>1
  <2>4. ASSUME NEW i \in 3 .. Len(t) PROVE t[i] = s[i - 1]
    <3>1. t[i] = Tail(s)[i - 2]
      BY <1>1, <1>3, <1>4, <2>1, <2>2
    <3>2. i - 2 \in 1 .. Len(s) - 1
      BY <1>1, <2>2
    <3>3. QED
      BY <3>1, <3>2, <2>1
  <2>5. QED
    BY <2>2, <2>3, <2>4
<1> HIDE DEF t
<1>6. t[Len(t)].to = r.to
  <2>1. CASE Len(s) = 1
    BY <2>1, <1>5, <1>1 DEF Covers, Range
  <2>2. CASE Len(s) > 1
    <3>1. Len(t) \in 3 .. Len(t) /\ Len(t) - 1 = Len(s)
      BY <2>2, <1>5, <1>1
    <3>2. t[Len(t)] = s[Len(s)]
      BY <3>1, <1>5
    <3>3. QED
      BY <3>2 DEF Covers
  <2>3. Len(s) = 1 \/ Len(s) > 1
    <3>1. Len(s) \in Nat /\ Len(s) >= 1
      BY <1>1
    <3> DEFINE n == Len(s)
    <3> HIDE DEF n
    <3>2. n \in Nat /\ n >= 1 => n = 1 \/ n > 1
      OBVIOUS
    <3>3. QED
      BY <3>1, <3>2 DEF n
  <2>4. QED
    BY <2>1, <2>2, <2>3
<1>7. ASSUME NEW i \in 1 .. Len(t) PROVE t[i].from <= t[i].to
  <2>1. CASE i \in {1, 2}
    BY <2>1, <1>5, <1>2, <1>1 DEF Range
  <2>2. CASE i \in 3 .. Len(t)
    <3>1. i - 1 \in 1 .. Len(s) /\ t[i] = s[i - 1]
      BY <2>2, <1>5, <1>1
    <3>2. QED
      BY <3>1 DEF Covers
  <2>3. QED
    BY <2>1, <2>2, <1>5, <1>1
<1>8. ASSUME NEW i \in 1 .. Len(t) - 1 PROVE t[i + 1].from = t[i].to + 1
  <2>1. CASE i = 1
    BY <2>1, <1>5, <1>2, <1>1 DEF Range
  <2>2. CASE i = 2
    <3>1. t[3] = s[2] /\ 1 \in 1 .. Len(s) - 1
      BY <2>2, <1>5, <1>1
    <3>2. s[1 + 1].from = s[1].to + 1
      BY <3>1 DEF Covers
    <3>3. t[i] = Range(m + 1, l) /\ t[i + 1] = s[1 + 1]
      BY <2>2, <3>1, <1>5
    <3>4. QED
      BY <3>2, <3>3 DEF Range
  <2>3. CASE i \in 3 .. Len(t) - 1
    <3>1. i - 1 \in 1 .. Len(s) - 1 /\ t[i] = s[i - 1] /\ t[i + 1] = s[(i - 1) + 1]
      <4>1. i \in 3 .. Len(t) /\ i + 1 \in 3 .. Len(t) /\ (i + 1) - 1 = (i - 1) + 1
        BY <2>3, <1>5, <1>1
      <4>2. i - 1 \in 1 .. Len(s) - 1
        BY <2>3, <1>5, <1>1
      <4>3. t[i] = s[i - 1] /\ t[i + 1] = s[(i + 1) - 1]
        BY <4>1, <1>5
      <4>4. QED
        BY <4>1, <4>2, <4>3
    <3>2. s[(i - 1) + 1].from = s[i - 1].to + 1
      BY <3>1 DEF Covers
    <3>3. QED
      BY <3>1, <3>2
  <2>4. QED
    BY <2>1, <2>2, <2>3, <1>5, <1>1
<1>9. t # <<>> /\ t[1].from = f
  BY <1>5, <1>1 DEF Range
<1>10. t[1].to \in f .. l - 1
  BY <1>1, <1>2, <1>5 DEF Range
<1>11. QED
  BY <1>5, <1>6, <1>7, <1>8, <1>9, <1>10 DEF Covers, t

(* A range that is asked for covers itself.                                *)
LEMMA CoversItself ==
    ASSUME NEW a \in Nat, NEW b \in Nat, a <= b
    PROVE  /\ <<Range(a, b)>> \in Seq(Within(Range(a, b)))
           /\ Covers(<<Range(a, b)>>, a, b)
           /\ BlocksOf(Range(a, a - 1)) = <<>>
BY DEF Within, Range, Covers, BlocksOf

-----------------------------------------------------------------------------
(* A step of the retry keeps its facts, and the range asked for.           *)
LEMMA TryKeeps ==
    ASSUME RetryType, Request1, Try
    PROVE  RetryType' /\ Request1' /\ call' = call
<1> USE RetryConfig DEF RetryType, Request1
<1>1. CASE Answer
  BY <1>1 DEF Answer, Calls
<1>2. CASE TransientError
  BY <1>2 DEF TransientError, AfterError, Exhausted, LogsOfBlock, LogsOfRange, Endless, Calls
<1>3. CASE PermanentError
  BY <1>3 DEF PermanentError, AfterError, Exhausted, LogsOfBlock, LogsOfRange, Endless, Calls
<1>4. CASE WakeUp
  BY <1>4 DEF WakeUp, Calls
<1>5. QED
  BY <1>1, <1>2, <1>3, <1>4 DEF Try

(* A new request of get_logs, for any range.                               *)
LEMMA NewCallKeeps ==
    ASSUME RetryType, NEW r, NewCall(CallFor(r))
    PROVE  RetryType' /\ Request1' /\ call' = CallFor(r)
BY RetryConfig DEF RetryType, Request1, NewCall, CallFor, Calls

(* The steps of get_logs keep its invariant and leave the range alone.     *)
LEMMA GetLogsStepKeeps ==
    ASSUME GetLogsInv, GetLogsStep
    PROVE  GetLogsInv' /\ asked' = asked /\ outcome' # "idle"
<1> DEFINE R == Within(asked)
<1>1. /\ asked \in [from : Nat, to : Nat] /\ asked.from \in Nat /\ asked.to \in Nat
      /\ todo \in Seq(R) /\ got \in Seq(asked.from .. asked.to)
      /\ asked = Range(asked.from, asked.to)
  BY DEF GetLogsInv, GetLogsType, Within, Range
<1>2. CASE Ask
  <2>1. RetryType' /\ Request1' /\ call' = call
    BY <1>2, TryKeeps DEF GetLogsInv, GetLogsType, Ask
  <2>2. UNCHANGED <<asked, todo, got, outcome>> /\ outcome = "running"
    BY <1>2 DEF Ask
  <2>3. GetLogsType' /\ Running'
    BY <2>1, <2>2 DEF GetLogsInv, GetLogsType, Running, Next1
  <2>4. ResultComplete' /\ RefusesOneBlock'
    BY <2>2 DEF ResultComplete, RefusesOneBlock
  <2>5. QED
    BY <2>1, <2>2, <2>3, <2>4 DEF GetLogsInv
<1>3. ASSUME outcome = "running"
      PROVE  /\ Covers(todo, Next1.from, asked.to)
             /\ todo # <<>> /\ Len(todo) \in Nat /\ Len(todo) >= 1 /\ Next1 \in R
             /\ Next1.from \in asked.from .. asked.to /\ Next1.to \in asked.from .. asked.to
             /\ Next1.from <= Next1.to
             /\ got = BlocksOf(Range(asked.from, Next1.from - 1))
             /\ Next1 = Range(Next1.from, Next1.to)
  <2>1. Covers(todo, Next1.from, asked.to) /\ got = BlocksOf(Range(asked.from, Next1.from - 1))
    BY <1>3 DEF GetLogsInv, Running
  <2>2. todo # <<>> /\ Len(todo) \in Nat /\ Len(todo) >= 1
    BY <2>1, <1>1 DEF Covers
  <2>3. Next1 \in R
    BY <2>2, <1>1 DEF Next1
  <2>4. Next1.from <= Next1.to
    BY <2>1, <2>2 DEF Covers, Next1
  <2>5. QED
    BY <2>1, <2>2, <2>3, <2>4 DEF Within, Range
<1>4. CASE Fetched
  <2>1. outcome = "running" /\ asked' = asked /\ GoOn(Tail(todo)) /\ got' = got \o BlocksOf(Next1)
    BY <1>4 DEF Fetched
  <2>2. got' = BlocksOf(Range(asked.from, Next1.to))
    <3>1. Next1.from \in Nat /\ Next1.from - 1 \in Int /\ asked.from <= (Next1.from - 1) + 1
          /\ (Next1.from - 1) + 1 = Next1.from /\ Next1.to \in Nat /\ Next1.from - 1 <= Next1.to
      BY <2>1, <1>3, <1>1
    <3>2. BlocksOf(Range(asked.from, Next1.from - 1)) \o BlocksOf(Range((Next1.from - 1) + 1, Next1.to))
            = BlocksOf(Range(asked.from, Next1.to))
      BY <3>1, <1>1, BlocksInARow
    <3>3. QED
      BY <3>1, <3>2, <2>1, <1>3
  <2>3. got' \in Seq(asked.from .. asked.to)
    <3>1. /\ Next1.to \in Int /\ asked.from <= Next1.to + 1
          /\ asked.from .. Next1.to \subseteq asked.from .. asked.to
      BY <2>1, <1>3, <1>1
    <3>2. QED
      BY <3>1, <2>2, <1>1, BlockAt
  <2>4. CASE Tail(todo) = <<>>
    <3>1. todo' = <<>> /\ outcome' = "returned" /\ UNCHANGED retryVars
      BY <2>1, <2>4 DEF GoOn
    <3>2. Len(todo) = 1
      <4>1. Len(Tail(todo)) = Len(todo) - 1
        BY <2>1, <1>3, <1>1
      <4>2. Len(Tail(todo)) = 0
        BY <2>4
      <4>3. QED
        BY <4>1, <4>2, <2>1, <1>3
    <3>3. Next1.to = asked.to
      BY <3>2, <2>1, <1>3 DEF Covers, Next1
    <3>4. GetLogsType'
      BY <3>1, <2>1, <2>3, <1>1 DEF GetLogsInv, GetLogsType, RetryType, retryVars
    <3>5. Request1' /\ Running' /\ RefusesOneBlock'
      BY <3>1 DEF GetLogsInv, Request1, Running, RefusesOneBlock, retryVars
    <3>6. ResultComplete'
      BY <3>3, <2>1, <2>2, <1>1 DEF ResultComplete
    <3>7. QED
      BY <3>1, <3>4, <3>5, <3>6, <2>1 DEF GetLogsInv
  <2>5. CASE Tail(todo) # <<>>
    <3>1. todo' = Tail(todo) /\ outcome' = "running" /\ NewCall(CallFor(Tail(todo)[1]))
      BY <2>1, <2>5 DEF GoOn
    <3>2. Tail(todo) \in Seq(R) /\ Covers(Tail(todo), Next1.to + 1, asked.to)
      BY <2>5, <2>1, <1>1, <1>3, CoversTail DEF Next1
    <3>3. RetryType' /\ Request1' /\ call' = CallFor(Tail(todo)[1])
      BY <3>1, NewCallKeeps DEF GetLogsInv, GetLogsType
    <3>4. Next1' = Tail(todo)[1] /\ Next1'.from = Next1.to + 1 /\ (Next1.to + 1) - 1 = Next1.to
      <4>1. Next1' = Tail(todo)[1]
        BY <3>1 DEF Next1
      <4>2. Tail(todo)[1].from = Next1.to + 1
        BY <3>2 DEF Covers
      <4>3. Next1.to \in Int
        BY <2>1, <1>3, <1>1
      <4>4. (Next1.to + 1) - 1 = Next1.to
        BY <4>3
      <4>5. Next1'.from = Next1.to + 1
        BY <4>1, <4>2
      <4>6. QED
        BY <4>1, <4>4, <4>5
    <3>5. Running'
      BY <3>1, <3>2, <3>3, <3>4, <2>1, <2>2 DEF Running
    <3>6. GetLogsType'
      BY <3>1, <3>2, <3>3, <2>1, <2>3, <1>1 DEF GetLogsType, Within
    <3>7. ResultComplete' /\ RefusesOneBlock'
      BY <3>1 DEF ResultComplete, RefusesOneBlock
    <3>8. QED
      BY <3>1, <3>3, <3>5, <3>6, <3>7, <2>1 DEF GetLogsInv
  <2>6. QED
    BY <2>4, <2>5
<1>5. CASE Divide
  <2> DEFINE h == Halves(Next1) \o Tail(todo)
  <2>1. outcome = "running" /\ asked' = asked /\ got' = got /\ GoOn(h) /\ Next1.from # Next1.to
    BY <1>5 DEF Divide
  <2>2. h \in Seq(R) /\ Covers(h, Next1.from, asked.to) /\ h[1].from = Next1.from
    BY <2>1, <1>1, <1>3, CoversHalves DEF Next1
  <2> HIDE DEF h
  <2>3. h # <<>>
    BY <2>2 DEF Covers
  <2>4. todo' = h /\ outcome' = "running" /\ NewCall(CallFor(h[1]))
    BY <2>1, <2>3 DEF GoOn
  <2>5. RetryType' /\ Request1' /\ call' = CallFor(h[1])
    BY <2>4, NewCallKeeps DEF GetLogsInv, GetLogsType
  <2>6. Running'
    BY <2>1, <2>2, <2>4, <2>5, <1>3 DEF Running, Next1
  <2>7. GetLogsType'
    BY <2>1, <2>2, <2>4, <2>5, <1>1 DEF GetLogsType, Within
  <2>8. ResultComplete' /\ RefusesOneBlock'
    BY <2>4 DEF ResultComplete, RefusesOneBlock
  <2>9. QED
    BY <2>1, <2>4, <2>5, <2>6, <2>7, <2>8 DEF GetLogsInv
<1>6. CASE Fail
  <2>1. /\ outcome = "running" /\ UNCHANGED <<retryVars, asked, todo, got>>
        /\ outcome' \in {"failed", "overflowed"}
        /\ outcome' = "failed" => retry = "failed" /\ Next1.from = Next1.to
    BY <1>6 DEF Fail
  <2>2. GetLogsType' /\ Request1' /\ Running' /\ ResultComplete'
    BY <2>1 DEF GetLogsInv, GetLogsType, RetryType, Request1, Running, ResultComplete, retryVars
  <2>3. RefusesOneBlock'
    <3>1. CASE outcome' = "failed"
      <4>1. call = LogsOfBlock /\ retry = "failed"
        BY <3>1, <2>1 DEF GetLogsInv, Running, CallFor
      <4>2. attempt >= CallAttempts /\ permanents > 0
        BY <4>1 DEF GetLogsInv, Request1
      <4>3. QED
        BY <4>2, <3>1, <2>1 DEF RefusesOneBlock, Next1, retryVars
    <3>2. CASE outcome' # "failed"
      BY <3>2 DEF RefusesOneBlock
    <3>3. QED
      BY <3>1, <3>2
  <2>4. QED
    BY <2>1, <2>2, <2>3 DEF GetLogsInv
<1>7. QED
  BY <1>2, <1>4, <1>5, <1>6 DEF GetLogsStep

(* A new call of get_logs.                                                 *)
LEMMA RequestKeeps ==
    ASSUME GetLogsInv, NEW a \in Nat, NEW b \in Nat, a <= b, Request(a, b)
    PROVE  GetLogsInv'
<1>1. /\ asked' = Range(a, b) /\ todo' = <<Range(a, b)>> /\ got' = <<>> /\ outcome' = "running"
      /\ NewCall(CallFor(Range(a, b)))
  BY DEF Request
<1>2. /\ <<Range(a, b)>> \in Seq(Within(Range(a, b)))
      /\ Covers(<<Range(a, b)>>, a, b)
      /\ BlocksOf(Range(a, a - 1)) = <<>>
  BY CoversItself
<1>3. RetryType' /\ Request1' /\ call' = CallFor(Range(a, b))
  BY <1>1, NewCallKeeps DEF GetLogsInv, GetLogsType
<1>4. asked'.from = a /\ asked'.to = b /\ asked' \in [from : Nat, to : Nat] /\ Next1' = Range(a, b) /\ Next1'.from = a
  BY <1>1 DEF Range, Next1
<1>5. GetLogsType'
  BY <1>1, <1>2, <1>3, <1>4 DEF GetLogsType, Within
<1>6. Running'
  BY <1>1, <1>2, <1>3, <1>4 DEF Running
<1>7. ResultComplete' /\ RefusesOneBlock'
  BY <1>1 DEF ResultComplete, RefusesOneBlock
<1>8. QED
  BY <1>3, <1>4, <1>5, <1>6, <1>7 DEF GetLogsInv

-----------------------------------------------------------------------------
(* A batch begins and ends inside the range, and is never empty.           *)
LEMMA BatchBounds ==
    ASSUME TypeOK, start <= To
    PROVE  BatchEnd \in Nat /\ start <= BatchEnd /\ BatchEnd <= To
BY ReplayConfig DEF TypeOK, BatchEnd

(* The place in a sequence of blocks at which a block is.                  *)
LEMMA FetchedHasLogs ==
    ASSUME GetLogsInv, outcome = "returned", NEW b \in asked.from .. asked.to
    PROVE  HasLogs(b)
<1>1. asked.from \in Nat /\ asked.to \in Nat /\ asked.from <= asked.to + 1
      /\ asked = Range(asked.from, asked.to)
  BY DEF GetLogsInv, GetLogsType, Range
<1>2. got = BlocksOf(Range(asked.from, asked.to))
  BY <1>1 DEF GetLogsInv, ResultComplete
<1>3. /\ got \in Seq(Nat) /\ Len(got) = asked.to - asked.from + 1
      /\ \A i \in 1 .. asked.to - asked.from + 1 : got[i] = asked.from + i - 1
  BY <1>1, <1>2, BlockAt, asked.from .. asked.to \subseteq Nat, asked.to \in Int
<1> DEFINE i == b - asked.from + 1
<1>4. i \in 1 .. asked.to - asked.from + 1 /\ asked.from + i - 1 = b
  BY <1>1
<1>5. i \in DOMAIN got /\ got[i] = b
  BY <1>3, <1>4
<1>6. QED
  BY <1>5 DEF HasLogs

(* A sequence with one more element.                                       *)
LEMMA OneMore ==
    ASSUME NEW T, NEW s \in Seq(T), NEW e \in T
    PROVE  /\ Append(s, e) \in Seq(T)
           /\ Len(Append(s, e)) = Len(s) + 1
           /\ \A i \in 1 .. Len(s) : Append(s, e)[i] = s[i]
           /\ Append(s, e)[Len(s) + 1] = e
           /\ Len(s) \in Nat
OBVIOUS

(* One more block in its turn.                                             *)
LEMMA AppendInOrder ==
    ASSUME NEW s \in Seq((From .. To) \X BOOLEAN), NEW b \in From .. To, Len(s) = b - From,
           \A i \in 1 .. Len(s) : s[i] = <<From + i - 1, TRUE>>
    PROVE  /\ Append(s, <<b, TRUE>>) \in Seq((From .. To) \X BOOLEAN)
           /\ Len(Append(s, <<b, TRUE>>)) = b + 1 - From
           /\ \A i \in 1 .. Len(Append(s, <<b, TRUE>>)) :
                 Append(s, <<b, TRUE>>)[i] = <<From + i - 1, TRUE>>
<1> DEFINE e == <<b, TRUE>>
           t == Append(s, e)
           T == (From .. To) \X BOOLEAN
<1>1. From \in Nat /\ To \in Nat
  BY ReplayConfig
<1>2. s \in Seq(T) /\ e \in T
  OBVIOUS
<1> HIDE DEF e, T
<1>3. /\ t \in Seq(T) /\ Len(t) = Len(s) + 1 /\ Len(s) \in Nat
      /\ \A i \in 1 .. Len(s) : t[i] = s[i]
      /\ t[Len(s) + 1] = e
  BY <1>2, OneMore
<1> HIDE DEF t
<1>4. ASSUME NEW i \in 1 .. Len(t) PROVE t[i] = <<From + i - 1, TRUE>>
  <2>1. CASE i \in 1 .. Len(s)
    BY <2>1, <1>3
  <2>2. CASE i = Len(s) + 1
    <3>1. From + i - 1 = b
      BY <2>2, <1>1
    <3>2. QED
      BY <2>2, <3>1, <1>3 DEF e
  <2>3. i \in 1 .. Len(s) \/ i = Len(s) + 1
    BY <1>3
  <2>4. QED
    BY <2>1, <2>2, <2>3
<1>5. Len(t) = b + 1 - From
  BY <1>1, <1>3
<1>6. QED
  BY <1>3, <1>4, <1>5 DEF t, e, T

(* The invariant holds at the start.                                       *)
LEMMA InitIInv == Init => IInv
<1> SUFFICES ASSUME Init PROVE IInv
  OBVIOUS
<1>1. PICK n \in BatchSettings : batch = AtLeastOne(n)
  BY DEF Init
<1>2. batch \in Nat \ {0}
  BY <1>1, ReplayConfig DEF AtLeastOne
<1>3. asked = Range(0, 0) /\ asked.from = 0 /\ asked.to = 0 /\ todo = <<>> /\ got = <<>> /\ outcome = "idle"
  BY DEF Init, GetLogsInit, Range
<1>4. RetryType /\ Request1
  BY RetryConfig DEF Init, GetLogsInit, RetryInit, RetryType, Request1, Calls
<1>5. GetLogsType
  BY <1>3, <1>4 DEF GetLogsType, Range
<1>6. GetLogsInv
  BY <1>3, <1>4, <1>5 DEF GetLogsInv, Running, ResultComplete, RefusesOneBlock
<1>7. /\ replay = "starting" /\ start = From /\ block = From /\ processed = <<>>
      /\ From \in From .. To + 1
  BY ReplayConfig DEF Init
<1>8. TypeOK
  BY <1>2, <1>5, <1>7 DEF TypeOK
<1>9. Progress /\ ReplayedOnce
  BY <1>7, ReplayConfig DEF Progress, ReplayedOnce
<1>10. QED
  BY <1>6, <1>8, <1>9 DEF IInv

(* What the steps of replay that leave get_logs alone keep.                *)
LEMMA GetLogsUntouched ==
    ASSUME GetLogsInv, UNCHANGED getLogsVars
    PROVE  GetLogsInv'
BY DEF GetLogsInv, GetLogsType, RetryType, Request1, Running, ResultComplete, RefusesOneBlock,
       Next1, getLogsVars, retryVars

(* Every step keeps it: one case for each action.                          *)
LEMMA NextIInv == IInv /\ [Next]_vars => IInv'
<1> SUFFICES ASSUME IInv, [Next]_vars PROVE IInv'
  OBVIOUS
<1> USE ReplayConfig
<1>1. CASE Start
  <2>1. UNCHANGED getLogsVars /\ UNCHANGED <<batch, start, block, processed>>
        /\ replay = "starting" /\ replay' = "loop"
    BY <1>1 DEF Start
  <2>2. GetLogsInv'
    BY <2>1, GetLogsUntouched DEF IInv
  <2>3. TypeOK'
    BY <2>1, <2>2 DEF IInv, GetLogsInv, TypeOK
  <2>4. Progress'
    BY <2>1, <2>2 DEF IInv, Progress
  <2>5. ReplayedOnce'
    BY <2>1 DEF IInv, ReplayedOnce
  <2>6. QED
    BY <2>2, <2>3, <2>4, <2>5 DEF IInv
<1>2. CASE Fetch
  <2>1. /\ replay = "loop" /\ start <= To /\ Request(start, BatchEnd)
        /\ replay' = "fetching" /\ UNCHANGED <<batch, start, block, processed>>
    BY <1>2 DEF Fetch
  <2>2. BatchEnd \in Nat /\ start <= BatchEnd /\ BatchEnd <= To /\ start \in Nat
    BY <2>1, BatchBounds DEF IInv, TypeOK
  <2>3. GetLogsInv'
    BY <2>1, <2>2, RequestKeeps DEF IInv
  <2>4. asked'.from = start /\ asked'.to = BatchEnd /\ outcome' = "running"
    BY <2>1 DEF Request, Range
  <2>5. TypeOK' /\ Progress' /\ ReplayedOnce'
    BY <2>1, <2>2, <2>3, <2>4 DEF IInv, GetLogsInv, TypeOK, Progress, ReplayedOnce
  <2>6. QED
    BY <2>3, <2>5 DEF IInv
<1>3. CASE Fetching
  <2>1. replay = "fetching" /\ GetLogsStep /\ UNCHANGED <<replay, batch, start, block, processed>>
    BY <1>3 DEF Fetching, replayVars
  <2>2. GetLogsInv' /\ asked' = asked /\ outcome' # "idle"
    BY <2>1, GetLogsStepKeeps DEF IInv
  <2>3. TypeOK'
    BY <2>1, <2>2 DEF IInv, GetLogsInv, TypeOK
  <2>4. Progress'
    BY <2>1, <2>2 DEF IInv, Progress
  <2>5. ReplayedOnce'
    BY <2>1 DEF IInv, ReplayedOnce
  <2>6. QED
    BY <2>2, <2>3, <2>4, <2>5 DEF IInv
<1>4. CASE BatchFetched
  <2>1. /\ replay = "fetching" /\ outcome = "returned" /\ replay' = "processing" /\ block' = start
        /\ UNCHANGED getLogsVars /\ UNCHANGED <<asked, outcome, batch, start, processed>>
    BY <1>4 DEF BatchFetched, getLogsVars
  <2>2. GetLogsInv'
    BY <2>1, GetLogsUntouched DEF IInv
  <2>3. TypeOK'
    BY <2>1, <2>2 DEF IInv, GetLogsInv, TypeOK
  <2>4. Progress'
    <3>1. asked.from = start /\ start <= asked.to /\ asked.to <= To /\ Len(processed) = start - From
      BY <2>1 DEF IInv, Progress
    <3>2. start \in Int
      BY DEF IInv, TypeOK
    <3>3. QED
      BY <2>1, <3>1, <3>2 DEF Progress
  <2>5. ReplayedOnce'
    BY <2>1 DEF IInv, ReplayedOnce
  <2>6. QED
    BY <2>2, <2>3, <2>4, <2>5 DEF IInv
<1>5. CASE ProcessBlock
  <2>1. /\ replay = "processing" /\ processed' = Append(processed, <<block, HasLogs(block)>>)
        /\ block' = block + 1 /\ UNCHANGED getLogsVars /\ UNCHANGED <<asked, outcome, batch>>
        /\ block = asked.to => replay' = "loop" /\ start' = AfterBatch
        /\ block # asked.to => replay' = replay /\ start' = start
    BY <1>5 DEF ProcessBlock, getLogsVars
  <2>2. /\ outcome = "returned" /\ asked.from = start /\ start <= block /\ block <= asked.to /\ asked.to <= To
        /\ Len(processed) = block - From /\ asked.to \in Nat /\ asked.from \in Nat
        /\ block \in From .. To /\ start \in From .. To + 1
    BY <2>1 DEF IInv, Progress, TypeOK, GetLogsType
  <2>3. HasLogs(block) = TRUE
    <3>1. block \in asked.from .. asked.to
      BY <2>2
    <3>2. HasLogs(block)
      BY <3>1, <2>2, FetchedHasLogs DEF IInv
    <3>3. QED
      BY <3>2 DEF HasLogs
  <2>4. /\ processed' \in Seq((From .. To) \X BOOLEAN)
        /\ Len(processed') = block + 1 - From
        /\ \A i \in 1 .. Len(processed') : processed'[i] = <<From + i - 1, TRUE>>
    <3>1. processed' = Append(processed, <<block, TRUE>>)
      BY <2>1, <2>3
    <3>2. processed \in Seq((From .. To) \X BOOLEAN)
          /\ \A i \in 1 .. Len(processed) : processed[i] = <<From + i - 1, TRUE>>
      BY DEF IInv, TypeOK, ReplayedOnce
    <3>3. QED
      BY <3>1, <3>2, <2>2, AppendInOrder
  <2>5. GetLogsInv'
    BY <2>1, GetLogsUntouched DEF IInv
  <2>6. TypeOK'
    BY <2>1, <2>2, <2>4, <2>5 DEF IInv, GetLogsInv, TypeOK, AfterBatch
  <2>7. Progress'
    BY <2>1, <2>2, <2>4 DEF IInv, Progress, AfterBatch
  <2>8. ReplayedOnce'
    BY <2>1, <2>4 DEF ReplayedOnce
  <2>9. QED
    BY <2>5, <2>6, <2>7, <2>8 DEF IInv
<1>6. CASE Finish
  <2>1. /\ replay = "loop" /\ start > To /\ replay' = "finished"
        /\ UNCHANGED getLogsVars /\ UNCHANGED <<batch, start, block, processed>>
    BY <1>6 DEF Finish
  <2>2. GetLogsInv'
    BY <2>1, GetLogsUntouched DEF IInv
  <2>3. TypeOK'
    BY <2>1, <2>2 DEF IInv, GetLogsInv, TypeOK
  <2>4. start = To + 1
    BY <2>1 DEF IInv, TypeOK
  <2>5. Len(processed) = To - From + 1
    BY <2>1, <2>4 DEF IInv, Progress
  <2>6. Progress'
    BY <2>1, <2>4 DEF IInv, Progress
  <2>7. ReplayedOnce'
    BY <2>1, <2>5 DEF IInv, ReplayedOnce
  <2>8. QED
    BY <2>2, <2>3, <2>6, <2>7 DEF IInv
<1>7. CASE Die
  <2>1. /\ replay' = "died" /\ UNCHANGED getLogsVars /\ UNCHANGED <<batch, start, block, processed>>
    BY <1>7 DEF Die
  <2>2. GetLogsInv'
    BY <2>1, GetLogsUntouched DEF IInv
  <2>3. TypeOK'
    BY <2>1, <2>2 DEF IInv, GetLogsInv, TypeOK
  <2>4. Progress'
    BY <2>1 DEF IInv, Progress
  <2>5. ReplayedOnce'
    BY <2>1 DEF IInv, ReplayedOnce
  <2>6. QED
    BY <2>2, <2>3, <2>4, <2>5 DEF IInv
<1>8. CASE UNCHANGED vars
  <2>1. UNCHANGED getLogsVars /\ UNCHANGED <<asked, outcome, replay, batch, start, block, processed>>
    BY <1>8 DEF vars, replayVars, getLogsVars
  <2>2. GetLogsInv'
    BY <2>1, GetLogsUntouched DEF IInv
  <2>3. TypeOK'
    BY <2>1, <2>2 DEF IInv, GetLogsInv, TypeOK
  <2>4. Progress'
    BY <2>1 DEF IInv, Progress
  <2>5. ReplayedOnce'
    BY <2>1 DEF IInv, ReplayedOnce
  <2>6. QED
    BY <2>2, <2>3, <2>4, <2>5 DEF IInv
<1>9. QED
  BY <1>1, <1>2, <1>3, <1>4, <1>5, <1>6, <1>7, <1>8 DEF Next, Step, Ended

(* The invariant holds in every state of every run.                        *)
THEOREM Inductive == Spec => []IInv
BY InitIInv, NextIInv, PTL DEF Spec

(* The variables keep their types: in particular every batch begins within *)
(* the range or just behind it (runner.py:94-108).                         *)
THEOREM TypeCorrect == Spec => []TypeOK
<1>1. IInv => TypeOK
  BY DEF IInv
<1>2. QED
  BY <1>1, Inductive, PTL

(* get_logs returns every block of its range once and in order, however    *)
(* the provider makes it cut the range (rpc.py:166-188).                   *)
THEOREM LogsComplete == Spec => []ResultComplete
<1>1. IInv => ResultComplete
  BY DEF IInv, GetLogsInv
<1>2. QED
  BY <1>1, Inductive, PTL

(* Only one block is ever refused, after all attempts (rpc.py:166-188).    *)
THEOREM OnlyOneBlockRefused == Spec => []RefusesOneBlock
<1>1. IInv => RefusesOneBlock
  BY DEF IInv, GetLogsInv
<1>2. QED
  BY <1>1, Inductive, PTL

(* Replay gives the engine the blocks of its range in order, each once and *)
(* with its logs, and all of them if it finishes (runner.py:94-108).       *)
THEOREM ReplayExact == Spec => []ReplayedOnce
<1>1. IInv => ReplayedOnce
  BY DEF IInv
<1>2. QED
  BY <1>1, Inductive, PTL

-----------------------------------------------------------------------------
(* One retry_async by itself, with the arguments of any call.              *)

OneCall == (\E c \in Calls : RetryInit(c)) /\ [][Try \/ Revert]_retryVars

(* How it may end.  The attempts are counted from 1, and a pause follows   *)
(* only an attempt whose number a float could still be raised to.          *)
Endings ==
    /\ retry = "overflowed" => FloatBase /\ attempt = MaxExponent + 2
    /\ retry = "failed" =>
          /\ call.attempts # Endless /\ attempt >= call.attempts
          /\ call.forever => permanents > 0
    /\ retry = "reverted" => call.mayRevert

RetryInv ==
    /\ RetryType
    /\ FloatBase => attempt <= MaxExponent + 2
    /\ retry = "sleeping" /\ FloatBase => attempt <= MaxExponent + 1
    /\ Endings

LEMMA TryEnds ==
    ASSUME RetryInv, Try \/ Revert
    PROVE  RetryInv'
<1> USE RetryConfig DEF RetryInv, RetryType, Endings
<1>1. CASE Answer \/ Revert
  BY <1>1 DEF Answer, Revert
<1>2. CASE TransientError
  BY <1>2 DEF TransientError, AfterError, Exhausted, Overflows
<1>3. CASE PermanentError
  BY <1>3 DEF PermanentError, AfterError, Exhausted, Overflows
<1>4. CASE WakeUp
  BY <1>4 DEF WakeUp
<1>5. QED
  BY <1>1, <1>2, <1>3, <1>4 DEF Try

(* A call ends with an answer, a revert, a refusal after all attempts, of  *)
(* which a call that outlasts transient errors had a permanent one, or the *)
(* overflow of its pause, at exactly the attempt that no float can be      *)
(* raised to (rpc.py:30-84).                                               *)
THEOREM CallsEndSo == OneCall => []Endings
<1>1. (\E c \in Calls : RetryInit(c)) => RetryInv
  BY RetryConfig DEF RetryInit, RetryInv, RetryType, Endings
<1>2. RetryInv /\ [Try \/ Revert]_retryVars => RetryInv'
  BY TryEnds DEF RetryInv, RetryType, Endings, retryVars
<1>3. RetryInv => Endings
  BY DEF RetryInv
<1>4. QED
  BY <1>1, <1>2, <1>3, PTL DEF OneCall

(* rpc.py:55: a call without a limit is tried for ever, provided that the  *)
(* base of its pauses is no float.                                         *)
THEOREM TriedForEver ==
    ASSUME ~ FloatBase
    PROVE  OneCall => []NeverGivesUp
<1>1. (\E c \in Calls : RetryInit(c)) => RetryInv
  BY RetryConfig DEF RetryInit, RetryInv, RetryType, Endings
<1>2. RetryInv /\ [Try \/ Revert]_retryVars => RetryInv'
  BY TryEnds DEF RetryInv, RetryType, Endings, retryVars
<1>3. RetryInv => NeverGivesUp
  BY DEF RetryInv, RetryType, Endings, NeverGivesUp, BlockNumber
<1>4. QED
  BY <1>1, <1>2, <1>3, PTL DEF OneCall
-----------------------------------------------------------------------------
(* Why a replay ends: every step leaves less to do, in this order.  The    *)
(* provider has fewer transient failures to show; fewer blocks are to be   *)
(* fetched; the batch is further; fewer blocks of it are left; the range   *)
(* that is asked for is shorter; its request has fewer attempts.           *)

Stage ==
    CASE replay = "starting" -> 4 [] replay = "loop" -> 3 [] replay = "fetching" -> 2
      [] replay = "processing" -> 1 [] replay \in {"finished", "died"} -> 0

Fetches == replay = "fetching" /\ outcome = "running"

BlocksLeft ==
    CASE Fetches -> asked.to + 1 - Next1.from
      [] replay = "processing" -> asked.to + 1 - block
      [] OTHER -> 0

Width == IF Fetches THEN Next1.to - Next1.from ELSE 0

AtLeast(n, m) == IF n < m THEN m ELSE n

TriesLeft ==
    CASE retry = "trying" -> 2 * AtLeast(call.attempts - attempt, 0) + 1
      [] retry = "sleeping" -> 2 * AtLeast(call.attempts - attempt, 1)
      [] OTHER -> 0

Left == <<MaxTransient - transients, To + 1 - start, Stage, BlocksLeft, Width, TriesLeft>>

Less(l, m) == \E i \in 1 .. 6 : l[i] < m[i] /\ \A j \in 1 .. i - 1 : l[j] = m[j]

LEMMA LessIs ==
    ASSUME NEW l, NEW m,
           \/ l[1] < m[1]
           \/ /\ l[1] = m[1]
              /\ \/ l[2] < m[2]
                 \/ /\ l[2] = m[2]
                    /\ \/ l[3] < m[3]
                       \/ /\ l[3] = m[3]
                          /\ \/ l[4] < m[4]
                             \/ l[4] = m[4] /\ l[5] < m[5]
                             \/ l[4] = m[4] /\ l[5] = m[5] /\ l[6] < m[6]
    PROVE  Less(l, m)
<1>1. PICK i \in 1 .. 6 :
         /\ l[i] < m[i]
         /\ i > 1 => l[1] = m[1]
         /\ i > 2 => l[2] = m[2]
         /\ i > 3 => l[3] = m[3]
         /\ i > 4 => l[4] = m[4]
         /\ i > 5 => l[5] = m[5]
  OBVIOUS
<1>2. ASSUME NEW j \in 1 .. i - 1 PROVE l[j] = m[j]
  <2>1. j \in 1 .. 5 /\ j < i
    OBVIOUS
  <2>2. j = 1 \/ j = 2 \/ j = 3 \/ j = 4 \/ j = 5
    BY <2>1
  <2>3. QED
    BY <2>1, <2>2, <1>1
<1>3. QED
  BY <1>1, <1>2 DEF Less

(* The numbers of a state, all of them natural.                            *)
LEMMA RangeLeft ==
    ASSUME IInv, Fetches
    PROVE  /\ asked.to \in Nat /\ Next1.from \in Nat /\ Next1.to \in Nat
           /\ Next1.from <= Next1.to /\ Next1.to <= asked.to
           /\ todo \in Seq(Within(asked)) /\ Covers(todo, todo[1].from, asked.to)
           /\ asked \in [from : Nat, to : Nat]
<1>1. /\ asked \in [from : Nat, to : Nat] /\ todo \in Seq(Within(asked)) /\ Covers(todo, Next1.from, asked.to)
  BY DEF IInv, GetLogsInv, GetLogsType, Running, Fetches, Within
<1>2. todo # <<>> /\ Len(todo) \in Nat /\ Len(todo) >= 1
  BY <1>1 DEF Covers
<1>3. Next1 \in Within(asked) /\ Next1.from <= Next1.to
  BY <1>1, <1>2 DEF Next1, Covers
<1>4. QED
  BY <1>1, <1>3 DEF Within, Next1

LEMMA LeftNatural ==
    ASSUME IInv
    PROVE  /\ MaxTransient - transients \in Nat /\ To + 1 - start \in Nat /\ Stage \in 0 .. 4
           /\ BlocksLeft \in Nat /\ Width \in Nat /\ TriesLeft \in Nat
<1>1. RetryType /\ TypeOK /\ Progress
  BY DEF IInv, GetLogsInv, GetLogsType
<1>2. MaxTransient - transients \in Nat /\ To + 1 - start \in Nat /\ Stage \in 0 .. 4
  <2>1. MaxTransient - transients \in Nat
    BY <1>1, RetryConfig DEF RetryType
  <2>2. To + 1 - start \in Nat
    BY <1>1, ReplayConfig DEF TypeOK
  <2>3. Stage \in 0 .. 4
    BY <1>1 DEF TypeOK, Stage
  <2>4. QED
    BY <2>1, <2>2, <2>3
<1>3. Width \in Nat /\ (Fetches => BlocksLeft \in Nat)
  <2>1. CASE Fetches
    <3>1. Width = Next1.to - Next1.from /\ BlocksLeft = asked.to + 1 - Next1.from
      BY <2>1 DEF Width, BlocksLeft, Fetches
    <3>2. Next1.from \in Nat /\ Next1.to \in Nat /\ asked.to \in Nat
      BY <2>1, RangeLeft
    <3>3. Next1.from <= Next1.to /\ Next1.to <= asked.to
      BY <2>1, RangeLeft
    <3>4. QED
      BY <3>1, <3>2, <3>3
  <2>2. CASE ~ Fetches
    BY <2>2 DEF Width
  <2>3. QED
    BY <2>1, <2>2
<1>4. ASSUME ~ Fetches PROVE BlocksLeft \in Nat
  <2>1. replay = "processing" => block \in Nat /\ asked.to \in Nat /\ block <= asked.to
    BY <1>1, ReplayConfig DEF TypeOK, GetLogsType, Progress
  <2>2. QED
    BY <1>4, <2>1 DEF BlocksLeft
<1>5. TriesLeft \in Nat
  <2>1. call.attempts \in Nat /\ attempt \in Nat
    BY <1>1, RetryConfig DEF RetryType, Calls, BlockNumber, BlockTimestamp, TxSender, EthCall, LogsOfBlock,
       LogsOfRange, Endless
  <2>2. AtLeast(call.attempts - attempt, 0) \in Nat /\ AtLeast(call.attempts - attempt, 1) \in Nat
    BY <2>1 DEF AtLeast
  <2>3. QED
    BY <2>2 DEF TriesLeft
<1>6. QED
  BY <1>2, <1>3, <1>4, <1>5

(* A step of the retry uses up a transient failure or an attempt.          *)
LEMMA TryLeaves ==
    ASSUME RetryType, Request1, Try
    PROVE  \/ transients' = transients + 1
           \/ transients' = transients /\ TriesLeft' < TriesLeft
<1>1. /\ call.attempts \in Nat \ {0} /\ attempt \in Nat
      /\ call' = call /\ call.attempts # Endless
  BY RetryConfig, TryKeeps DEF RetryType, Request1, LogsOfBlock, LogsOfRange, Endless
<1> DEFINE n == call.attempts - attempt
<1>2. n \in Int
  BY <1>1
<1>3. CASE Answer
  <2>1. retry = "trying" /\ TriesLeft = 2 * AtLeast(n, 0) + 1 /\ TriesLeft' = 0 /\ transients' = transients
    BY <1>3 DEF Answer, TriesLeft
  <2> HIDE DEF n
  <2>2. QED
    BY <2>1, <1>2 DEF AtLeast
<1>4. CASE TransientError
  BY <1>4 DEF TransientError
<1>5. CASE PermanentError
  <2>1. retry = "trying" /\ TriesLeft = 2 * AtLeast(n, 0) + 1 /\ transients' = transients /\ attempt' = attempt
    BY <1>5 DEF PermanentError, TriesLeft
  <2>2. CASE retry' = "sleeping"
    <3>1. n >= 1
      BY <1>1, <1>5, <2>2 DEF PermanentError, AfterError, Exhausted
    <3>2. TriesLeft' = 2 * AtLeast(n, 1)
      BY <1>1, <2>1, <2>2 DEF TriesLeft
    <3> HIDE DEF n
    <3>3. QED
      BY <2>1, <3>1, <3>2, <1>2 DEF AtLeast
  <2>3. CASE retry' \in {"failed", "overflowed"}
    <3>1. TriesLeft' = 0
      BY <2>3 DEF TriesLeft
    <3> HIDE DEF n
    <3>2. QED
      BY <2>1, <3>1, <1>2 DEF AtLeast
  <2>4. QED
    BY <1>5, <2>2, <2>3 DEF PermanentError, AfterError
<1>6. CASE WakeUp
  <2>1. /\ TriesLeft = 2 * AtLeast(n, 1) /\ transients' = transients
        /\ TriesLeft' = 2 * AtLeast(call.attempts - (attempt + 1), 0) + 1
    BY <1>6, <1>1 DEF WakeUp, TriesLeft
  <2>2. call.attempts - (attempt + 1) = n - 1
    BY <1>1
  <2> HIDE DEF n
  <2>3. QED
    BY <2>1, <2>2, <1>2 DEF AtLeast
<1>7. QED
  BY <1>3, <1>4, <1>5, <1>6 DEF Try

(* So does every step of get_logs, or it leaves fewer blocks or a shorter  *)
(* range.                                                                  *)
LEMMA GetLogsLeaves ==
    ASSUME IInv, replay = "fetching", replay' = "fetching", block' = block, GetLogsStep
    PROVE  \/ transients' = transients + 1
           \/ /\ transients' = transients
              /\ \/ BlocksLeft' < BlocksLeft
                 \/ BlocksLeft' = BlocksLeft /\ Width' < Width
                 \/ BlocksLeft' = BlocksLeft /\ Width' = Width /\ TriesLeft' < TriesLeft
<1>0. Fetches
  BY DEF GetLogsStep, Ask, Fetched, Divide, Fail, Fetches
<1>1. /\ asked.to \in Nat /\ Next1.from \in Nat /\ Next1.to \in Nat
      /\ Next1.from <= Next1.to /\ Next1.to <= asked.to
      /\ todo \in Seq(Within(asked)) /\ Covers(todo, todo[1].from, asked.to)
      /\ asked \in [from : Nat, to : Nat]
  BY <1>0, RangeLeft
<1>2. BlocksLeft = asked.to + 1 - Next1.from /\ Width = Next1.to - Next1.from
  BY <1>0 DEF BlocksLeft, Width
<1>3. CASE Ask
  <2>1. UNCHANGED <<asked, todo, outcome>> /\ Try
    BY <1>3 DEF Ask
  <2>2. BlocksLeft' = BlocksLeft /\ Width' = Width
    BY <2>1 DEF BlocksLeft, Width, Fetches, Next1
  <2>3. QED
    BY <2>1, <2>2, TryLeaves DEF IInv, GetLogsInv, GetLogsType
<1>4. CASE Fetched
  <2>1. asked' = asked /\ GoOn(Tail(todo)) /\ transients' = transients
    BY <1>4 DEF Fetched, GoOn, NewCall, retryVars
  <2>2. CASE Tail(todo) = <<>>
    <3>1. outcome' = "returned"
      BY <2>1, <2>2 DEF GoOn
    <3>2. BlocksLeft' = 0
      BY <3>1 DEF BlocksLeft, Fetches
    <3>3. QED
      BY <1>1, <1>2, <2>1, <3>2
  <2>3. CASE Tail(todo) # <<>>
    <3>1. todo' = Tail(todo) /\ outcome' = "running"
      BY <1>0, <2>1, <2>3 DEF GoOn, Fetches
    <3>2. Covers(Tail(todo), Next1.to + 1, asked.to)
      BY <1>1, <2>3, CoversTail DEF Next1
    <3>3. Next1'.from = Next1.to + 1
      <4>1. Next1' = Tail(todo)[1]
        BY <3>1 DEF Next1
      <4>2. Tail(todo)[1].from = Next1.to + 1
        BY <3>2 DEF Covers
      <4>3. QED
        BY <4>1, <4>2
    <3>4. BlocksLeft' = asked.to + 1 - (Next1.to + 1)
      BY <2>1, <3>1, <3>3 DEF BlocksLeft, Fetches
    <3>5. asked.to \in Nat /\ Next1.from \in Nat /\ Next1.to \in Nat /\ Next1.from <= Next1.to
      BY <1>1
    <3>6. BlocksLeft' < BlocksLeft
      BY <1>2, <3>4, <3>5
    <3>7. QED
      BY <2>1, <3>6
  <2>4. QED
    BY <2>2, <2>3
<1>5. CASE Divide
  <2> DEFINE h == Halves(Next1) \o Tail(todo)
  <2>1. asked' = asked /\ GoOn(h) /\ Next1.from # Next1.to
    BY <1>5 DEF Divide
  <2>2. h # <<>> /\ h[1].from = Next1.from /\ h[1].to \in Next1.from .. Next1.to - 1
    BY <1>1, <2>1, CoversHalves DEF Next1, Covers
  <2> HIDE DEF h
  <2>3. todo' = h /\ outcome' = "running" /\ transients' = transients
    BY <1>0, <2>1, <2>2 DEF GoOn, NewCall, Fetches
  <2>4. Next1'.from = Next1.from /\ Next1'.to \in Next1.from .. Next1.to - 1
    BY <2>2, <2>3 DEF Next1
  <2>5. BlocksLeft' = BlocksLeft /\ Width' = Next1'.to - Next1.from
    BY <1>2, <2>1, <2>3, <2>4 DEF BlocksLeft, Width, Fetches
  <2>6. Next1.from \in Nat /\ Next1.to \in Nat
    BY <1>1
  <2>7. Width' < Width
    BY <1>2, <2>4, <2>5, <2>6
  <2>8. QED
    BY <2>3, <2>5, <2>7
<1>6. CASE Fail
  <2>1. outcome' \in {"failed", "overflowed"} /\ transients' = transients
    BY <1>6 DEF Fail, retryVars
  <2>2. BlocksLeft' = 0
    BY <2>1 DEF BlocksLeft, Fetches
  <2>3. QED
    BY <1>1, <1>2, <2>1, <2>2
<1>7. QED
  BY <1>3, <1>4, <1>5, <1>6 DEF GetLogsStep

(* One case for each step of the replay.                                   *)
LEMMA StepLeaves ==
    ASSUME IInv, Step
    PROVE  Less(Left', Left)
<1>0. /\ MaxTransient - transients \in Nat /\ To + 1 - start \in Nat /\ Stage \in 0 .. 4
      /\ BlocksLeft \in Nat /\ Width \in Nat /\ TriesLeft \in Nat
  BY LeftNatural
<1>t. MaxTransient \in Nat /\ To \in Nat /\ transients \in Nat /\ start \in Nat
  BY RetryConfig, ReplayConfig DEF IInv, TypeOK, GetLogsType, RetryType
<1> SUFFICES
      \/ MaxTransient - transients' < MaxTransient - transients
      \/ /\ MaxTransient - transients' = MaxTransient - transients
         /\ \/ To + 1 - start' < To + 1 - start
            \/ /\ To + 1 - start' = To + 1 - start
               /\ \/ Stage' < Stage
                  \/ /\ Stage' = Stage
                     /\ \/ BlocksLeft' < BlocksLeft
                        \/ BlocksLeft' = BlocksLeft /\ Width' < Width
                        \/ BlocksLeft' = BlocksLeft /\ Width' = Width /\ TriesLeft' < TriesLeft
  <2> DEFINE l == Left'
             m == Left
  <2>1. /\ l[1] = MaxTransient - transients' /\ l[2] = To + 1 - start' /\ l[3] = Stage'
        /\ l[4] = BlocksLeft' /\ l[5] = Width' /\ l[6] = TriesLeft'
        /\ m[1] = MaxTransient - transients /\ m[2] = To + 1 - start /\ m[3] = Stage
        /\ m[4] = BlocksLeft /\ m[5] = Width /\ m[6] = TriesLeft
    BY DEF Left
  <2> HIDE DEF l, m
  <2>2. Less(l, m)
    BY <2>1, LessIs
  <2>3. QED
    BY <2>2 DEF l, m
<1>1. CASE Start
  BY <1>1 DEF Start, getLogsVars, retryVars, Stage
<1>2. CASE Fetch
  BY <1>2 DEF Fetch, Request, NewCall, Stage
<1>3. CASE Fetching
  <2>1. replay = "fetching" /\ UNCHANGED <<replay, start, block>> /\ GetLogsStep
    BY <1>3 DEF Fetching, replayVars
  <2>2. To + 1 - start' = To + 1 - start /\ Stage' = Stage
    BY <2>1 DEF Stage
  <2>3. QED
    BY <1>t, <2>1, <2>2, GetLogsLeaves
<1>4. CASE BatchFetched
  BY <1>4 DEF BatchFetched, getLogsVars, retryVars, Stage
<1>5. CASE ProcessBlock
  <2>1. /\ block \in Nat /\ asked.to \in Nat /\ start \in Nat /\ start <= asked.to
        /\ asked' = asked /\ transients' = transients /\ replay = "processing" /\ block' = block + 1
    BY <1>5, ReplayConfig DEF ProcessBlock, getLogsVars, retryVars, IInv, TypeOK, GetLogsType, Progress
  <2>2. CASE block = asked.to
    BY <1>5, <1>t, <2>1, <2>2 DEF ProcessBlock, AfterBatch
  <2>3. CASE block # asked.to
    <3>1. replay' = "processing" /\ start' = start
      BY <1>5, <2>1, <2>3 DEF ProcessBlock
    <3>2. BlocksLeft = asked.to + 1 - block /\ BlocksLeft' = asked.to + 1 - (block + 1) /\ Stage' = Stage
      BY <2>1, <3>1 DEF BlocksLeft, Fetches, Stage
    <3>3. BlocksLeft' < BlocksLeft
      BY <2>1, <3>2
    <3>4. QED
      BY <2>1, <3>1, <3>2, <3>3
  <2>4. QED
    BY <2>2, <2>3
<1>6. CASE Finish
  BY <1>6 DEF Finish, getLogsVars, retryVars, Stage
<1>7. CASE Die
  <2>1. UNCHANGED <<transients, start>> /\ replay \in {"starting", "processing", "fetching"} /\ replay' = "died"
    BY <1>7 DEF Die, getLogsVars, retryVars
  <2>2. Stage' = 0 /\ Stage > 0
    BY <2>1 DEF Stage
  <2>3. QED
    BY <2>1, <2>2
<1>8. QED
  BY <1>1, <1>2, <1>3, <1>4, <1>5, <1>6, <1>7 DEF Step
(* What is left is six natural numbers, the first of which that changes in *)
(* a step falls: a replay cannot go on for ever, however its ranges are    *)
(* refused, with any setting of the batch (runner.py:94-108;               *)
(* rpc.py:166-188).                                                        *)
THEOREM ReplayEnds == Spec => [](\A i \in 1 .. 6 : Left[i] \in Nat) /\ [][Less(Left', Left)]_vars
<1>1. IInv => \A i \in 1 .. 6 : Left[i] \in Nat
  <2> SUFFICES ASSUME IInv, NEW i \in 1 .. 6 PROVE Left[i] \in Nat
    OBVIOUS
  <2>1. /\ Left[1] \in Nat /\ Left[2] \in Nat /\ Left[3] \in Nat
        /\ Left[4] \in Nat /\ Left[5] \in Nat /\ Left[6] \in Nat
    BY LeftNatural DEF Left
  <2>2. i = 1 \/ i = 2 \/ i = 3 \/ i = 4 \/ i = 5 \/ i = 6
    OBVIOUS
  <2>3. QED
    BY <2>1, <2>2
<1>2. IInv /\ [Next]_vars => [Less(Left', Left)]_vars
  BY StepLeaves DEF Next, Ended
<1>3. QED
  BY <1>1, <1>2, Inductive, PTL DEF Spec
=============================================================================
