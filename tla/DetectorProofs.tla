--------------------------- MODULE DetectorProofs ---------------------------
(***************************************************************************)
(* What the series and the rules of the detector guarantee for any window, *)
(* any thresholds and any values.                                          *)
(***************************************************************************)
EXTENDS Detector, SequenceTheorems, WellFoundedInduction, TLAPS

Point == [block : Int, value : Int]
Series == [points : Seq(Point), carry : Int, current : Int]
PoolStates ==
    [price : Series, liquidity : Series, burns : SUBSET Int, lastAlert : Int, lastBlock : Nat]

-----------------------------------------------------------------------------
(* Numbers: a least and a greatest element.                                *)
LEMMA Least ==
    ASSUME NEW T \in SUBSET Nat, T # {}
    PROVE  \E x \in T : \A y \in T : x <= y
<1>1. \E x \in T : \A y \in T : ~ (<<y, x>> \in OpToRel(<, Nat))
  BY NatLessThanWellFounded, WFMin
<1>2. PICK x \in T : \A y \in T : ~ (<<y, x>> \in OpToRel(<, Nat))
  BY <1>1
<1>3. \A y \in T : ~ (y < x)
  BY <1>2, Zenon DEF OpToRel
<1>4. QED
  BY <1>3

LEMMA Greatest ==
    ASSUME NEW n \in Nat, NEW T \in SUBSET (1 .. n), T # {}
    PROVE  \E x \in T : \A y \in T : y <= x
<1> DEFINE U == {n - x : x \in T}
<1>1. U \in SUBSET Nat /\ U # {}
  <2>1. \A x \in T : n - x \in Nat
    OBVIOUS
  <2>2. QED
    BY <2>1
<1>2. PICK u \in U : \A v \in U : u <= v
  BY <1>1, Least
<1>3. PICK x \in T : u = n - x
  OBVIOUS
<1>4. ASSUME NEW y \in T PROVE y <= x
  <2>1. n - y \in U
    OBVIOUS
  <2>2. n - x <= n - y
    BY <2>1, <1>2, <1>3
  <2>3. QED
    BY <2>2
<1>5. QED
  BY <1>4

(* Min and Max of sets of indices.                                         *)
LEMMA MinOf ==
    ASSUME NEW T \in SUBSET Nat, T # {}
    PROVE  Min(T) \in T /\ \A y \in T : Min(T) <= y
BY Least DEF Min

LEMMA MaxOf ==
    ASSUME NEW n \in Nat, NEW T \in SUBSET (1 .. n), T # {}
    PROVE  Max(T) \in T /\ \A y \in T : y <= Max(T)
<1>1. \E x \in T : \A y \in T : x >= y
  BY Greatest
<1>2. QED
  BY <1>1 DEF Max

(* Finitely many values, at least one, have a largest.                     *)
LEMMA LargestValue ==
    ASSUME NEW m \in Nat, m >= 1, NEW v \in [1 .. m -> Int]
    PROVE  \E i \in 1 .. m : \A j \in 1 .. m : v[j] <= v[i]
<1> DEFINE Largest(n) == \E i \in 1 .. n : \A j \in 1 .. n : v[j] <= v[i]
           T == {n \in 1 .. m : ~Largest(n)}
<1>1. ASSUME T # {} PROVE FALSE
  <2>1. PICK n \in T : \A y \in T : n <= y
    <3>1. T \in SUBSET Nat
      OBVIOUS
    <3> HIDE DEF T
    <3>2. QED
      BY <3>1, <1>1, Least
  <2>2. Largest(1)
    <3>1. 1 \in 1 .. 1 /\ v[1] <= v[1] /\ \A j \in 1 .. 1 : j = 1
      OBVIOUS
    <3>2. QED
      BY <3>1, Zenon
  <2>3. n \in 1 .. m /\ n # 1 /\ ~Largest(n)
    BY <2>2
  <2>4. Largest(n - 1)
    <3>1. n - 1 \in 1 .. m /\ ~(n <= n - 1)
      BY <2>3
    <3> HIDE DEF Largest
    <3>2. QED
      BY <3>1, <2>1
  <2>5. PICK i \in 1 .. n - 1 : \A j \in 1 .. n - 1 : v[j] <= v[i]
    BY <2>4, Zenon
  <2>6. /\ i \in 1 .. n /\ i \in 1 .. m /\ v[i] \in Int /\ v[n] \in Int /\ n \in 1 .. n
        /\ \A j \in 1 .. n : j = n \/ v[j] <= v[i]
    BY <2>3, <2>5
  <2>7. \A j \in 1 .. n : v[j] \in Int
    BY <2>3
  <2>8. CASE v[n] <= v[i]
    BY <2>8, <2>6, <2>3
  <2>9. CASE v[i] <= v[n]
    <3>1. \A j \in 1 .. n : v[j] <= v[n]
      BY <2>6, <2>7, <2>9
    <3>2. QED
      BY <3>1, <2>6, <2>3
  <2>10. QED
    BY <2>6, <2>8, <2>9
<1>2. m \in 1 .. m
  OBVIOUS
<1>3. QED
  BY <1>1, <1>2

-----------------------------------------------------------------------------
(* Series.                                                                 *)

(* What prune takes off is the beginning, as far as it is too old.         *)
LEMMA ExpiredIs ==
    ASSUME NEW P \in Seq(Point), NEW limit \in Int
    PROVE  LET n == Expired(P, limit)
           IN  /\ n \in 0 .. Len(P)
               /\ \A i \in 1 .. n : P[i].block <= limit
               /\ n < Len(P) => P[n + 1].block > limit
<1> DEFINE I == {i \in 1 .. Len(P) : P[i].block > limit}
           n == Expired(P, limit)
<1>1. Len(P) \in Nat /\ \A i \in 1 .. Len(P) : P[i].block \in Int
  <2>1. \A i \in 1 .. Len(P) : P[i] \in Point
    OBVIOUS
  <2>2. QED
    BY <2>1 DEF Point
<1>2. n = IF I # {} THEN (IF Min(I) = 0 THEN Len(P) ELSE Min(I) - 1) ELSE Len(P)
  BY DEF Expired, SelectInSeq
<1>3. CASE I = {}
  BY <1>1, <1>2, <1>3
<1>4. CASE I # {}
  <2>1. Min(I) \in I /\ \A i \in I : Min(I) <= i
    <3>1. I \in SUBSET Nat
      OBVIOUS
    <3> HIDE DEF I
    <3>2. QED
      BY <1>4, <3>1, MinOf
  <2>2. PICK m \in I : m = Min(I) /\ \A i \in I : m <= i
    BY <2>1
  <2>3. m \in 1 .. Len(P) /\ n = m - 1 /\ P[m].block > limit
    BY <1>2, <1>4, <2>2
  <2>4. ASSUME NEW i \in 1 .. n PROVE P[i].block <= limit
    <3>1. i \in 1 .. Len(P) /\ ~(m <= i)
      BY <2>3, <1>1
    <3>2. i \notin I
      BY <3>1, <2>2
    <3>3. QED
      BY <3>1, <3>2, <1>1
  <2>5. QED
    BY <2>3, <2>4, <1>1
<1>5. QED
  BY <1>3, <1>4

CutAt(s, t, limit, n) ==
    /\ t \in Series
    /\ Len(t.points) = Len(s.points) - n
    /\ \A i \in 1 .. Len(t.points) : t.points[i] = s.points[n + i]
    /\ t.current = s.current
    /\ t.carry = IF n = 0 THEN s.carry ELSE s.points[n].value
    /\ \A i \in 1 .. n : s.points[i].block <= limit
    /\ n < Len(s.points) => s.points[n + 1].block > limit

LEMMA PruneIs ==
    ASSUME NEW s \in Series, NEW b \in Int
    PROVE  \E n \in 0 .. Len(s.points) : CutAt(s, Prune(s, b, Window), b - Window, n)
<1> USE DetectorConfig
<1> DEFINE n == Expired(s.points, b - Window)
           t == Prune(s, b, Window)
<1>1. s.points \in Seq(Point) /\ s.carry \in Int /\ s.current \in Int
  BY DEF Series
<1>2. /\ n \in 0 .. Len(s.points)
      /\ \A i \in 1 .. n : s.points[i].block <= b - Window
      /\ n < Len(s.points) => s.points[n + 1].block > b - Window
  <2>1. b - Window \in Int
    OBVIOUS
  <2>2. QED
    BY <1>1, <2>1, ExpiredIs
<1>3. /\ t.points = SubSeq(s.points, n + 1, Len(s.points))
      /\ t.carry = IF n = 0 THEN s.carry ELSE s.points[n].value
      /\ t.current = s.current
      /\ t = [points |-> t.points, carry |-> t.carry, current |-> t.current]
  <2> DEFINE pts == SubSeq(s.points, n + 1, Len(s.points))
             cry == IF n = 0 THEN s.carry ELSE s.points[n].value
  <2>1. t = [s EXCEPT !.points = pts, !.carry = cry]
    BY DEF Prune
  <2>2. s = [points |-> s.points, carry |-> s.carry, current |-> s.current]
    BY DEF Series
  <2> HIDE DEF t, pts, cry, n
  <2>3. t = [points |-> pts, carry |-> cry, current |-> s.current]
    BY <2>1, <2>2
  <2>4. QED
    BY <2>3 DEF pts, cry
<1> HIDE DEF n, t
<1>4. /\ t.points \in Seq(Point) /\ Len(t.points) = Len(s.points) - n
      /\ \A i \in 1 .. Len(t.points) : t.points[i] = s.points[n + i]
  <2> DEFINE P == s.points
             m == Len(P)
  <2>1. m \in Nat /\ n \in 0 .. m /\ \A i \in n + 1 .. m : P[i] \in Point
    BY <1>1, <1>2
  <2>2. t.points = SubSeq(P, n + 1, m)
    BY <1>3
  <2> HIDE DEF P, m
  <2>3. n + 1 \in Int /\ m \in Int /\ m - (n + 1) + 1 = m - n /\ (n + 1 <= m \/ m - n = 0)
        /\ \A i \in 1 .. m - n : n + 1 + i - 1 = n + i
    BY <2>1
  <2>4. /\ SubSeq(P, n + 1, m) \in Seq(Point)
        /\ Len(SubSeq(P, n + 1, m)) = m - n
        /\ \A i \in 1 .. m - n : SubSeq(P, n + 1, m)[i] = P[n + i]
    BY <2>1, <2>3, SubSeqProperties
  <2>5. QED
    BY <2>2, <2>4 DEF P, m
<1>5. s.points[n].value \in Int \/ n = 0
  <2>1. n = 0 \/ s.points[n] \in Point
    BY <1>1, <1>2
  <2>2. QED
    BY <2>1 DEF Point
<1>6. t \in Series
  BY <1>1, <1>3, <1>4, <1>5 DEF Series
<1>7. QED
  BY <1>2, <1>3, <1>4, <1>6 DEF n, t, CutAt

(* All of them are numbers.                                                *)
LEMMA ValuesAreNumbers ==
    ASSUME NEW s \in Series, NEW v \in Values(s)
    PROVE  v \in Int
<1>1. s.points \in Seq(Point) /\ s.carry \in Int /\ DOMAIN s.points = 1 .. Len(s.points)
  BY DEF Series
<1>2. \A i \in 1 .. Len(s.points) : s.points[i] \in Point
  BY <1>1
<1>3. QED
  BY <1>1, <1>2 DEF Values, Point

(* max() is one of the values.                                             *)
LEMMA TopIn ==
    ASSUME NEW s \in Series, Values(s) # {}
    PROVE  Top(s) \in Values(s) /\ \A v \in Values(s) : v <= Top(s)
<1>1. s.points \in Seq(Point) /\ s.carry \in Int /\ Len(s.points) \in Nat
      /\ DOMAIN s.points = 1 .. Len(s.points)
  BY DEF Series
<1>2. \A i \in 1 .. Len(s.points) : s.points[i].value \in Int
  <2>1. \A i \in 1 .. Len(s.points) : s.points[i] \in Point
    BY <1>1
  <2>2. QED
    BY <2>1 DEF Point
<1>3. \E x \in Values(s) : \A y \in Values(s) : x >= y
  <2>1. CASE Len(s.points) = 0
    <3>1. Values(s) = {s.carry}
      BY <2>1, <1>1 DEF Values
    <3>2. QED
      BY <3>1, <1>1
  <2>2. CASE Len(s.points) >= 1
    <3> DEFINE v == [i \in 1 .. Len(s.points) |-> s.points[i].value]
    <3>1. v \in [1 .. Len(s.points) -> Int]
      BY <1>2
    <3>2. PICK i \in 1 .. Len(s.points) : \A j \in 1 .. Len(s.points) : v[j] <= v[i]
      <4> HIDE DEF v
      <4>1. QED
        BY <1>1, <2>2, <3>1, LargestValue
    <3>3. \A j \in 1 .. Len(s.points) : s.points[j].value <= s.points[i].value
      BY <3>2
    <3>4. s.points[i].value \in Values(s)
      BY <1>1 DEF Values
    <3>5. \A y \in Values(s) : y = s.carry \/ y <= s.points[i].value
      BY <3>3, <1>1 DEF Values
    <3>6. \A y \in Values(s) : y \in Int
      BY <1>1, <1>2 DEF Values
    <3> DEFINE V == Values(s)
               c == s.carry
               m == s.points[i].value
    <3>7. m \in V /\ c \in Int /\ m \in Int /\ \A y \in V : y \in Int /\ (y = c \/ y <= m)
      BY <3>4, <3>5, <3>6, <1>1, <1>2
    <3> HIDE DEF V, c, m
    <3>8. \E x \in V : \A y \in V : x >= y
      <4>1. CASE c \in V /\ c >= m
        BY <3>7, <4>1
      <4>2. CASE c \notin V
        BY <3>7, <4>2
      <4>3. CASE c < m
        BY <3>7, <4>3
      <4>4. QED
        BY <3>7, <4>1, <4>2, <4>3
    <3>9. QED
      BY <3>8 DEF V
  <2>3. QED
    BY <1>1, <2>1, <2>2
<1>4. \A v \in Values(s) : v \in Int
  BY <1>1, <1>2 DEF Values
<1>5. Top(s) \in Values(s) /\ \A y \in Values(s) : Top(s) >= y
  BY <1>3, Zenon DEF Top, Max
<1>6. QED
  BY <1>4, <1>5

(* What add does.                                                          *)
LEMMA AddIs ==
    ASSUME NEW s \in Series, NEW b \in Int, NEW v \in Int
    PROVE  /\ Add(s, b, v) \in Series
           /\ Len(s.points) \in Nat
           /\ Len(Add(s, b, v).points) = Len(s.points) + 1
           /\ \A i \in 1 .. Len(s.points) : Add(s, b, v).points[i] = s.points[i]
           /\ Add(s, b, v).points[Len(s.points) + 1].block = b
           /\ Add(s, b, v).points[Len(s.points) + 1].value = v
           /\ Add(s, b, v).points # <<>>
           /\ Add(s, b, v).carry = s.carry
           /\ Add(s, b, v).current = v
<1> DEFINE t == Add(s, b, v)
           P == s.points
           e == [block |-> b, value |-> v]
<1>1. P \in Seq(Point) /\ s.carry \in Int /\ e \in Point /\ e.block = b /\ e.value = v
  BY DEF Series, Point
<1>2. t = [points |-> Append(P, e), carry |-> s.carry, current |-> v]
  <2>1. s = [points |-> s.points, carry |-> s.carry, current |-> s.current]
    BY DEF Series
  <2>2. t = [s EXCEPT !.points = Append(s.points, e), !.current = v]
    BY DEF Add
  <2> HIDE DEF t, e
  <2>3. QED
    BY <2>1, <2>2
<1> HIDE DEF P, e, t
<1>3. /\ Append(P, e) \in Seq(Point) /\ Len(Append(P, e)) = Len(P) + 1 /\ Len(P) \in Nat
      /\ \A i \in 1 .. Len(P) : Append(P, e)[i] = P[i]
      /\ Append(P, e)[Len(P) + 1] = e
      /\ Append(P, e) # <<>>
  BY <1>1, AppendProperties
<1>4. /\ t.points = Append(P, e) /\ t.carry = s.carry /\ t.current = v /\ t \in Series
  BY <1>1, <1>2, <1>3 DEF Series
<1>5. QED
  BY <1>1, <1>3, <1>4 DEF P, t

-----------------------------------------------------------------------------
(* A series against the true values: h[k] is the value at the end of block *)
(* n - k.  The series knows the blocks from r - 1, the block before the    *)
(* first one of the run, to u.                                             *)

(* Oldest first, one point for a block; the current value is the last one. *)
Ordered(s) ==
    /\ \A i \in 1 .. Len(s.points), j \in 1 .. Len(s.points) :
          i < j => s.points[i].block < s.points[j].block
    /\ \A i \in 1 .. Len(s.points) : s.points[i].value # NoValue
    /\ s.points = <<>> => s.current = s.carry
    /\ s.points # <<>> => s.current = s.points[Len(s.points)].value

(* Each point is in force until the next one, the carry until the first.   *)
Follows(s, h, n, u, r) ==
    /\ Ordered(s)
    /\ \A i \in 1 .. Len(s.points) : s.points[i].block \in r - 1 .. u
    /\ \A i \in 1 .. Len(s.points), k \in 0 .. Window :
          /\ s.points[i].block <= n - k /\ n - k <= u
          /\ i < Len(s.points) => n - k < s.points[i + 1].block
          => h[k] = s.points[i].value
    /\ s.carry # NoValue =>
          /\ r - 1 <= n - Window
          /\ \A k \in 0 .. Window :
                n - k <= u /\ (s.points # <<>> => n - k < s.points[1].block) => h[k] = s.carry

(* Before the first point nothing else was in force.                       *)
Complete(s, h, n, r) ==
    s.carry = NoValue /\ s.points # <<>> =>
        \A k \in 0 .. Window :
            r - 1 <= n - k /\ n - k < s.points[1].block => h[k] \in {NoValue, s.points[1].value}

(* What is recorded for a block is still in the window when the block is   *)
(* judged.                                                                 *)
LEMMA AddedIsKept ==
    ASSUME NEW s \in Series, NEW n \in Int, NEW v \in Int
    PROVE  v \in Values(Prune(Add(s, n, v), n, Window))
<1> DEFINE t == Add(s, n, v)
           q == Prune(t, n, Window)
           m == Len(s.points) + 1
<1>1. /\ t \in Series /\ m \in Nat /\ m >= 1 /\ Len(t.points) = m
      /\ t.points[m].block = n /\ t.points[m].value = v
  BY AddIs
<1>2. Window \in Nat /\ Window >= 1
  BY DetectorConfig
<1> HIDE DEF t, m
<1>3. PICK c \in 0 .. Len(t.points) : CutAt(t, q, n - Window, c)
  BY <1>1, PruneIs
<1>4. /\ q \in Series /\ c \in 0 .. m /\ Len(q.points) = m - c
      /\ \A i \in 1 .. Len(q.points) : q.points[i] = t.points[c + i]
      /\ \A i \in 1 .. c : t.points[i].block <= n - Window
  BY <1>1, <1>3 DEF CutAt
<1> HIDE DEF q
<1>5. c # m
  <2> SUFFICES ASSUME c = m PROVE FALSE
    OBVIOUS
  <2>1. t.points[m].block <= n - Window
    BY <1>1, <1>4
  <2>2. QED
    BY <1>1, <1>2, <2>1
<1>6. m - c \in 1 .. Len(q.points) /\ c + (m - c) = m
  BY <1>1, <1>4, <1>5
<1>7. q.points[m - c].value = v
  BY <1>1, <1>4, <1>6
<1>8. DOMAIN q.points = 1 .. Len(q.points)
  BY <1>4 DEF Series
<1>9. v \in Values(q)
  BY <1>6, <1>7, <1>8 DEF Values
<1>10. QED
  BY <1>9 DEF q, t

(* A block is over, with a new value or the old one.                       *)
LEMMA FollowsAdd ==
    ASSUME NEW s \in Series, NEW n \in Int, NEW r \in Int, r <= n, NEW h, NEW v \in Int,
           Follows(s, h, n, n - 1, r), h[0] = v, v # NoValue
    PROVE  Follows(Add(s, n, v), h, n, n, r)
<1> DEFINE t == Add(s, n, v)
           P == s.points
           Q == t.points
           m == Len(P)
<1>1. /\ t \in Series /\ m \in Nat /\ Len(Q) = m + 1 /\ Q # <<>>
      /\ \A i \in 1 .. m : Q[i] = P[i]
      /\ Q[m + 1].block = n /\ Q[m + 1].value = v
      /\ t.carry = s.carry /\ t.current = v
  BY AddIs
<1>2. /\ \A i \in 1 .. m : P[i].block \in r - 1 .. n - 1 /\ P[i].value # NoValue
      /\ \A i \in 1 .. m, j \in 1 .. m : i < j => P[i].block < P[j].block
      /\ \A i \in 1 .. m, k \in 0 .. Window :
          /\ P[i].block <= n - k /\ n - k <= n - 1
          /\ i < m => n - k < P[i + 1].block
          => h[k] = P[i].value
      /\ s.carry # NoValue =>
          /\ r - 1 <= n - Window
          /\ \A k \in 0 .. Window :
                n - k <= n - 1 /\ (P # <<>> => n - k < P[1].block) => h[k] = s.carry
  BY DEF Follows, Ordered
<1>3. P = <<>> <=> m = 0
  BY <1>1 DEF Series
<1>4. Window \in Nat
  BY DetectorConfig
<1> HIDE DEF t, P, Q, m
<1>5. Ordered(t)
  <2>1. ASSUME NEW i \in 1 .. m + 1, NEW j \in 1 .. m + 1, i < j PROVE Q[i].block < Q[j].block
    <3>1. i \in 1 .. m /\ Q[i] = P[i] /\ P[i].block \in r - 1 .. n - 1
      BY <2>1, <1>1, <1>2
    <3>2. CASE j = m + 1
      BY <3>1, <3>2, <1>1
    <3>3. CASE j \in 1 .. m
      <4>1. Q[j] = P[j] /\ P[i].block < P[j].block
        BY <3>1, <3>3, <2>1, <1>1, <1>2
      <4>2. QED
        BY <4>1, <3>1
    <3>4. QED
      BY <3>2, <3>3, <1>1
  <2>2. \A i \in 1 .. m + 1 : Q[i].value # NoValue
    BY <1>1, <1>2
  <2>3. QED
    BY <1>1, <2>1, <2>2 DEF Ordered, Q
<1>6. \A i \in 1 .. m + 1 : Q[i].block \in r - 1 .. n
  BY <1>1, <1>2
<1>7. ASSUME NEW i \in 1 .. m + 1, NEW k \in 0 .. Window, Q[i].block <= n - k, n - k <= n,
             i < m + 1 => n - k < Q[i + 1].block
      PROVE  h[k] = Q[i].value
  <2>1. CASE i = m + 1
    <3>1. k = 0
      BY <2>1, <1>1, <1>4, <1>7
    <3>2. QED
      BY <3>1, <2>1, <1>1
  <2>2. CASE i \in 1 .. m
    <3>1. Q[i] = P[i] /\ n - k < Q[i + 1].block
      BY <2>2, <1>1, <1>7
    <3>2. i < m => Q[i + 1] = P[i + 1]
      BY <2>2, <1>1
    <3>3. n - k <= n - 1
      <4>1. CASE i = m
        BY <4>1, <3>1, <1>1, <1>4
      <4>2. CASE i < m
        <5>1. i + 1 \in 1 .. m /\ P[i + 1].block \in r - 1 .. n - 1
          <6>1. i + 1 \in 1 .. m
            BY <4>2, <2>2, <1>1
          <6>2. QED
            BY <6>1, <1>2
        <5>2. QED
          BY <5>1, <4>2, <3>1, <3>2, <1>4
      <4>3. QED
        BY <4>1, <4>2, <2>2, <1>1
    <3>4. QED
      BY <3>1, <3>2, <3>3, <2>2, <1>2, <1>7
  <2>3. QED
    BY <2>1, <2>2, <1>1
<1>8. ASSUME s.carry # NoValue, NEW k \in 0 .. Window, n - k <= n, n - k < Q[1].block
      PROVE  h[k] = s.carry
  <2>1. CASE m = 0
    <3>1. n - k <= n - 1
      BY <2>1, <1>1, <1>4, <1>8
    <3>2. QED
      BY <3>1, <2>1, <1>3, <1>2, <1>8
  <2>2. CASE m >= 1
    <3>1. Q[1] = P[1] /\ P[1].block \in r - 1 .. n - 1
      BY <2>2, <1>1, <1>2
    <3>2. n - k <= n - 1 /\ n - k < P[1].block
      BY <3>1, <1>4, <1>8
    <3>3. QED
      BY <3>2, <1>2, <1>8
  <2>3. QED
    BY <2>1, <2>2, <1>1
<1>9. t.carry # NoValue =>
          /\ r - 1 <= n - Window
          /\ \A k \in 0 .. Window : n - k <= n /\ (Q # <<>> => n - k < Q[1].block) => h[k] = t.carry
  BY <1>1, <1>2, <1>8
<1>10. Len(Q) = m + 1
  BY <1>1
<1> HIDE DEF NoValue
<1>11. QED
  BY <1>5, <1>6, <1>7, <1>9, <1>10 DEF Follows, Q, t

LEMMA FollowsQuiet ==
    ASSUME NEW s \in Series, NEW n \in Int, NEW r \in Int, NEW h,
           Follows(s, h, n, n - 1, r), h[0] = h[1]
    PROVE  Follows(s, h, n, n, r)
<1> DEFINE P == s.points
           m == Len(P)
<1>1. Window \in Nat /\ Window >= 1 /\ m \in Nat /\ (P = <<>> <=> m = 0)
  BY DetectorConfig DEF Series
<1>2. /\ Ordered(s)
      /\ \A i \in 1 .. m : P[i].block \in r - 1 .. n - 1
      /\ \A i \in 1 .. m, k \in 0 .. Window :
          /\ P[i].block <= n - k /\ n - k <= n - 1
          /\ i < m => n - k < P[i + 1].block
          => h[k] = P[i].value
      /\ s.carry # NoValue =>
          /\ r - 1 <= n - Window
          /\ \A k \in 0 .. Window :
                n - k <= n - 1 /\ (P # <<>> => n - k < P[1].block) => h[k] = s.carry
  BY DEF Follows
<1> HIDE DEF P, m
<1>3. ASSUME NEW i \in 1 .. m, NEW k \in 0 .. Window, P[i].block <= n - k, n - k <= n,
             i < m => n - k < P[i + 1].block
      PROVE  h[k] = P[i].value
  <2>1. CASE k = 0
    <3>1. i = m
      <4>1. CASE i < m
        <5>1. i + 1 \in 1 .. m
          BY <4>1, <1>1
        <5>2. P[i + 1].block \in r - 1 .. n - 1
          BY <5>1, <1>2
        <5>3. QED
          BY <5>2, <4>1, <2>1, <1>3
      <4>2. QED
        BY <4>1, <1>1
    <3>2. P[i].block \in r - 1 .. n - 1 /\ 1 \in 0 .. Window /\ ~(i < m)
      BY <3>1, <1>1, <1>2
    <3>3. P[i].block <= n - 1
      BY <3>2
    <3>4. h[1] = P[i].value
      BY <3>2, <3>3, <1>2
    <3>5. QED
      BY <3>4, <2>1
  <2>2. CASE k # 0
    <3>1. n - k <= n - 1
      BY <2>2, <1>1
    <3>2. QED
      BY <3>1, <1>2, <1>3
  <2>3. QED
    BY <2>1, <2>2
<1>4. ASSUME s.carry # NoValue, NEW k \in 0 .. Window, P # <<>> => n - k < P[1].block
      PROVE  h[k] = s.carry
  <2>1. CASE k = 0
    <3>1. P = <<>>
      <4>1. CASE P # <<>>
        <5>1. 1 \in 1 .. m
          BY <4>1, <1>1
        <5>2. P[1].block \in r - 1 .. n - 1
          BY <5>1, <1>2
        <5>3. QED
          BY <5>2, <4>1, <2>1, <1>4
      <4>2. QED
        BY <4>1
    <3>2. 1 \in 0 .. Window /\ n - 1 <= n - 1
      BY <1>1
    <3>3. h[1] = s.carry
      BY <3>1, <3>2, <1>2, <1>4
    <3>4. QED
      BY <3>3, <2>1
  <2>2. CASE k # 0
    <3>1. n - k <= n - 1
      BY <2>2, <1>1
    <3>2. QED
      BY <3>1, <1>2, <1>4
  <2>3. QED
    BY <2>1, <2>2
<1>5. \A i \in 1 .. m : P[i].block \in r - 1 .. n
  BY <1>2
<1> HIDE DEF NoValue
<1>6. QED
  BY <1>2, <1>3, <1>4, <1>5 DEF Follows, P, m

(* The next block: what was k blocks ago is k + 1 blocks ago.              *)
LEMMA FollowsShift ==
    ASSUME NEW s \in Series, NEW n \in Int, NEW next \in Int, next = n + 1, NEW r \in Int, NEW h, NEW g,
           Follows(s, h, n, n, r), \A k \in 1 .. Window : g[k] = h[k - 1]
    PROVE  Follows(s, g, next, n, r)
<1> DEFINE P == s.points
           m == Len(P)
<1>1. Window \in Nat /\ Window >= 1
  BY DetectorConfig
<1>2. /\ Ordered(s)
      /\ \A i \in 1 .. m : P[i].block \in r - 1 .. n
      /\ \A i \in 1 .. m, k \in 0 .. Window :
          /\ P[i].block <= n - k /\ n - k <= n
          /\ i < m => n - k < P[i + 1].block
          => h[k] = P[i].value
      /\ s.carry # NoValue =>
          /\ r - 1 <= n - Window
          /\ \A k \in 0 .. Window :
                n - k <= n /\ (P # <<>> => n - k < P[1].block) => h[k] = s.carry
  BY DEF Follows
<1> HIDE DEF P, m
<1>3. ASSUME NEW k \in 0 .. Window, next - k <= n
      PROVE  /\ k - 1 \in 0 .. Window /\ n - (k - 1) = next - k
             /\ g[k] = h[k - 1]
  <2>1. k \in 1 .. Window
    BY <1>1, <1>3
  <2>2. QED
    BY <2>1, <1>1
<1>4. ASSUME NEW i \in 1 .. m, NEW k \in 0 .. Window, P[i].block <= next - k, next - k <= n,
             i < m => next - k < P[i + 1].block
      PROVE  g[k] = P[i].value
  <2>1. k - 1 \in 0 .. Window /\ n - (k - 1) = next - k /\ g[k] = h[k - 1]
    BY <1>3, <1>4
  <2>2. h[k - 1] = P[i].value
    BY <2>1, <1>2, <1>4
  <2>3. QED
    BY <2>1, <2>2
<1>5. ASSUME s.carry # NoValue, NEW k \in 0 .. Window, next - k <= n, P # <<>> => next - k < P[1].block
      PROVE  g[k] = s.carry
  <2>1. k - 1 \in 0 .. Window /\ n - (k - 1) = next - k /\ g[k] = h[k - 1]
    BY <1>3, <1>5
  <2>2. h[k - 1] = s.carry
    BY <2>1, <1>2, <1>5
  <2>3. QED
    BY <2>1, <2>2
<1>6. s.carry # NoValue => r - 1 <= next - Window
  BY <1>1, <1>2
<1> HIDE DEF NoValue
<1>7. QED
  BY <1>2, <1>4, <1>5, <1>6 DEF Follows, P, m

LEMMA CompleteShift ==
    ASSUME NEW s \in Series, NEW n \in Int, NEW next \in Int, next = n + 1, NEW r \in Int, NEW h, NEW g,
           Follows(s, h, n, n, r), Complete(s, h, n, r), \A k \in 1 .. Window : g[k] = h[k - 1]
    PROVE  Complete(s, g, next, r)
<1>1. Window \in Nat
  BY DetectorConfig
<1>2. SUFFICES ASSUME s.carry = NoValue, s.points # <<>>,
                      NEW k \in 0 .. Window, r - 1 <= next - k, next - k < s.points[1].block
               PROVE  g[k] \in {NoValue, s.points[1].value}
  BY DEF Complete
<1>3. s.points[1].block \in r - 1 .. n
  <2>1. 1 \in 1 .. Len(s.points)
    BY <1>2 DEF Series
  <2>2. QED
    BY <2>1 DEF Follows
<1>4. k \in 1 .. Window /\ k - 1 \in 0 .. Window /\ n - (k - 1) = next - k
  BY <1>1, <1>2, <1>3
<1>5. h[k - 1] \in {NoValue, s.points[1].value}
  BY <1>2, <1>4 DEF Complete
<1>6. QED
  BY <1>4, <1>5

(* The first point of a series, in block n or, read from the state of the  *)
(* pool, in the block before.                                              *)
LEMMA FollowsPrime ==
    ASSUME NEW s \in Series, NEW n \in Int, NEW b \in Int, b = n - 1, NEW r \in Int, r <= n,
           NEW h, NEW v \in Int, h[1] = v, v # NoValue
    PROVE  s.points = <<>> /\ s.carry = NoValue => Follows(Add(s, b, v), h, n, b, r)
<1> DEFINE t == Add(s, b, v)
           Q == t.points
           m == Len(s.points)
<1>0. /\ Len(Q) = m + 1 /\ Q # <<>> /\ Q[m + 1].block = b /\ Q[m + 1].value = v
      /\ t.carry = s.carry /\ t.current = v
  BY AddIs
<1> HAVE s.points = <<>> /\ s.carry = NoValue
<1>1. /\ Len(Q) = 1 /\ Q # <<>> /\ Q[1].block = b /\ Q[1].value = v
      /\ t.carry = NoValue /\ t.current = v
  <2>1. m = 0 /\ m + 1 = 1
    OBVIOUS
  <2> HIDE DEF t, Q, m
  <2>2. QED
    BY <1>0, <2>1
<1>2. Window \in Nat
  BY DetectorConfig
<1> HIDE DEF t, Q
<1>3. Ordered(t)
  BY <1>1 DEF Ordered, Q
<1>4. ASSUME NEW i \in 1 .. 1, NEW k \in 0 .. Window, Q[i].block <= n - k, n - k <= b
      PROVE  h[k] = Q[i].value
  <2>1. k = 1 /\ i = 1
    BY <1>1, <1>2, <1>4
  <2>2. QED
    BY <2>1, <1>1
<1>5. \A i \in 1 .. Len(Q) : Q[i].block \in r - 1 .. b
  BY <1>1
<1>6. Follows(t, h, n, b, r)
  BY <1>1, <1>3, <1>4, <1>5 DEF Follows, Q
<1>7. QED
  BY <1>6 DEF t

LEMMA CompleteAdd ==
    ASSUME NEW s \in Series, NEW n \in Int, NEW b \in Int, NEW r \in Int, NEW h, NEW v \in Int,
           Complete(s, h, n, r),
           s.points = <<>> /\ s.carry = NoValue =>
               \A k \in 0 .. Window : r - 1 <= n - k /\ n - k < b => h[k] \in {NoValue, v}
    PROVE  Complete(Add(s, b, v), h, n, r)
<1> DEFINE t == Add(s, b, v)
           Q == t.points
           m == Len(s.points)
<1>1. /\ m \in Nat /\ Len(Q) = m + 1 /\ (m >= 1 => Q[1] = s.points[1])
      /\ (m = 0 => Q[1].block = b /\ Q[1].value = v)
      /\ t.carry = s.carry
      /\ (s.points = <<>> <=> m = 0)
  <2>1. /\ m \in Nat /\ Len(Q) = m + 1 /\ (\A i \in 1 .. m : Q[i] = s.points[i])
        /\ Q[m + 1].block = b /\ Q[m + 1].value = v
        /\ t.carry = s.carry
    BY AddIs
  <2>2. s.points = <<>> <=> m = 0
    BY DEF Series
  <2>3. m = 0 => m + 1 = 1
    OBVIOUS
  <2>4. m >= 1 => 1 \in 1 .. m
    BY <2>1
  <2> HIDE DEF m, t, Q
  <2>5. QED
    BY <2>1, <2>2, <2>3, <2>4
<1> HIDE DEF t, Q, m
<1>2. CASE m = 0
  BY <1>1, <1>2 DEF Complete, Q, t
<1>3. CASE m >= 1
  BY <1>1, <1>3 DEF Complete, Q, t
<1>4. QED
  BY <1>1, <1>2, <1>3

(* Pruning.                                                                *)
LEMMA FollowsPrune ==
    ASSUME NEW s \in Series, NEW n \in Int, NEW r \in Int, NEW h, Follows(s, h, n, n, r)
    PROVE  Follows(Prune(s, n, Window), h, n, n, r)
<1> DEFINE t == Prune(s, n, Window)
           P == s.points
           Q == t.points
           m == Len(P)
<1>1. PICK c \in 0 .. m : CutAt(s, t, n - Window, c)
  BY PruneIs
<1>2. /\ t \in Series /\ Len(Q) = m - c
      /\ \A i \in 1 .. Len(Q) : Q[i] = P[c + i]
      /\ t.current = s.current
      /\ t.carry = IF c = 0 THEN s.carry ELSE P[c].value
      /\ \A i \in 1 .. c : P[i].block <= n - Window
  BY <1>1 DEF CutAt
<1>3. /\ Ordered(s)
      /\ \A i \in 1 .. m : P[i].block \in r - 1 .. n
      /\ \A i \in 1 .. m, k \in 0 .. Window :
          /\ P[i].block <= n - k /\ n - k <= n
          /\ i < m => n - k < P[i + 1].block
          => h[k] = P[i].value
      /\ s.carry # NoValue =>
          /\ r - 1 <= n - Window
          /\ \A k \in 0 .. Window :
                n - k <= n /\ (P # <<>> => n - k < P[1].block) => h[k] = s.carry
  BY DEF Follows
<1>4. /\ Window \in Nat /\ m \in Nat /\ (P = <<>> <=> m = 0) /\ (Q = <<>> <=> m - c = 0)
      /\ c \in 0 .. m
  BY <1>1, <1>2, DetectorConfig DEF Series
<1>5. /\ \A i \in 1 .. m, j \in 1 .. m : i < j => P[i].block < P[j].block
      /\ \A i \in 1 .. m : P[i].value # NoValue
      /\ P = <<>> => s.current = s.carry
      /\ P # <<>> => s.current = P[m].value
  BY <1>3 DEF Ordered
<1> HIDE DEF t, P, Q, m
<1>6. \A i \in 1 .. m - c : c + i \in 1 .. m /\ Q[i] = P[c + i]
  BY <1>2, <1>4
<1>7. Ordered(t)
  <2>1. ASSUME NEW i \in 1 .. m - c, NEW j \in 1 .. m - c, i < j PROVE Q[i].block < Q[j].block
    <3>1. c + i \in 1 .. m /\ c + j \in 1 .. m /\ c + i < c + j
      BY <2>1, <1>4
    <3>2. QED
      BY <3>1, <1>5, <1>6
  <2>2. \A i \in 1 .. m - c : Q[i].value # NoValue
    BY <1>5, <1>6
  <2>3. Q = <<>> => t.current = t.carry
    <3>1. Q = <<>> => c = m
      BY <1>4
    <3>2. QED
      BY <3>1, <1>2, <1>4, <1>5
  <2>4. Q # <<>> => t.current = Q[m - c].value
    <3>1. Q # <<>> => m - c \in 1 .. m - c /\ c + (m - c) = m /\ m # 0
      BY <1>4
    <3>2. QED
      BY <3>1, <1>2, <1>4, <1>5, <1>6
  <2>5. QED
    BY <2>1, <2>2, <2>3, <2>4, <1>2 DEF Ordered, Q
<1>8. \A i \in 1 .. m - c : Q[i].block \in r - 1 .. n
  BY <1>3, <1>6
<1>9. ASSUME NEW i \in 1 .. m - c, NEW k \in 0 .. Window, Q[i].block <= n - k,
             i < m - c => n - k < Q[i + 1].block
      PROVE  h[k] = Q[i].value
  <2>1. c + i \in 1 .. m /\ Q[i] = P[c + i]
    BY <1>6
  <2>2. ASSUME c + i < m PROVE n - k < P[c + i + 1].block
    <3>1. i + 1 \in 1 .. m - c /\ i < m - c /\ c + (i + 1) = c + i + 1
      BY <2>2, <1>4
    <3>2. Q[i + 1] = P[c + i + 1]
      BY <3>1, <1>6
    <3>3. QED
      BY <3>1, <3>2, <1>9
  <2>3. n - k <= n
    BY <1>4
  <2>4. QED
    BY <2>1, <2>2, <2>3, <1>3, <1>9
<1>10. ASSUME t.carry # NoValue
       PROVE  /\ r - 1 <= n - Window
              /\ \A k \in 0 .. Window : (Q # <<>> => n - k < Q[1].block) => h[k] = t.carry
  <2>1. CASE c = 0
    <3>1. /\ m - c = m /\ (Q = <<>> <=> P = <<>>) /\ t.carry = s.carry
          /\ \A k \in 0 .. Window : n - k <= n
      BY <2>1, <1>2, <1>4
    <3>2. Q # <<>> => Q[1] = P[1]
      <4>1. Q # <<>> => 1 \in 1 .. m - c /\ c + 1 = 1
        BY <2>1, <1>4
      <4>2. QED
        BY <4>1, <1>6
    <3>3. QED
      BY <3>1, <3>2, <1>3, <1>10
  <2>2. CASE c # 0
    <3>1. c \in 1 .. m /\ c \in 1 .. c /\ t.carry = P[c].value
      BY <2>2, <1>2, <1>4
    <3>2. P[c].block \in r - 1 .. n /\ P[c].block <= n - Window
      BY <3>1, <1>2, <1>3
    <3>3. ASSUME NEW k \in 0 .. Window, Q # <<>> => n - k < Q[1].block PROVE h[k] = P[c].value
      <4>1. P[c].block <= n - k /\ n - k <= n
        BY <3>2, <1>4
      <4>2. ASSUME c < m PROVE n - k < P[c + 1].block
        <5>1. 1 \in 1 .. m - c /\ Q # <<>>
          BY <4>2, <1>4
        <5>2. QED
          BY <5>1, <3>3, <1>6
      <4>3. QED
        BY <4>1, <4>2, <3>1, <1>3
    <3>4. r - 1 <= n - Window
      BY <3>2, <1>4
    <3>5. QED
      BY <3>1, <3>3, <3>4, Zenon
  <2>3. QED
    BY <2>1, <2>2
<1>11. Len(Q) = m - c
  BY <1>2
<1> HIDE DEF NoValue
<1>12. QED
  BY <1>7, <1>8, <1>9, <1>10, <1>11 DEF Follows, Q, t

LEMMA CompletePrune ==
    ASSUME NEW s \in Series, NEW n \in Int, NEW r \in Int, NEW h,
           Follows(s, h, n, n, r), Complete(s, h, n, r)
    PROVE  Complete(Prune(s, n, Window), h, n, r)
<1> DEFINE t == Prune(s, n, Window)
           m == Len(s.points)
<1>1. PICK c \in 0 .. m : CutAt(s, t, n - Window, c)
  BY PruneIs
<1>2. /\ t \in Series /\ Len(t.points) = m - c
      /\ \A i \in 1 .. Len(t.points) : t.points[i] = s.points[c + i]
      /\ t.carry = IF c = 0 THEN s.carry ELSE s.points[c].value
  BY <1>1 DEF CutAt
<1>3. \A i \in 1 .. m : s.points[i].value # NoValue
  BY DEF Follows, Ordered
<1>4. m \in Nat /\ (s.points = <<>> <=> m = 0) /\ (t.points = <<>> <=> m - c = 0) /\ c \in 0 .. m
  BY <1>2 DEF Series
<1> HIDE DEF t
<1>5. CASE c # 0
  <2>1. t.carry # NoValue
    <3>1. c \in 1 .. m
      BY <1>4, <1>5
    <3>2. QED
      BY <3>1, <1>2, <1>3, <1>5
  <2>2. QED
    BY <2>1 DEF Complete, t
<1>6. CASE c = 0
  <2>1. t.carry = s.carry /\ (t.points = <<>> <=> s.points = <<>>)
    BY <1>2, <1>4, <1>6
  <2>2. t.points # <<>> => t.points[1] = s.points[1]
    <3>1. t.points # <<>> => 1 \in 1 .. Len(t.points) /\ c + 1 = 1
      BY <1>2, <1>4, <1>6
    <3>2. QED
      BY <3>1, <1>2
  <2>3. QED
    BY <2>1, <2>2 DEF Complete, t
<1>7. QED
  BY <1>5, <1>6

(* What a pruned series holds was in force in the window ...               *)
LEMMA ValuesSound ==
    ASSUME NEW s \in Series, NEW n \in Int, NEW r \in Int, NEW h, Follows(s, h, n, n, r),
           NEW v \in Values(Prune(s, n, Window))
    PROVE  \E k \in 0 .. Window : r - 1 <= n - k /\ h[k] = v /\ v # NoValue
<1> DEFINE t == Prune(s, n, Window)
           m == Len(s.points)
           P == s.points
<1>1. PICK c \in 0 .. m : CutAt(s, t, n - Window, c)
  BY PruneIs
<1>2. Follows(t, h, n, n, r)
  BY FollowsPrune
<1>3. /\ t \in Series /\ Len(t.points) = m - c
      /\ \A i \in 1 .. Len(t.points) : t.points[i] = P[c + i]
      /\ c < m => P[c + 1].block > n - Window
  BY <1>1 DEF CutAt
<1>4. /\ Window \in Nat /\ m \in Nat /\ c \in 0 .. m
      /\ DOMAIN t.points = 1 .. m - c
  BY <1>1, <1>3, DetectorConfig DEF Series
<1>5. /\ \A i \in 1 .. m, j \in 1 .. m : i < j => P[i].block < P[j].block
      /\ \A i \in 1 .. m : P[i].block \in r - 1 .. n
  BY DEF Follows, Ordered
<1>6. /\ \A i \in 1 .. m - c : t.points[i].block \in r - 1 .. n /\ t.points[i].value # NoValue
      /\ \A i \in 1 .. m - c, j \in 1 .. m - c : i < j => t.points[i].block < t.points[j].block
  BY <1>2, <1>3 DEF Follows, Ordered
<1>7. CASE v = t.carry /\ v # NoValue
  <2>1. CASE t.points = <<>> \/ n - Window < t.points[1].block
    <3>1. Window \in 0 .. Window /\ n - Window <= n
      BY <1>4
    <3>2. r - 1 <= n - Window /\ h[Window] = t.carry
      BY <2>1, <3>1, <1>2, <1>7 DEF Follows
    <3>3. QED
      BY <3>1, <3>2, <1>7
  <2>2. t.points # <<>> => n - Window < t.points[1].block
    <3>1. t.points # <<>> => c < m /\ 1 \in 1 .. m - c
      BY <1>3, <1>4
    <3>2. QED
      BY <3>1, <1>3, <1>4
  <2>3. QED
    BY <2>1, <2>2
<1>8. CASE \E i \in 1 .. m - c : v = t.points[i].value
  <2>1. PICK i \in 1 .. m - c : v = t.points[i].value
    BY <1>8
  <2> DEFINE b == t.points[i].block
             k == n - b
  <2>2. b \in r - 1 .. n /\ b > n - Window
    <3>1. c + 1 \in 1 .. m /\ c < m /\ P[c + 1].block > n - Window /\ c + i \in 1 .. m
          /\ t.points[i] = P[c + i]
      <4> HIDE DEF t, P, m
      <4>1. c + 1 \in 1 .. m /\ c < m /\ c + i \in 1 .. m /\ i \in 1 .. m - c
        BY <1>4
      <4>2. QED
        BY <4>1, <1>3
    <3>2. c + 1 = c + i \/ c + 1 < c + i
      BY <1>4
    <3>3. P[c + 1].block = P[c + i].block \/ P[c + 1].block < P[c + i].block
      BY <3>1, <3>2, <1>5
    <3>4. P[c + i].block \in r - 1 .. n /\ P[c + 1].block \in r - 1 .. n
      BY <3>1, <1>5
    <3>5. b = P[c + i].block
      BY <3>1
    <3> DEFINE x == P[c + 1].block
    <3>6. x \in Int /\ x > n - Window /\ (x = b \/ x < b) /\ b \in r - 1 .. n /\ Window \in Nat
      BY <3>1, <3>3, <3>4, <3>5, <1>4
    <3> HIDE DEF x, b
    <3>7. QED
      BY <3>6
  <2>3. k \in 0 .. Window /\ n - k = b /\ r - 1 <= n - k
    <3> HIDE DEF b
    <3>1. QED
      BY <2>2, <1>4
  <2>4. i < m - c => b < t.points[i + 1].block
    <3>1. i < m - c => i + 1 \in 1 .. m - c /\ i < i + 1
      BY <1>4
    <3>2. QED
      BY <3>1, <1>6
  <2>5. h[k] = v
    <3>1. b <= n - k /\ n - k <= n /\ (i < m - c => n - k < t.points[i + 1].block) /\ i \in 1 .. Len(t.points)
      <4> HIDE DEF b, k
      <4>1. QED
        BY <2>2, <2>3, <2>4, <1>3, SMTT(60)
    <3>2. QED
      BY <3>1, <2>1, <2>3, <1>2, <1>3 DEF Follows
  <2>6. v # NoValue
    BY <2>1, <1>6
  <2>7. QED
    BY <2>3, <2>5, <2>6
<1>9. v \in {t.points[i].value : i \in 1 .. m - c} \/ (v = t.carry /\ v # NoValue)
  BY <1>4 DEF Values
<1>10. QED
  BY <1>7, <1>8, <1>9

(* ... and all that was, is there.                                         *)
LEMMA ValuesComplete ==
    ASSUME NEW s \in Series, NEW n \in Int, NEW r \in Int, NEW h,
           Follows(s, h, n, n, r), Complete(s, h, n, r), HasValue(s),
           NEW k \in 0 .. Window, r - 1 <= n - k, h[k] # NoValue
    PROVE  h[k] \in Values(Prune(s, n, Window))
<1> DEFINE t == Prune(s, n, Window)
           Q == t.points
           L == Len(Q)
<1>1. Follows(t, h, n, n, r) /\ Complete(t, h, n, r) /\ t \in Series /\ t.current = s.current
  BY FollowsPrune, CompletePrune, PruneIs DEF CutAt
<1>2. s.current # NoValue
  <2>1. CASE s.points = <<>>
    BY <2>1 DEF Follows, Ordered, HasValue
  <2>2. CASE s.points # <<>>
    <3>1. Len(s.points) \in 1 .. Len(s.points)
      BY <2>2 DEF Series
    <3>2. QED
      BY <2>2, <3>1 DEF Follows, Ordered
  <2>3. QED
    BY <2>1, <2>2
<1>3. /\ L \in Nat /\ (Q = <<>> <=> L = 0) /\ DOMAIN Q = 1 .. L /\ Window \in Nat
  BY <1>1, DetectorConfig DEF Series
<1>4. /\ Values(t) = {Q[i].value : i \in 1 .. L} \cup ({t.carry} \ {NoValue})
  BY <1>3 DEF Values
<1>5. n - k <= n
  BY <1>3
<1> HIDE DEF t, Q, L
<1>6. CASE Q = <<>>
  <2>1. t.carry = t.current
    BY <1>1, <1>6 DEF Follows, Ordered, Q
  <2>2. t.carry # NoValue
    BY <2>1, <1>1, <1>2
  <2>3. h[k] = t.carry
    BY <2>2, <1>1, <1>5, <1>6 DEF Follows, Q
  <2>4. QED
    BY <2>2, <2>3, <1>4 DEF t
<1>7. CASE Q # <<>> /\ n - k < Q[1].block
  <2>1. 1 \in 1 .. L
    BY <1>3, <1>7
  <2>2. CASE t.carry # NoValue
    <3>1. h[k] = t.carry
      BY <2>2, <1>1, <1>5, <1>7 DEF Follows, Q
    <3>2. QED
      BY <3>1, <2>2, <1>4 DEF t
  <2>3. CASE t.carry = NoValue
    <3>1. h[k] \in {NoValue, Q[1].value}
      BY <2>3, <1>1, <1>7 DEF Complete, Q
    <3>2. QED
      BY <3>1, <2>1, <1>4 DEF t
  <2>4. QED
    BY <2>2, <2>3
<1>8. CASE Q # <<>> /\ ~(n - k < Q[1].block)
  <2> DEFINE I == {i \in 1 .. L : Q[i].block <= n - k}
  <2>1. \A i \in 1 .. L : Q[i].block \in Int
    <3>1. \A i \in 1 .. L : Q[i].block \in r - 1 .. n
      BY <1>1 DEF Follows, Q, L
    <3>2. QED
      BY <3>1
  <2>2. I # {} /\ I \in SUBSET (1 .. L)
    BY <2>1, <1>3, <1>8
  <2>3. PICK i \in I : \A j \in I : j <= i
    <3> HIDE DEF I
    <3>1. QED
      BY <2>2, <1>3, Greatest
  <2>4. i \in 1 .. L /\ Q[i].block <= n - k
    BY <2>3
  <2>5. i < L => n - k < Q[i + 1].block
    <3>1. i < L => i + 1 \in 1 .. L /\ i + 1 \notin I
      BY <2>3, <2>4, <1>3
    <3>2. i < L => ~(Q[i + 1].block <= n - k) /\ Q[i + 1].block \in Int
      BY <3>1, <2>1
    <3>3. QED
      BY <3>2
  <2>6. h[k] = Q[i].value
    BY <2>4, <2>5, <1>1, <1>5 DEF Follows, Q, L
  <2>7. QED
    BY <2>4, <2>6, <1>4 DEF t
<1>9. QED
  BY <1>6, <1>7, <1>8

(* The current value is the true one of block u, this one or the one before. *)
LEMMA CurrentIs ==
    ASSUME NEW s \in Series, NEW n \in Int, NEW r \in Int, NEW h, NEW k \in {0, 1},
           Follows(s, h, n, n - k, r), HasValue(s)
    PROVE  s.current = h[k] /\ s.current # NoValue
<1> DEFINE m == Len(s.points)
<1>1. Window \in Nat /\ Window >= 1 /\ m \in Nat /\ (s.points = <<>> <=> m = 0)
  BY DetectorConfig DEF Series
<1>2. k \in 0 .. Window /\ n - k <= n - k
  BY <1>1
<1>3. CASE s.points = <<>>
  <2>1. s.current = s.carry /\ s.carry # NoValue
    BY <1>3 DEF Follows, Ordered, HasValue
  <2>2. QED
    BY <2>1, <1>2, <1>3 DEF Follows
<1>4. CASE s.points # <<>>
  <2>1. m \in 1 .. m /\ ~(m < m)
    BY <1>1, <1>4
  <2>2. s.current = s.points[m].value /\ s.points[m].value # NoValue
    BY <2>1, <1>4 DEF Follows, Ordered
  <2>3. s.points[m].block <= n - k
    <3>1. s.points[m].block \in r - 1 .. n - k
      BY <2>1 DEF Follows
    <3>2. QED
      BY <3>1, <1>2
  <2>4. h[k] = s.points[m].value
    BY <2>1, <2>3, <1>2 DEF Follows
  <2>5. QED
    BY <2>2, <2>4
<1>5. QED
  BY <1>3, <1>4

-----------------------------------------------------------------------------
(* The state of a pool, part by part.                                      *)
Later(b, c) == IF b > c THEN b ELSE c

LEMMA PartsOf ==
    ASSUME NEW st \in PoolStates
    PROVE  /\ st = [price |-> st.price, liquidity |-> st.liquidity, burns |-> st.burns,
                    lastAlert |-> st.lastAlert, lastBlock |-> st.lastBlock]
           /\ st.price \in Series /\ st.liquidity \in Series /\ st.burns \in SUBSET Int
           /\ st.lastAlert \in Int /\ st.lastBlock \in Nat
BY DEF PoolStates

LEMMA NewStateIs == NewState \in PoolStates /\ EmptySeries \in Series
<1>1. EmptySeries \in Series
  <2>1. <<>> \in Seq(Point)
    OBVIOUS
  <2>2. QED
    BY <2>1 DEF EmptySeries, Series, NoValue
<1>2. QED
  BY <1>1 DEF NewState, PoolStates, NoTime

LEMMA TouchedIs ==
    ASSUME NEW st \in PoolStates, NEW b \in Nat
    PROVE  /\ Touched(st, b) \in PoolStates
           /\ Touched(st, b).price = st.price /\ Touched(st, b).liquidity = st.liquidity
           /\ Touched(st, b).burns = st.burns /\ Touched(st, b).lastAlert = st.lastAlert
           /\ Touched(st, b).lastBlock = Later(b, st.lastBlock)
BY PartsOf DEF Touched, PoolStates, Later

LEMMA RecordPriceIs ==
    ASSUME NEW st \in PoolStates, NEW b \in Nat, NEW v \in Int
    PROVE  LET t == RecordPrice(st, b, v)
           IN  /\ t \in PoolStates
               /\ t.price = Add(st.price, b, v) /\ t.liquidity = st.liquidity
               /\ t.burns = st.burns /\ t.lastAlert = st.lastAlert
               /\ t.lastBlock = Later(b, st.lastBlock)
<1>1. st.price \in Series /\ Add(st.price, b, v) \in Series
  BY PartsOf, AddIs
<1> DEFINE u == Touched(st, b)
<1>2. /\ u \in PoolStates /\ u.price = st.price /\ u.liquidity = st.liquidity
      /\ u.burns = st.burns /\ u.lastAlert = st.lastAlert /\ u.lastBlock = Later(b, st.lastBlock)
  BY TouchedIs
<1>3. RecordPrice(st, b, v) = [u EXCEPT !.price = Add(st.price, b, v)]
  BY <1>2 DEF RecordPrice
<1> HIDE DEF u
<1>4. QED
  BY <1>1, <1>2, <1>3 DEF PoolStates

LEMMA RecordBurnIs ==
    ASSUME NEW st \in PoolStates, NEW b \in Nat
    PROVE  LET t == RecordBurn(st, b)
           IN  /\ t \in PoolStates
               /\ t.price = st.price /\ t.liquidity = st.liquidity
               /\ t.burns = st.burns \cup {b} /\ t.lastAlert = st.lastAlert
               /\ t.lastBlock = Later(b, st.lastBlock)
<1> DEFINE u == Touched(st, b)
<1>2. /\ u \in PoolStates /\ u.price = st.price /\ u.liquidity = st.liquidity
      /\ u.burns = st.burns /\ u.lastAlert = st.lastAlert /\ u.lastBlock = Later(b, st.lastBlock)
      /\ st.burns \cup {b} \in SUBSET Int
  BY TouchedIs, PartsOf
<1>3. RecordBurn(st, b) = [u EXCEPT !.burns = st.burns \cup {b}]
  BY <1>2 DEF RecordBurn
<1> HIDE DEF u
<1>4. QED
  BY <1>2, <1>3 DEF PoolStates

LEMMA RecordLiquidityIs ==
    ASSUME NEW st \in PoolStates, NEW b \in Int, NEW v \in Int
    PROVE  LET t == RecordLiquidity(st, b, v)
           IN  /\ t \in PoolStates
               /\ t.liquidity = Add(st.liquidity, b, v) /\ t.price = st.price
               /\ t.burns = st.burns /\ t.lastAlert = st.lastAlert /\ t.lastBlock = st.lastBlock
<1>1. st.liquidity \in Series /\ Add(st.liquidity, b, v) \in Series
  BY PartsOf, AddIs
<1>2. RecordLiquidity(st, b, v) = [st EXCEPT !.liquidity = Add(st.liquidity, b, v)]
  BY DEF RecordLiquidity
<1>3. QED
  BY <1>1, <1>2 DEF PoolStates

LEMMA RecordInitialPriceIs ==
    ASSUME NEW st \in PoolStates, NEW b \in Int, NEW v \in Int
    PROVE  LET t == RecordInitialPrice(st, b, v)
           IN  /\ t \in PoolStates
               /\ t.price = IF st.price.current = NoValue THEN Add(st.price, b, v) ELSE st.price
               /\ t.liquidity = st.liquidity
               /\ t.burns = st.burns /\ t.lastAlert = st.lastAlert /\ t.lastBlock = st.lastBlock
<1>1. st.price \in Series /\ Add(st.price, b, v) \in Series
  BY PartsOf, AddIs
<1>2. CASE st.price.current = NoValue
  <2>1. RecordInitialPrice(st, b, v) = [st EXCEPT !.price = Add(st.price, b, v)]
    BY <1>2 DEF RecordInitialPrice
  <2>2. QED
    BY <1>1, <1>2, <2>1 DEF PoolStates
<1>3. CASE st.price.current # NoValue
  BY <1>3 DEF RecordInitialPrice
<1>4. QED
  BY <1>2, <1>3

LEMMA PrunedIs ==
    ASSUME NEW st \in PoolStates, NEW b \in Int
    PROVE  LET t == Pruned(st, b)
           IN  /\ t \in PoolStates
               /\ t.price = Prune(st.price, b, Window) /\ t.liquidity = Prune(st.liquidity, b, Window)
               /\ t.burns = {c \in st.burns : c > b - Window}
               /\ t.lastAlert = st.lastAlert /\ t.lastBlock = st.lastBlock
               /\ t.price.current = st.price.current /\ t.liquidity.current = st.liquidity.current
<1>1. /\ Prune(st.price, b, Window) \in Series /\ Prune(st.liquidity, b, Window) \in Series
      /\ Prune(st.price, b, Window).current = st.price.current
      /\ Prune(st.liquidity, b, Window).current = st.liquidity.current
  BY PartsOf, PruneIs DEF CutAt
<1>2. Pruned(st, b) = [st EXCEPT !.price = Prune(st.price, b, Window),
                                !.liquidity = Prune(st.liquidity, b, Window),
                                !.burns = {c \in st.burns : c > b - Window}]
  BY DEF Pruned
<1>3. {c \in st.burns : c > b - Window} \in SUBSET Int
  BY PartsOf
<1> DEFINE x == Prune(st.price, b, Window)
           y == Prune(st.liquidity, b, Window)
           z == {c \in st.burns : c > b - Window}
<1> HIDE DEF x, y, z
<1>4. QED
  BY <1>1, <1>2, <1>3 DEF PoolStates, x, y, z

-----------------------------------------------------------------------------
(* A fall within the window needs a price recorded in it, and so a pool    *)
(* whose last block l is in the window: only the price read before a       *)
(* pool's first block comes without touching it, and alone it is no fall.  *)
Shaped(s, l, n) ==
    /\ s.points = <<>> => s.current = s.carry
    /\ s.points # <<>> => s.current = s.points[Len(s.points)].value /\ s.current # NoValue
    /\ \A i \in 1 .. Len(s.points) : s.points[i].block <= n
    /\ \/ \A i \in 1 .. Len(s.points) : s.points[i].block <= l
       \/ Len(s.points) = 1 /\ s.carry = NoValue

LEMMA PointsAre ==
    ASSUME NEW s \in Series
    PROVE  /\ Len(s.points) \in Nat /\ (s.points = <<>> <=> Len(s.points) = 0)
           /\ \A i \in 1 .. Len(s.points) : s.points[i].block \in Int /\ s.points[i].value \in Int
           /\ s.carry \in Int /\ s.current \in Int
<1>1. s.points \in Seq(Point) /\ s.carry \in Int /\ s.current \in Int
  BY DEF Series
<1>2. \A i \in 1 .. Len(s.points) : s.points[i] \in Point
  BY <1>1
<1>3. QED
  BY <1>1, <1>2 DEF Point

LEMMA ShapedLater ==
    ASSUME NEW s \in Series, NEW l \in Int, NEW n \in Int, Shaped(s, l, n),
           NEW m \in Int, l <= m, NEW o \in Int, n <= o
    PROVE  Shaped(s, m, o)
BY PointsAre DEF Shaped

LEMMA ShapedAdd ==
    ASSUME NEW s \in Series, NEW l \in Int, NEW n \in Int, Shaped(s, l, n), NEW v \in Int, v # NoValue
    PROVE  Shaped(Add(s, n, v), n, n)
<1> DEFINE t == Add(s, n, v)
           m == Len(s.points)
<1>a. t \in Series /\ m \in Nat /\ Len(t.points) = m + 1 /\ t.points # <<>> /\ t.current = v
  BY AddIs
<1>b. \A i \in 1 .. m : t.points[i] = s.points[i]
  BY AddIs
<1>c. t.points[m + 1].block = n /\ t.points[m + 1].value = v
  BY AddIs
<1>1. /\ m \in Nat /\ Len(t.points) = m + 1 /\ t.points # <<>> /\ t.current = v
      /\ \A i \in 1 .. m : t.points[i] = s.points[i]
      /\ t.points[m + 1].block = n /\ t.points[m + 1].value = v
  BY <1>a, <1>b, <1>c
<1>2. \A i \in 1 .. m : s.points[i].block <= n
  BY DEF Shaped
<1> HIDE DEF t, m
<1>3. \A i \in 1 .. m + 1 : t.points[i].block <= n
  <2> SUFFICES ASSUME NEW i \in 1 .. m + 1 PROVE t.points[i].block <= n
    OBVIOUS
  <2>1. CASE i = m + 1
    BY <1>1, <2>1
  <2>2. CASE i # m + 1
    <3>1. i \in 1 .. m
      BY <1>1, <2>2
    <3>2. QED
      BY <1>1, <1>2, <3>1
  <2>3. QED
    BY <2>1, <2>2
<1>4. QED
  BY <1>1, <1>3 DEF Shaped, t

LEMMA ShapedPrime ==
    ASSUME NEW s \in Series, NEW l \in Int, NEW n \in Int, Shaped(s, l, n), s.current = NoValue,
           NEW b \in Int, b <= n, NEW v \in Int, v # NoValue
    PROVE  Shaped(Add(s, b, v), l, n)
<1> DEFINE t == Add(s, b, v)
<1>1. s.points = <<>> /\ s.carry = NoValue
  BY DEF Shaped
<1>2. Len(s.points) = 0
  BY <1>1
<1>3. /\ Len(t.points) = Len(s.points) + 1 /\ t.points # <<>> /\ t.current = v /\ t.carry = s.carry
      /\ t.points[Len(s.points) + 1].block = b /\ t.points[Len(s.points) + 1].value = v
  <2>1. Len(t.points) = Len(s.points) + 1
    BY AddIs
  <2>2. t.points # <<>>
    BY AddIs
  <2>3. t.current = v
    BY AddIs
  <2>4. t.carry = s.carry
    BY AddIs
  <2>5. t.points[Len(s.points) + 1].block = b
    BY AddIs
  <2>6. t.points[Len(s.points) + 1].value = v
    BY AddIs
  <2>7. QED
    BY <2>1, <2>2, <2>3, <2>4, <2>5, <2>6
<1>4. Len(t.points) = 1 /\ t.points[1].block = b /\ t.points[1].value = v
  BY <1>2, <1>3
<1> HIDE DEF t
<1>5. QED
  BY <1>1, <1>3, <1>4 DEF Shaped, t

LEMMA ShapedPrune ==
    ASSUME NEW s \in Series, NEW l \in Int, NEW n \in Int, Shaped(s, l, n), NEW b \in Int
    PROVE  Shaped(Prune(s, b, Window), l, n)
<1> DEFINE t == Prune(s, b, Window)
           m == Len(s.points)
<1>1. PICK c \in 0 .. m : CutAt(s, t, b - Window, c)
  BY PruneIs
<1>2. /\ t \in Series /\ Len(t.points) = m - c /\ t.current = s.current
      /\ \A i \in 1 .. Len(t.points) : t.points[i] = s.points[c + i]
      /\ t.carry = IF c = 0 THEN s.carry ELSE s.points[c].value
  BY <1>1 DEF CutAt
<1>3. m \in Nat /\ (s.points = <<>> <=> m = 0) /\ (t.points = <<>> <=> m - c = 0)
  BY <1>2, PointsAre
<1>4. /\ m = 0 => s.current = s.carry
      /\ m # 0 => s.current = s.points[m].value /\ s.current # NoValue
      /\ \A i \in 1 .. m : s.points[i].block <= n
      /\ (\A i \in 1 .. m : s.points[i].block <= l) \/ (m = 1 /\ s.carry = NoValue)
  BY <1>3 DEF Shaped
<1> HIDE DEF t, m
<1>5. \A i \in 1 .. m - c : c + i \in 1 .. m /\ t.points[i] = s.points[c + i]
  BY <1>2, <1>3
<1>6. m - c = 0 => t.current = t.carry
  BY <1>2, <1>3, <1>4
<1>7. m - c # 0 => t.current = t.points[m - c].value /\ t.current # NoValue
  <2> SUFFICES ASSUME m - c # 0 PROVE t.current = t.points[m - c].value /\ t.current # NoValue
    OBVIOUS
  <2>1. m - c \in 1 .. m - c /\ c + (m - c) = m /\ m # 0
    BY <1>3
  <2>2. t.points[m - c] = s.points[m]
    BY <1>5, <2>1
  <2>3. QED
    BY <1>2, <1>4, <2>1, <2>2
<1>8. \A i \in 1 .. m - c : t.points[i].block <= n
  BY <1>4, <1>5
<1>9. (\A i \in 1 .. m - c : t.points[i].block <= l) \/ (m - c = 1 /\ t.carry = NoValue)
  <2>1. CASE \A i \in 1 .. m : s.points[i].block <= l
    BY <1>5, <2>1
  <2>2. CASE m = 1 /\ s.carry = NoValue
    <3>1. c = 0 \/ c = 1
      BY <2>2
    <3>2. CASE c = 0
      BY <1>2, <2>2, <3>2
    <3>3. CASE c = 1
      <4>1. m - c = 0
        BY <2>2, <3>3
      <4>2. QED
        BY <4>1
    <3>4. QED
      BY <3>1, <3>2, <3>3
  <2>3. QED
    BY <1>4, <2>1, <2>2
<1>10. QED
  BY <1>2, <1>3, <1>6, <1>7, <1>8, <1>9 DEF Shaped, t

LEMMA FallIsRecent ==
    ASSUME NEW s \in Series, NEW l \in Int, NEW n \in Int, Shaped(s, l, n),
           Top(Prune(s, n, Window)) # NoValue, Prune(s, n, Window).current < Top(Prune(s, n, Window))
    PROVE  n - Window < l
<1> DEFINE t == Prune(s, n, Window)
           m == Len(t.points)
<1>1. PICK c \in 0 .. Len(s.points) : CutAt(s, t, n - Window, c)
  BY PruneIs
<1>2. t \in Series /\ Shaped(t, l, n)
  BY <1>1, ShapedPrune DEF CutAt
<1>3. m # 0 => t.points[1].block > n - Window
  <2> SUFFICES ASSUME m # 0 PROVE t.points[1].block > n - Window
    OBVIOUS
  <2> DEFINE d == Len(s.points)
  <2>1. d \in Nat /\ m \in Nat /\ m = d - c /\ (c < d => s.points[c + 1].block > n - Window)
        /\ \A i \in 1 .. m : t.points[i] = s.points[c + i]
    BY <1>1, <1>2, PointsAre DEF CutAt
  <2>2. c < d /\ 1 \in 1 .. m
    BY <2>1
  <2>3. QED
    BY <2>1, <2>2
<1>4. Values(t) # {} /\ Top(t) \in Values(t) /\ t.current < Top(t)
  <2>1. Values(t) # {}
    BY DEF Top
  <2>2. QED
    BY <1>2, <2>1, TopIn
<1>5. /\ m \in Nat /\ (t.points = <<>> <=> m = 0) /\ DOMAIN t.points = 1 .. m
      /\ \A i \in 1 .. m : t.points[i].block \in Int /\ t.points[i].value \in Int
      /\ t.current \in Int
  BY <1>2, PointsAre DEF Series
<1>6. /\ m = 0 => t.current = t.carry
      /\ m # 0 => t.current = t.points[m].value
      /\ (\A i \in 1 .. m : t.points[i].block <= l) \/ (m = 1 /\ t.carry = NoValue)
  BY <1>2, <1>5 DEF Shaped
<1>7. Top(t) \in {t.points[i].value : i \in 1 .. m} \cup ({t.carry} \ {NoValue})
  BY <1>4, <1>5 DEF Values
<1> DEFINE x == Top(t)
<1> HIDE DEF t, m, x
<1>8. m # 0 /\ ~(m = 1 /\ t.carry = NoValue)
  <2>1. CASE m = 0
    <3>1. x = t.carry
      BY <1>5, <1>7, <2>1 DEF x
    <3>2. QED
      BY <1>4, <1>5, <1>6, <2>1, <3>1 DEF x
  <2>2. CASE m = 1 /\ t.carry = NoValue
    <3>1. x = t.points[1].value
      BY <1>7, <2>2 DEF x
    <3>2. QED
      BY <1>4, <1>5, <1>6, <2>2, <3>1 DEF x
  <2>3. QED
    BY <2>1, <2>2
<1>9. 1 \in 1 .. m /\ t.points[1].block <= l /\ t.points[1].block > n - Window /\ t.points[1].block \in Int
  BY <1>3, <1>5, <1>6, <1>8
<1>10. QED
  BY <1>9, DetectorConfig
=============================================================================
