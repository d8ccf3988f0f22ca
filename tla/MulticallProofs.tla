--------------------------- MODULE MulticallProofs ---------------------------
(***************************************************************************)
(* What a read through Multicall keeps, for any calls, any behaviour of    *)
(* the contracts, any size of chunks and any number of undecodable         *)
(* answers.                                                                *)
(***************************************************************************)
EXTENDS Multicall, SequenceTheorems, FiniteSetTheorems, WellFoundedInduction, TLAPS

Behaviour == {"good", "reverts", "eater"}

(* One result against its call: a success is true, a failure is true or    *)
(* the call stands behind an eater in its own chunk.                       *)
Starved(i) ==
    \E k \in DOMAIN Chunks(Len(calls)) :
        LET c == Chunks(Len(calls))[k]
        IN  i \in Members(c) /\ \E e \in Eaters(c) : e < i
Justified(i) == (results[i] => Succeeds(i)) /\ (Succeeds(i) /\ ~results[i] => Starved(i))

(* A chunk that may be cut from a chunk of n calls.                        *)
Inside(c, n) ==
    /\ c \in [from : 1 .. n, to : 1 .. n]
    /\ c.from <= c.to
    /\ \E k \in DOMAIN Chunks(n) : Chunks(n)[k].from <= c.from /\ c.to <= Chunks(n)[k].to

(* The chunks left follow one another up to the last call.                 *)
Left(s, first, n) ==
    /\ s # <<>>
    /\ \A i \in 1 .. Len(s) : Inside(s[i], n)
    /\ s[1].from = first
    /\ s[Len(s)].to = n
    /\ \A i \in 1 .. Len(s) - 1 : s[i + 1].from = s[i].to + 1

ReadInv ==
    /\ ReadType
    /\ \A i \in 1 .. Len(results) : Justified(i)
    /\ read = "chunks" => Left(chunks, Len(results) + 1, Len(calls))
    /\ read \in {"recheck", "done"} =>
          /\ Len(results) = Len(calls)
          /\ \A i \in required \ recheck : results[i] = Succeeds(i)
    /\ read = "done" => recheck = {}

-----------------------------------------------------------------------------
(* A quotient and its product.                                             *)
LEMMA Quotient ==
    ASSUME NEW a \in Nat, NEW b \in Nat \ {0}
    PROVE  a \div b \in Nat /\ b * (a \div b) <= a /\ a < b * (a \div b) + b
OBVIOUS

LEMMA Half ==
    ASSUME NEW a \in Nat, a >= 2
    PROVE  a \div 2 \in Nat /\ a \div 2 >= 1 /\ a \div 2 < a
OBVIOUS

\* A place beyond the first r ones and up to the last, counted from the part that begins after r.
LEMMA PlaceInPart ==
    ASSUME NEW last \in Int, NEW r \in Int, r >= 0, NEW i \in 1 .. last, i > r
    PROVE  /\ i - r \in 1 .. last - r /\ (r + 1) + (i - r) - 1 = i
           /\ i \in r + 1 .. last
  OBVIOUS

(* A function on an interval is a sequence.                                *)
LEMMA SeqOf ==
    ASSUME NEW T, NEW m \in Nat, NEW s,
           s = [i \in 1 .. m |-> s[i]],
           \A i \in 1 .. m : s[i] \in T
    PROVE  s \in Seq(T) /\ Len(s) = m
<1>1. s \in [1 .. m -> T]
  OBVIOUS
<1>2. QED
  BY <1>1

(* What the chunks of n calls are.                                         *)
LEMMA ChunksOf ==
    ASSUME NEW n \in Nat \ {0}
    PROVE  LET s == Chunks(n)
           IN  /\ s \in Seq([from : 1 .. n, to : 1 .. n])
               /\ s # <<>>
               /\ \A i \in 1 .. Len(s) : s[i].from <= s[i].to
               /\ s[1].from = 1
               /\ s[Len(s)].to = n
               /\ \A i \in 1 .. Len(s) - 1 : s[i + 1].from = s[i].to + 1
<1> DEFINE s == Chunks(n)
           m == (n + ChunkSize - 1) \div ChunkSize
<1> USE MulticallConfig
<1>1. m \in Nat /\ ChunkSize * m <= n + ChunkSize - 1 /\ n + ChunkSize - 1 < ChunkSize * m + ChunkSize
  <2>1. n + ChunkSize - 1 \in Nat
    OBVIOUS
  <2>2. QED
    BY <2>1, Quotient
<1>2. m >= 1
  <2>1. CASE m = 0
    <3>1. ChunkSize * m = 0
      BY <2>1
    <3>2. QED
      BY <1>1, <3>1
  <2>2. QED
    BY <2>1, <1>1
<1>3. s = [i \in 1 .. m |-> Chunk(i * ChunkSize - ChunkSize + 1, IF i * ChunkSize < n THEN i * ChunkSize ELSE n)]
  BY DEF Chunks
<1> HIDE DEF m
<1>4. ASSUME NEW i \in 1 .. m
      PROVE  /\ i * ChunkSize \in Nat /\ i * ChunkSize >= ChunkSize
             /\ i * ChunkSize - ChunkSize + 1 <= n
             /\ i < m => i * ChunkSize < n /\ (i + 1) * ChunkSize = i * ChunkSize + ChunkSize
             /\ i = m => i * ChunkSize >= n
  <2>1. PICK k \in Nat : m = i + k
    <3>1. m - i \in Nat /\ m = i + (m - i)
      BY <1>1
    <3>2. QED
      BY <3>1
  <2>2. i - 1 \in Nat /\ i = (i - 1) + 1
    OBVIOUS
  <2>3. i * ChunkSize = (i - 1) * ChunkSize + ChunkSize /\ (i - 1) * ChunkSize >= 0 /\ i * ChunkSize \in Nat
    BY <2>2
  <2>4. ChunkSize * m = i * ChunkSize + k * ChunkSize /\ k * ChunkSize \in Nat
    BY <2>1
  <2>5. i * ChunkSize - ChunkSize + 1 <= n
    BY <2>3, <2>4, <1>1
  <2>6. ASSUME i < m PROVE i * ChunkSize < n /\ (i + 1) * ChunkSize = i * ChunkSize + ChunkSize
    <3>1. k >= 1 /\ k - 1 \in Nat
      BY <2>1, <2>6
    <3>2. k * ChunkSize = (k - 1) * ChunkSize + ChunkSize /\ (k - 1) * ChunkSize >= 0
      BY <3>1
    <3>3. QED
      BY <3>2, <2>3, <2>4, <1>1
  <2>7. ASSUME i = m PROVE i * ChunkSize >= n
    <3>1. i * ChunkSize = ChunkSize * m
      BY <2>7
    <3>2. QED
      BY <3>1, <1>1
  <2>8. QED
    BY <2>3, <2>5, <2>6, <2>7
<1>5. ASSUME NEW i \in 1 .. m
      PROVE  /\ s[i] \in [from : 1 .. n, to : 1 .. n]
             /\ s[i].from = i * ChunkSize - ChunkSize + 1
             /\ s[i].from <= s[i].to
             /\ i < m => s[i].to = i * ChunkSize
             /\ i = m => s[i].to = n
  <2> DEFINE p == i * ChunkSize
  <2>1. s[i] = Chunk(p - ChunkSize + 1, IF p < n THEN p ELSE n)
    BY <1>3
  <2>2. p \in Nat /\ p >= ChunkSize /\ p - ChunkSize + 1 <= n /\ (i < m => p < n) /\ (i = m => p >= n)
    BY <1>4
  <2> HIDE DEF p
  <2>3. QED
    BY <2>1, <2>2 DEF Chunk, p
<1>6. s \in Seq([from : 1 .. n, to : 1 .. n]) /\ Len(s) = m
  <2> DEFINE T == [from : 1 .. n, to : 1 .. n]
  <2>1. s = [i \in 1 .. m |-> s[i]]
    BY <1>3
  <2>2. \A i \in 1 .. m : s[i] \in T
    BY <1>5
  <2> HIDE DEF s, T
  <2>3. s \in Seq(T) /\ Len(s) = m
    BY <2>1, <2>2, <1>1, SeqOf
  <2>4. QED
    BY <2>3 DEF T
<1> HIDE DEF s
<1>7. \A i \in 1 .. Len(s) - 1 : s[i + 1].from = s[i].to + 1
  <2> SUFFICES ASSUME NEW i \in 1 .. m - 1 PROVE s[i + 1].from = s[i].to + 1
    BY <1>6
  <2>1. i \in 1 .. m /\ i + 1 \in 1 .. m /\ i < m
    BY <1>1
  <2>2. s[i + 1].from = (i + 1) * ChunkSize - ChunkSize + 1 /\ s[i].to = i * ChunkSize
    BY <2>1, <1>5
  <2>3. (i + 1) * ChunkSize = i * ChunkSize + ChunkSize /\ i * ChunkSize \in Nat
    BY <2>1, <1>4
  <2>4. QED
    BY <2>2, <2>3
<1>8. 1 \in 1 .. m /\ m \in 1 .. m
  BY <1>1, <1>2
<1>9. s[1].from = 1
  <2>1. s[1].from = 1 * ChunkSize - ChunkSize + 1
    BY <1>5, <1>8
  <2>2. QED
    BY <2>1
<1>10. s[Len(s)].to = n /\ s # <<>>
  BY <1>5, <1>6, <1>8
<1>11. \A i \in 1 .. Len(s) : s[i].from <= s[i].to
  BY <1>5, <1>6
<1>12. QED
  BY <1>6, <1>7, <1>9, <1>10, <1>11 DEF s

(* The chunks a read begins with are left, all of them.                    *)
LEMMA ChunksLeft ==
    ASSUME NEW n \in Nat \ {0}
    PROVE  Left(Chunks(n), 1, n) /\ Chunks(n) \in Seq([from : 1 .. n, to : 1 .. n])
<1> DEFINE s == Chunks(n)
           T == [from : 1 .. n, to : 1 .. n]
<1>1. /\ s \in Seq(T)
      /\ s # <<>>
      /\ \A i \in 1 .. Len(s) : s[i].from <= s[i].to
      /\ s[1].from = 1
      /\ s[Len(s)].to = n
      /\ \A i \in 1 .. Len(s) - 1 : s[i + 1].from = s[i].to + 1
  BY ChunksOf
<1>2. ASSUME NEW i \in 1 .. Len(s) PROVE Inside(s[i], n)
  <2>1. s[i] \in T /\ i \in DOMAIN s
    <3> HIDE DEF s, T
    <3>1. QED
      BY <1>1
  <2>2. s[i].from <= s[i].from /\ s[i].to <= s[i].to
    BY <2>1
  <2>3. QED
    BY <2>1, <2>2, <1>1 DEF Inside
<1>3. QED
  BY <1>1, <1>2 DEF Left

(* The first chunk is answered: the others are left.                       *)
LEMMA TailLeft ==
    ASSUME NEW n \in Nat, NEW first, NEW T, NEW s \in Seq(T), Left(s, first, n)
    PROVE  IF Tail(s) = <<>> THEN s[1].to = n ELSE Left(Tail(s), s[1].to + 1, n)
<1>0. s # <<>> /\ Len(s) \in Nat \ {0}
  <2>1. s # <<>>
    BY DEF Left
  <2>2. QED
    BY <2>1, EmptySeq
<1>1. /\ Len(Tail(s)) = Len(s) - 1 /\ Tail(s) \in Seq(T)
      /\ \A i \in 1 .. Len(s) - 1 : Tail(s)[i] = s[i + 1]
      /\ Tail(s) = <<>> <=> Len(s) = 1
  <2>1. /\ Len(Tail(s)) = Len(s) - 1 /\ Tail(s) \in Seq(T)
        /\ \A i \in 1 .. Len(s) - 1 : Tail(s)[i] = s[i + 1]
    BY <1>0, HeadTailProperties
  <2>2. Tail(s) # <<>> => Len(Tail(s)) \in Nat \ {0}
    BY <2>1, EmptySeq
  <2>3. Tail(s) = <<>> => Len(Tail(s)) = 0
    BY EmptySeq
  <2>4. QED
    BY <1>0, <2>1, <2>2, <2>3
<1>2. CASE Len(s) = 1
  BY <1>1, <1>2 DEF Left
<1>3. CASE Len(s) > 1
  <2> DEFINE t == Tail(s)
  <2>1. t # <<>> /\ Len(t) = Len(s) - 1
    BY <1>1, <1>3
  <2>2. ASSUME NEW i \in 1 .. Len(t) PROVE Inside(t[i], n)
    BY <1>1, <1>3, <2>1 DEF Left
  <2>3. t[1] = s[2] /\ t[Len(t)] = s[Len(s)]
    BY <1>0, <1>1, <1>3
  <2>4. t[1].from = s[1].to + 1 /\ t[Len(t)].to = n
    <3>1. 1 \in 1 .. Len(s) - 1 /\ 1 + 1 = 2
      BY <1>0, <1>3
    <3>2. QED
      BY <3>1, <2>3 DEF Left
  <2>5. ASSUME NEW i \in 1 .. Len(t) - 1 PROVE t[i + 1].from = t[i].to + 1
    <3>1. i \in 1 .. Len(s) - 1 /\ i + 1 \in 1 .. Len(s) - 1 /\ t[i] = s[i + 1] /\ t[i + 1] = s[(i + 1) + 1]
      BY <1>0, <1>1, <2>1
    <3>2. QED
      BY <3>1 DEF Left
  <2>6. QED
    BY <2>1, <2>2, <2>4, <2>5 DEF Left
<1>4. Len(s) = 1 \/ Len(s) > 1
  <2>1. \A l \in Nat \ {0} : l = 1 \/ l > 1
    OBVIOUS
  <2>2. QED
    BY <1>0, <2>1, Zenon
<1>5. QED
  BY <1>2, <1>3, <1>4

(* The first chunk is cut in two: both halves are left, and the others.    *)
LEMMA CutLeft ==
    ASSUME NEW n \in Nat, NEW first, NEW T, NEW s \in Seq(T), Left(s, first, n),
           NEW a \in T, NEW b \in T, Inside(a, n), Inside(b, n),
           a.from = first, b.from = a.to + 1, b.to = s[1].to
    PROVE  Left(<<a, b>> \o Tail(s), first, n) /\ <<a, b>> \o Tail(s) \in Seq(T)
<1> DEFINE t == <<a, b>> \o Tail(s)
<1>1. s # <<>> /\ Len(s) \in Nat /\ Len(s) >= 1
  <2>1. s # <<>>
    BY DEF Left
  <2>2. QED
    BY <2>1, EmptySeq
<1>2. /\ <<a, b>> \in Seq(T) /\ Len(<<a, b>>) = 2
      /\ Tail(s) \in Seq(T) /\ Len(Tail(s)) = Len(s) - 1
      /\ \A i \in 1 .. Len(s) - 1 : Tail(s)[i] = s[i + 1]
  BY <1>1, HeadTailProperties
<1>3. /\ t \in Seq(T) /\ Len(t) = Len(s) + 1
      /\ t[1] = a /\ t[2] = b
      /\ \A i \in 3 .. Len(s) + 1 : t[i] = Tail(s)[i - 2]
  BY <1>1, <1>2, ConcatProperties
<1>4. \A i \in 3 .. Len(s) + 1 : t[i] = s[i - 1]
  <2> TAKE i \in 3 .. Len(s) + 1
  <2>1. t[i] = Tail(s)[i - 2]
    BY <1>3
  <2>2. i - 2 \in 1 .. Len(s) - 1 /\ (i - 2) + 1 = i - 1
    BY <1>1
  <2>3. QED
    BY <1>2, <2>1, <2>2
<1> HIDE DEF t
<1>5. ASSUME NEW i \in 1 .. Len(t) PROVE Inside(t[i], n)
  <2>1. i = 1 \/ i = 2 \/ (i \in 3 .. Len(s) + 1 /\ i - 1 \in 1 .. Len(s))
    BY <1>1, <1>3
  <2>2. QED
    BY <2>1, <1>3, <1>4 DEF Left
<1>6. t[Len(t)].to = n
  <2>1. CASE Len(s) = 1
    BY <2>1, <1>3 DEF Left
  <2>2. CASE Len(s) > 1
    <3>1. t[Len(t)] = s[Len(s)]
      BY <1>1, <1>3, <1>4, <2>2
    <3>2. QED
      BY <3>1 DEF Left
  <2>3. Len(s) = 1 \/ Len(s) > 1
    <3>1. \A l \in Nat : l >= 1 => l = 1 \/ l > 1
      OBVIOUS
    <3>2. QED
      BY <1>1, <3>1, Zenon
  <2>4. QED
    BY <2>1, <2>2, <2>3
<1>7. ASSUME NEW i \in 1 .. Len(t) - 1 PROVE t[i + 1].from = t[i].to + 1
  <2>1. CASE i = 1
    BY <2>1, <1>3
  <2>2. CASE i = 2
    <3>1. 1 \in 1 .. Len(s) - 1 /\ t[3] = s[2] /\ 1 + 1 = 2
      BY <2>2, <1>1, <1>3, <1>4
    <3>2. s[2].from = s[1].to + 1
      BY <3>1 DEF Left
    <3>3. QED
      BY <2>2, <3>1, <3>2, <1>3
  <2>3. CASE i > 2
    <3>1. /\ i - 1 \in 1 .. Len(s) - 1 /\ (i - 1) + 1 = i /\ (i + 1) - 1 = i
          /\ i \in 3 .. Len(s) + 1 /\ i + 1 \in 3 .. Len(s) + 1
      BY <2>3, <1>1, <1>3
    <3>2. t[i] = s[i - 1] /\ t[i + 1] = s[i]
      BY <3>1, <1>4
    <3>3. s[(i - 1) + 1].from = s[i - 1].to + 1
      BY <3>1 DEF Left
    <3>4. QED
      BY <3>1, <3>2, <3>3
  <2>4. QED
    BY <2>1, <2>2, <2>3, <1>1, <1>3
<1>8. t # <<>> /\ t[1].from = first
  BY <1>1, <1>3
<1>9. Left(t, first, n)
  BY <1>5, <1>6, <1>7, <1>8 DEF Left
<1>10. QED
  BY <1>3, <1>9 DEF t

-----------------------------------------------------------------------------
(* A read that begins is in order, whatever the calls.                     *)
LEMMA BeginKeeps ==
    ASSUME NEW c \in Seq(Behaviour), c # <<>>, NEW req \in SUBSET (1 .. Len(c)), BeginRead(c, req)
    PROVE  ReadInv'
<1> DEFINE n == Len(c)
<1>1. n \in Nat \ {0}
  BY EmptySeq
<1>2. /\ calls' = c /\ required' = req /\ chunks' = Chunks(n) /\ results' = <<>>
      /\ recheck' = {} /\ read' = "chunks" /\ requests' = 0 /\ garbage' = MaxGarbage
  BY DEF BeginRead
<1>3. Left(Chunks(n), 1, n) /\ Chunks(n) \in Seq([from : 1 .. n, to : 1 .. n])
  BY <1>1, ChunksLeft
<1>4. Len(<<>>) = 0 /\ <<>> \in Seq(BOOLEAN) /\ Positions' = 1 .. n /\ 0 + 1 = 1
  BY <1>2 DEF Positions
<1>5. ReadType'
  BY <1>1, <1>2, <1>3, <1>4, MulticallConfig DEF ReadType, Behaviour
<1>6. \A i \in 1 .. Len(results') : Justified(i)'
  BY <1>2, <1>4
<1>7. (read = "chunks" => Left(chunks, Len(results) + 1, Len(calls)))'
  BY <1>2, <1>3, <1>4
<1>8. QED
  BY <1>2, <1>5, <1>6, <1>7 DEF ReadInv

(* Nothing is being read.                                                  *)
LEMMA EndKeeps ==
    ASSUME EndRead
    PROVE  ReadInv'
<1>1. Len(<<>>) = 0 /\ \A S : <<>> \in Seq(S)
  BY EmptySeq
<1>2. ReadType'
  BY <1>1, MulticallConfig DEF EndRead, ReadType, Positions
<1>3. QED
  BY <1>1, <1>2 DEF EndRead, ReadInv

(* The first chunk is answered as its calls behave.                        *)
LEMMA AnswerKeeps ==
    ASSUME ReadInv, Asked, garbage' = garbage,
           NEW answers \in Seq(BOOLEAN), Len(answers) = Size(chunks[1]),
           \A k \in 1 .. Size(chunks[1]) :
               LET i == chunks[1].from + k - 1
               IN  /\ answers[k] => Succeeds(i)
                   /\ Succeeds(i) /\ ~answers[k] => \E e \in Eaters(chunks[1]) : e < i,
           GoOn(Tail(chunks), answers)
    PROVE  ReadInv'
<1> DEFINE n == Len(calls)
           T == [from : 1 .. n, to : 1 .. n]
           c == chunks[1]
           r == Len(results)
<1>1. /\ ReadType /\ calls \in Seq(Behaviour) /\ n \in Nat /\ Positions = 1 .. n /\ chunks \in Seq(T)
      /\ results \in Seq(BOOLEAN) /\ r \in Nat
  BY DEF ReadInv, ReadType, Positions, Behaviour
<1>2. /\ read = "chunks" /\ calls' = calls /\ required' = required /\ requests' = requests + 1
      /\ chunks' = Tail(chunks) /\ results' = results \o answers
      /\ Left(chunks, r + 1, n)
  BY DEF Asked, GoOn, ReadInv
<1>3. /\ Inside(c, n) /\ c.from = r + 1 /\ c.from \in 1 .. n /\ c.to \in 1 .. n /\ c.from <= c.to
      /\ chunks # <<>>
  <2>1. Inside(c, n) /\ c.from = r + 1 /\ chunks # <<>>
    <3> HIDE DEF T
    <3>1. chunks # <<>> /\ Len(chunks) \in Nat \ {0}
      BY <1>1, <1>2, EmptySeq DEF Left
    <3>2. QED
      BY <1>2, <3>1 DEF Left
  <2>2. QED
    BY <2>1 DEF Inside
<1>11. /\ Len(answers) = Size(c) /\ Size(c) = c.to - r
      /\ c.from \in Int /\ c.to \in Int /\ r \in Int /\ r < c.to
  <2>1. Len(answers) = Size(c) /\ Size(c) = c.to - c.from + 1
    BY DEF Size
  <2>2. c.from \in Int /\ c.to \in Int /\ r \in Int /\ n \in Int /\ c.from = r + 1 /\ c.from <= c.to
    BY <1>1, <1>3
  <2> HIDE DEF c, r, n
  <2>3. QED
    BY <2>1, <2>2
<1>4. /\ results' \in Seq(BOOLEAN) /\ Len(results') = c.to
      /\ \A i \in 1 .. r : results'[i] = results[i]
      /\ \A i \in r + 1 .. c.to : results'[i] = answers[i - r]
  <2>1. Len(answers) = c.to - r /\ c.to \in Int /\ r \in Int /\ r >= 0 /\ r < c.to
    BY <1>1, <1>11
  <2>2. /\ results' \in Seq(BOOLEAN) /\ Len(results') = r + Len(answers)
        /\ \A i \in 1 .. r + Len(answers) : results'[i] = IF i <= r THEN results[i] ELSE answers[i - r]
    BY <1>1, <1>2, ConcatProperties
  <2> HIDE DEF r, c
  <2>3. Len(results') = c.to
    BY <2>1, <2>2
  <2>4. ASSUME NEW i \in 1 .. r PROVE results'[i] = results[i]
    <3>1. i \in 1 .. r + Len(answers) /\ i <= r
      BY <2>1
    <3>2. QED
      BY <2>2, <3>1, Zenon
  <2>5. \A i \in r + 1 .. c.to : results'[i] = answers[i - r]
    BY <2>1, <2>2
  <2>6. QED
    BY <2>2, <2>3, <2>4, <2>5
<1>5. ASSUME NEW i \in 1 .. c.to PROVE Justified(i)'
  <2>0. Succeeds(i)' = Succeeds(i) /\ Starved(i)' = Starved(i)
    BY <1>2 DEF Succeeds, Starved, Eaters, Members
  <2>1. CASE i <= r
    <3>1. i \in 1 .. r /\ Justified(i) /\ results'[i] = results[i]
      BY <2>1, <1>1, <1>4 DEF ReadInv
    <3>2. QED
      BY <2>0, <3>1 DEF Justified
  <2>2. CASE i > r
    <3>1. /\ i - r \in 1 .. Size(c) /\ c.from + (i - r) - 1 = i /\ i \in r + 1 .. c.to
          /\ i \in c.from .. c.to
      <4>1. Size(c) = c.to - r /\ c.from = r + 1 /\ c.to \in Int /\ r \in Int /\ r >= 0
        BY <1>1, <1>3, <1>11
      <4>2. /\ i - r \in 1 .. c.to - r /\ (r + 1) + (i - r) - 1 = i /\ i \in r + 1 .. c.to
        <5> HIDE DEF c, r
        <5>1. QED
          BY <2>2, <4>1, PlaceInPart
      <4>3. QED
        BY <4>1, <4>2, Zenon
    <3>2. results'[i] = answers[i - r]
      BY <3>1, <1>4
    <3>3. answers[i - r] => Succeeds(i)
      BY <3>1
    <3>4. Succeeds(i) /\ ~answers[i - r] => \E e \in Eaters(c) : e < i
      BY <3>1
    <3>5. ASSUME NEW e \in Eaters(c), e < i PROVE Starved(i)
      <4>1. PICK k \in DOMAIN Chunks(n) : Chunks(n)[k].from <= c.from /\ c.to <= Chunks(n)[k].to
        BY <1>3 DEF Inside
      <4> DEFINE d == Chunks(n)[k]
      <4>2. d.from \in Int /\ d.to \in Int /\ d.from <= c.from /\ c.to <= d.to
        <5>1. n \in Nat \ {0}
          BY <1>1, <1>3
        <5>2. Chunks(n) \in Seq(T)
          BY <5>1, ChunksLeft
        <5>3. d \in T
          <6> HIDE DEF T
          <6>1. QED
            BY <5>2
        <5>4. QED
          BY <4>1, <5>3
      <4>3. i \in Members(d) /\ e \in Eaters(d)
        <5>1. e \in Members(c) /\ calls[e] = "eater"
          BY <3>5 DEF Eaters
        <5>2. /\ i \in c.from .. c.to /\ e \in c.from .. c.to /\ c.from \in Int /\ c.to \in Int
          BY <3>1, <5>1, <1>11 DEF Members
        <5> HIDE DEF c, d
        <5>3. i \in d.from .. d.to /\ e \in d.from .. d.to
          BY <5>2, <4>2
        <5>4. QED
          BY <5>1, <5>3 DEF Members, Eaters
      <4>4. QED
        BY <3>5, <4>3 DEF Starved
    <3>6. QED
      BY <2>0, <3>2, <3>3, <3>4, <3>5 DEF Justified
  <2>3. QED
    BY <2>1, <2>2, <1>1, <1>3
<1>6. IF Tail(chunks) = <<>> THEN c.to = n ELSE Left(Tail(chunks), c.to + 1, n)
  BY <1>1, <1>2, TailLeft
<1>7. Tail(chunks) \in Seq(T)
  <2> HIDE DEF T
  <2>1. QED
    BY <1>1, <1>3, HeadTailProperties
<1>8. CASE Tail(chunks) = <<>>
  <2>1. read' = "recheck" /\ recheck' = {i \in required : ~results'[i]}
    BY <1>8 DEF GoOn
  <2>2. ReadType'
    BY <2>1, <1>1, <1>2, <1>3, <1>4, <1>7 DEF ReadType, Positions
  <2>3. \A i \in required' \ recheck' : results'[i] = Succeeds(i)'
    <3> SUFFICES ASSUME NEW i \in required' \ recheck' PROVE results'[i] = Succeeds(i)'
      OBVIOUS
    <3>1. i \in 1 .. c.to /\ results'[i] /\ results'[i] \in BOOLEAN /\ Succeeds(i)' \in BOOLEAN
      BY <2>1, <1>1, <1>2, <1>4, <1>6, <1>8 DEF ReadType, Succeeds
    <3>2. Succeeds(i)'
      BY <3>1, <1>5 DEF Justified
    <3>3. QED
      BY <3>1, <3>2
  <2>4. QED
    BY <2>1, <2>2, <2>3, <1>2, <1>4, <1>5, <1>6, <1>8 DEF ReadInv
<1>9. CASE Tail(chunks) # <<>>
  <2>1. read' = "chunks" /\ recheck' = recheck
    BY <1>9, <1>2 DEF GoOn
  <2>2. ReadType'
    BY <2>1, <1>1, <1>2, <1>3, <1>4, <1>7, SMTT(60) DEF ReadType, Positions
  <2>3. (read = "chunks" => Left(chunks, Len(results) + 1, Len(calls)))'
    BY <1>2, <1>4, <1>6, <1>9
  <2>4. QED
    BY <2>1, <2>2, <2>3, <1>4, <1>5 DEF ReadInv
<1>10. QED
  BY <1>8, <1>9

(* The first chunk is cut in two.                                          *)
LEMMA DivideKeeps ==
    ASSUME ReadInv, Divide
    PROVE  ReadInv'
<1> DEFINE n == Len(calls)
           T == [from : 1 .. n, to : 1 .. n]
           c == chunks[1]
           h == Size(c) \div 2
           a == Chunk(c.from, c.from + h - 1)
           b == Chunk(c.from + h, c.to)
<1>1. /\ ReadType /\ n \in Nat /\ Positions = 1 .. n /\ chunks \in Seq(T)
      /\ results \in Seq(BOOLEAN) /\ Len(results) \in Nat
  BY DEF ReadInv, ReadType, Positions
<1>2. /\ read = "chunks" /\ calls' = calls /\ required' = required /\ requests' = requests + 1
      /\ chunks' = <<a, b>> \o Tail(chunks) /\ results' = results \o <<>>
      /\ Left(chunks, Len(results) + 1, n)
      /\ Size(c) > 1 /\ garbage' \in 0 .. MaxGarbage
  <2>1. GoOn(Halves(c) \o Tail(chunks), <<>>) /\ Asked /\ Size(c) > 1 /\ Refused
    BY DEF Divide
  <2>2. Halves(c) = <<a, b>>
    BY DEF Halves
  <2>3. garbage' \in 0 .. MaxGarbage
    BY <2>1, <1>1, MulticallConfig DEF Refused, ReadType
  <2>4. QED
    BY <2>1, <2>2, <2>3 DEF GoOn, Asked, ReadInv
<1>3. results' = results
  BY <1>1, <1>2, ConcatEmptySeq
<1>4. /\ Inside(c, n) /\ c.from = Len(results) + 1 /\ c \in T
      /\ c.from \in 1 .. n /\ c.to \in 1 .. n /\ c.from <= c.to
  <2>1. Inside(c, n) /\ c.from = Len(results) + 1
    <3> HIDE DEF T
    <3>1. chunks # <<>> /\ Len(chunks) \in Nat \ {0}
      BY <1>1, <1>2, EmptySeq DEF Left
    <3>2. QED
      BY <1>2, <3>1 DEF Left
  <2>2. QED
    BY <2>1 DEF Inside
<1>5. /\ h \in Nat /\ h >= 1 /\ c.from + h <= c.to
  <2>1. Size(c) = c.to - c.from + 1 /\ c.to \in Nat /\ c.from \in Nat
    BY <1>4 DEF Size
  <2>2. Size(c) \in Nat /\ Size(c) >= 2
    <3>1. Size(c) > 1 /\ Size(c) \in Int
      BY <2>1, <1>2
    <3> DEFINE k == Size(c)
    <3> HIDE DEF k
    <3>2. k \in Nat /\ k >= 2
      BY <3>1 DEF k
    <3>3. QED
      BY <3>2 DEF k
  <2>3. h \in Nat /\ h >= 1 /\ h < Size(c)
    BY <2>2, Half
  <2> HIDE DEF c, h
  <2>4. QED
    BY <2>1, <2>3
<1>6. /\ a \in T /\ b \in T /\ a.from = c.from /\ b.from = a.to + 1 /\ b.to = c.to
      /\ a.from <= a.to /\ b.from <= b.to
  <2> HIDE DEF c, h, n
  <2>1. QED
    BY <1>1, <1>4, <1>5 DEF Chunk
<1>7. Inside(a, n) /\ Inside(b, n)
  <2>1. PICK k \in DOMAIN Chunks(n) : Chunks(n)[k].from <= c.from /\ c.to <= Chunks(n)[k].to
    BY <1>4 DEF Inside
  <2> DEFINE d == Chunks(n)[k]
  <2>2. d.from \in Int /\ d.to \in Int /\ d.from <= c.from /\ c.to <= d.to
    <3>1. n \in Nat \ {0}
      BY <1>1, <1>4
    <3>2. Chunks(n) \in Seq(T)
      BY <3>1, ChunksLeft
    <3>3. d \in T
      <4> HIDE DEF T
      <4>1. QED
        BY <3>2
    <3>4. QED
      BY <3>3, <2>1
  <2>3. a.to <= c.to /\ c.from <= b.from
    <3> HIDE DEF c, h, n
    <3>1. QED
      BY <1>1, <1>4, <1>5 DEF Chunk
  <2>4. d.from <= a.from /\ a.to <= d.to /\ d.from <= b.from /\ b.to <= d.to
    <3>1. a.to \in Int /\ b.from \in Int /\ c.from \in Int /\ c.to \in Int
      BY <1>4, <1>6
    <3> HIDE DEF a, b, c, d
    <3>2. QED
      BY <3>1, <2>2, <2>3, <1>6
  <2>5. QED
    BY <1>6, <2>4 DEF Inside
<1>8. Left(chunks', Len(results) + 1, n) /\ chunks' \in Seq(T)
  <2> HIDE DEF T, a, b
  <2>1. QED
    BY <1>1, <1>2, <1>4, <1>6, <1>7, CutLeft
<1>9. read' = "chunks" /\ recheck' = recheck
  <2>1. chunks' # <<>>
    BY <1>8 DEF Left
  <2>2. QED
    BY <2>1, <1>2 DEF Divide, GoOn
<1>10. ReadType'
  BY <1>1, <1>2, <1>3, <1>8, <1>9, SMTT(60) DEF ReadType, Positions
<1>11. ASSUME NEW i \in 1 .. Len(results') PROVE Justified(i)'
  <2>1. Justified(i)
    BY <1>3 DEF ReadInv
  <2>2. QED
    BY <2>1, <1>2, <1>3 DEF Justified, Succeeds, Starved, Eaters, Members
<1>12. QED
  BY <1>2, <1>3, <1>8, <1>9, <1>10, <1>11 DEF ReadInv

(* A failed call that must be right is asked again.                        *)
LEMMA RecheckKeeps ==
    ASSUME ReadInv, Recheck
    PROVE  ReadInv'
<1>1. PICK i \in recheck :
         /\ results' = [results EXCEPT ![i] = Succeeds(i)] /\ recheck' = recheck \ {i}
         /\ read = "recheck"
         /\ UNCHANGED <<calls, required, chunks, read, requests, garbage>>
  BY DEF Recheck
<1>2. /\ ReadType /\ results \in Seq(BOOLEAN) /\ Len(results) = Len(calls) /\ i \in required
      /\ i \in 1 .. Len(results) /\ Succeeds(i) \in BOOLEAN
  BY <1>1 DEF ReadInv, ReadType, Positions, Succeeds
<1>3. /\ results' \in Seq(BOOLEAN) /\ Len(results') = Len(results)
      /\ results'[i] = Succeeds(i)
      /\ \A j \in 1 .. Len(results) : j # i => results'[j] = results[j]
  BY <1>1, <1>2
<1>4. ReadType'
  BY <1>1, <1>2, <1>3 DEF ReadType, Positions
<1>5. \A j : Succeeds(j)' = Succeeds(j) /\ Starved(j)' = Starved(j)
  BY <1>1 DEF Succeeds, Starved, Eaters, Members
<1>6. ASSUME NEW j \in 1 .. Len(results') PROVE Justified(j)'
  <2>1. Justified(j) /\ j \in 1 .. Len(results)
    BY <1>3 DEF ReadInv
  <2>2. CASE j = i
    BY <2>2, <1>3, <1>5 DEF Justified
  <2>3. CASE j # i
    BY <2>1, <2>3, <1>3, <1>5 DEF Justified
  <2>4. QED
    BY <2>2, <2>3
<1>7. ASSUME NEW j \in required' \ recheck' PROVE results'[j] = Succeeds(j)'
  <2>1. CASE j = i
    BY <2>1, <1>3, <1>5
  <2>2. CASE j # i
    <3>1. j \in required \ recheck /\ j \in 1 .. Len(results)
      BY <2>2, <1>1, <1>2 DEF ReadType, Positions
    <3>2. QED
      BY <2>2, <3>1, <1>1, <1>3, <1>5 DEF ReadInv
  <2>3. QED
    BY <2>1, <2>2
<1>8. QED
  BY <1>1, <1>2, <1>3, <1>4, <1>6, <1>7 DEF ReadInv

(* Every step of a read keeps it in order.                                 *)
LEMMA ReadStepKeeps ==
    ASSUME ReadInv, ReadStep
    PROVE  ReadInv'
<1>1. CASE Single
  <2> DEFINE c == chunks[1]
             answers == <<Succeeds(c.from)>>
  <2>1. /\ Asked /\ garbage' = garbage /\ Size(c) = 1 /\ GoOn(Tail(chunks), answers)
        /\ read = "chunks"
    BY <1>1 DEF Single, Asked
  <2>2. answers \in Seq(BOOLEAN) /\ Len(answers) = Size(c)
    BY <2>1 DEF Succeeds
  <2>3. c.from \in Int
    <3>1. Inside(c, Len(calls))
      <4>1. Left(chunks, Len(results) + 1, Len(calls))
        BY <2>1 DEF ReadInv
      <4>2. Len(chunks) \in Nat \ {0}
        BY <4>1, EmptySeq DEF Left, ReadInv, ReadType
      <4>3. QED
        BY <4>1, <4>2 DEF Left
    <3>2. QED
      BY <3>1 DEF Inside
  <2>4. ASSUME NEW k \in 1 .. Size(c)
        PROVE  LET i == c.from + k - 1
               IN  /\ answers[k] => Succeeds(i)
                   /\ Succeeds(i) /\ ~answers[k] => \E e \in Eaters(c) : e < i
    <3>1. k = 1
      BY <2>1
    <3>2. c.from + k - 1 = c.from
      BY <3>1, <2>3
    <3>3. answers[k] = Succeeds(c.from)
      BY <3>1
    <3>4. QED
      BY <3>2, <3>3
  <2> HIDE DEF answers
  <2>5. QED
    BY <2>1, <2>2, <2>4, AnswerKeeps
<1>2. CASE Aggregate
  <2> DEFINE c == chunks[1]
  <2>1. PICK answers \in Answers(c) : GoOn(Tail(chunks), answers)
    BY <1>2 DEF Aggregate
  <2>2. Asked /\ garbage' = garbage /\ Size(c) > 1
    BY <1>2 DEF Aggregate
  <2>3. /\ answers \in [1 .. Size(c) -> BOOLEAN]
        /\ \A k \in 1 .. Size(c) :
              /\ answers[k] => Succeeds(c.from + k - 1)
              /\ ~answers[k] => ~Succeeds(c.from + k - 1) \/ \E e \in Eaters(c) : e < c.from + k - 1
    BY <2>1 DEF Answers
  <2>4. answers \in Seq(BOOLEAN) /\ Len(answers) = Size(c)
    <3>1. Size(c) \in Nat
      <4>1. Left(chunks, Len(results) + 1, Len(calls))
        BY <2>2 DEF ReadInv, Asked
      <4>2. Len(chunks) \in Nat \ {0}
        BY <4>1, EmptySeq DEF Left, ReadInv, ReadType
      <4>3. Inside(c, Len(calls))
        BY <4>1, <4>2 DEF Left
      <4>4. c.from \in Int /\ c.to \in Int /\ c.from <= c.to
        BY <4>3 DEF Inside
      <4> HIDE DEF c
      <4>5. QED
        BY <4>4 DEF Size
    <3> DEFINE m == Size(c)
    <3>2. m \in Nat /\ answers \in [1 .. m -> BOOLEAN]
      BY <3>1, <2>3
    <3> HIDE DEF m
    <3>3. answers \in Seq(BOOLEAN) /\ Len(answers) = m
      BY <3>2
    <3>4. QED
      BY <3>3 DEF m
  <2>5. QED
    BY <2>1, <2>2, <2>3, <2>4, AnswerKeeps
<1>3. CASE Divide
  BY <1>3, DivideKeeps
<1>4. CASE Recheck
  BY <1>4, RecheckKeeps
<1>5. CASE Return
  <2>1. /\ UNCHANGED <<calls, required, chunks, results, recheck, requests, garbage>>
        /\ read = "recheck" /\ recheck = {} /\ read' = "done"
    BY <1>5 DEF Return
  <2>2. ReadType'
    BY <2>1 DEF ReadInv, ReadType, Positions
  <2>3. \A i \in 1 .. Len(results') : Justified(i)'
    BY <2>1 DEF ReadInv, Justified, Succeeds, Starved, Eaters, Members
  <2>4. \A i \in required' \ recheck' : results'[i] = Succeeds(i)'
    BY <2>1 DEF ReadInv, Succeeds
  <2>5. QED
    BY <2>1, <2>2, <2>3, <2>4 DEF ReadInv
<1>6. QED
  BY <1>1, <1>2, <1>3, <1>4, <1>5 DEF ReadStep

(* What the invariant says of a read that is done.                         *)
LEMMA ReadDone ==
    ASSUME ReadInv
    PROVE  Aligned /\ RequiredRight /\ StarvedOnlyBehindEater
<1> SUFFICES ASSUME read = "done" PROVE Aligned /\ RequiredRight /\ StarvedOnlyBehindEater
  BY DEF Aligned, RequiredRight, StarvedOnlyBehindEater
<1>1. /\ Len(results) = Len(calls) /\ \A i \in Positions : Justified(i)
      /\ \A i \in required : results[i] = Succeeds(i)
  BY DEF ReadInv, Positions
<1>2. Aligned
  BY <1>1 DEF Aligned, Justified
<1>3. RequiredRight
  BY <1>1 DEF RequiredRight
<1>4. StarvedOnlyBehindEater
  BY <1>1 DEF StarvedOnlyBehindEater, Justified, Starved
<1>5. QED
  BY <1>2, <1>3, <1>4
-----------------------------------------------------------------------------
(* What a read costs.  Every request takes the first chunk off or replaces *)
(* it by its halves; so requests and chunks left together grow by two at a *)
(* cut.  Counted against the calls that are left, a read takes fewer than  *)
(* two requests a call; and the one eater of a read can only have the      *)
(* chunk cut that it is in, whose size is halved.                          *)
AllEaters == Eaters(Chunk(1, Len(calls)))
Parts == Len(Chunks(Len(calls)))

Twofold ==
    IF read = "chunks"
    THEN requests + 2 * (Len(calls) - Len(results)) - Len(chunks) <= 2 * Len(calls) - Parts
    ELSE requests <= 2 * Len(calls) - Parts

Dearest(e) ==
    IF read = "chunks"
    THEN /\ requests + Len(chunks) <= Parts + 2 * Log2Up[ChunkSize]
         /\ \A i \in 1 .. Len(chunks) :
               e \in Members(chunks[i]) =>
                  requests + Len(chunks) + 2 * Log2Up[Size(chunks[i])] <= Parts + 2 * Log2Up[ChunkSize]
    ELSE requests <= Parts + 2 * Log2Up[ChunkSize]

CostInv ==
    read # "idle" =>
        /\ Twofold
        /\ garbage = MaxGarbage => \A e \in Positions : AllEaters = {e} => Dearest(e)

(* A nonempty set of natural numbers has a least one.                      *)
LEMMA Least ==
    ASSUME NEW S, S \subseteq Nat, S # {}
    PROVE  \E m \in S : \A k \in S : m <= k
<1>1. PICK m \in S : \A k \in S : ~ (<<k, m>> \in OpToRel(<, Nat))
  <2>1. IsWellFoundedOn(OpToRel(<, Nat), Nat)
    BY NatLessThanWellFounded
  <2>2. QED
    BY <2>1, WFMin
<1>2. ASSUME NEW k \in S PROVE ~ (k < m)
  <2>1. k < m => <<k, m>> \in OpToRel(<, Nat)
    BY DEF OpToRel
  <2>2. QED
    BY <1>1, <2>1
<1>3. ASSUME NEW k \in S PROVE m <= k
  BY <1>2
<1>4. QED
  BY <1>3

(* Induction, for a set in place of a predicate.                           *)
LEMMA Induction ==
    ASSUME NEW S, 0 \in S, \A n \in Nat : n \in S => n + 1 \in S
    PROVE  Nat \subseteq S
<1>1. SUFFICES ASSUME NEW x \in Nat, x \notin S PROVE FALSE
  OBVIOUS
<1>2. PICK m \in Nat \ S : \A k \in Nat \ S : m <= k
  <2>1. Nat \ S \subseteq Nat /\ Nat \ S # {}
    BY <1>1
  <2>2. QED
    BY <2>1, Least
<1>3. m # 0 /\ m - 1 \in Nat
  BY <1>2
<1>4. m - 1 \in S
  BY <1>2, <1>3
<1>5. QED
  BY <1>2, <1>3, <1>4

(* Halves of a number.                                                    *)
LEMMA HalfUp ==
    ASSUME NEW n \in Nat, n > 1
    PROVE  /\ (n + 1) \div 2 \in Nat /\ (n + 1) \div 2 < n /\ (n + 1) \div 2 >= 1
           /\ n - n \div 2 = (n + 1) \div 2 /\ n \div 2 <= (n + 1) \div 2 /\ n \div 2 >= 1
OBVIOUS

LEMMA HalfUpMonotone ==
    ASSUME NEW a \in Nat, NEW b \in Nat, a <= b
    PROVE  (a + 1) \div 2 <= (b + 1) \div 2
OBVIOUS

(* The equation of Log2Up on 0 .. m.                                       *)
IsLog(f, m) ==
    /\ f \in [0 .. m -> Nat]
    /\ \A n \in 0 .. m : f[n] = IF n <= 1 THEN 0 ELSE 1 + f[(n + 1) \div 2]

(* There is such a function, for every m.                                  *)
LEMMA LogExists == \A m \in Nat : \E f : IsLog(f, m)
<1> DEFINE S == {m \in Nat : \E f : IsLog(f, m)}
<1>1. 0 \in S
  <2>1. IsLog([n \in 0 .. 0 |-> 0], 0)
    BY DEF IsLog
  <2>2. QED
    BY <2>1
<1>2. ASSUME NEW m \in Nat, m \in S PROVE m + 1 \in S
  <2>1. PICK f : IsLog(f, m)
    BY <1>2
  <2> DEFINE g == [n \in 0 .. m + 1 |-> IF n <= 1 THEN 0 ELSE 1 + f[(n + 1) \div 2]]
  <2>2. ASSUME NEW n \in 0 .. m + 1, n > 1
        PROVE  (n + 1) \div 2 \in 0 .. m
    BY <2>2, HalfUp
  <2>3. ASSUME NEW n \in 0 .. m PROVE g[n] = f[n]
    BY <2>1 DEF IsLog
  <2>4. g \in [0 .. m + 1 -> Nat]
    BY <2>1, <2>2 DEF IsLog
  <2>5. ASSUME NEW n \in 0 .. m + 1 PROVE g[n] = IF n <= 1 THEN 0 ELSE 1 + g[(n + 1) \div 2]
    <3>1. g[n] = IF n <= 1 THEN 0 ELSE 1 + f[(n + 1) \div 2]
      OBVIOUS
    <3>2. n > 1 => g[(n + 1) \div 2] = f[(n + 1) \div 2]
      BY <2>2, <2>3
    <3> HIDE DEF g
    <3>3. n <= 1 \/ n > 1
      OBVIOUS
    <3>4. QED
      BY <3>1, <3>2, <3>3
  <2> HIDE DEF g
  <2>6. IsLog(g, m + 1)
    BY <2>4, <2>5 DEF IsLog
  <2>7. QED
    BY <2>6
<1> HIDE DEF S
<1>3. Nat \subseteq S
  BY <1>1, <1>2, Induction
<1>4. QED
  BY <1>3 DEF S

(* What the recursive function is.                                         *)
LEMMA LogIs ==
    \A n \in 0 .. ChunkSize : Log2Up[n] = IF n <= 1 THEN 0 ELSE 1 + Log2Up[(n + 1) \div 2]
<1> DEFINE P(f) == f = [n \in 0 .. ChunkSize |-> IF n <= 1 THEN 0 ELSE 1 + f[(n + 1) \div 2]]
<1>1. PICK f : IsLog(f, ChunkSize)
  BY LogExists, MulticallConfig
<1>2. P(f)
  BY <1>1 DEF IsLog
<1>3. P(CHOOSE g : P(g))
  BY <1>2
<1>4. Log2Up = CHOOSE g : P(g)
  BY DEF Log2Up
<1>5. P(Log2Up)
  BY <1>3, <1>4
<1> DEFINE L == Log2Up
<1>6. P(L)
  BY <1>5
<1> HIDE DEF L
<1>7. QED
  BY <1>6 DEF L

(* Its values are natural numbers and grow with the argument.              *)
LEMMA LogGrows ==
    /\ \A n \in 0 .. ChunkSize : Log2Up[n] \in Nat
    /\ \A a, b \in 0 .. ChunkSize : a <= b => Log2Up[a] <= Log2Up[b]
<1> DEFINE L == Log2Up
           Known(m) == \A a, b \in 0 .. m : L[a] \in Nat /\ L[b] \in Nat /\ (a <= b => L[a] <= L[b])
           S == {m \in Nat : m <= ChunkSize => Known(m)}
<1>0. ChunkSize \in Nat
  BY MulticallConfig
<1>1. \A n \in 0 .. ChunkSize : L[n] = IF n <= 1 THEN 0 ELSE 1 + L[(n + 1) \div 2]
  BY LogIs
<1> HIDE DEF L
<1>2. 0 \in S
  BY <1>0, <1>1
<1>3. ASSUME NEW m \in Nat, m \in S PROVE m + 1 \in S
  <2> SUFFICES ASSUME m + 1 <= ChunkSize PROVE Known(m + 1)
    OBVIOUS
  <2>1. Known(m)
    <3>1. m <= ChunkSize
      BY <1>0
    <3>2. QED
      BY <1>3, <3>1
  <2>2. \A n \in 0 .. m + 1 : L[n] = IF n <= 1 THEN 0 ELSE 1 + L[(n + 1) \div 2]
    BY <1>0, <1>1
  <2>3. ASSUME NEW n \in 0 .. m + 1, n > 1
        PROVE  (n + 1) \div 2 \in 0 .. m /\ L[n] = 1 + L[(n + 1) \div 2]
    BY <2>2, <2>3, HalfUp
  <2>4. ASSUME NEW n \in 0 .. m + 1 PROVE L[n] \in Nat
    <3>1. CASE n <= 1
      BY <2>2, <3>1
    <3>2. CASE n > 1
      BY <2>1, <2>3, <3>2
    <3>3. QED
      BY <3>1, <3>2
  <2>5. ASSUME NEW a \in 0 .. m + 1, NEW b \in 0 .. m + 1, a <= b
        PROVE  L[a] <= L[b]
    <3>1. CASE a <= 1
      <4>1. L[a] = 0 /\ L[b] \in Nat
        BY <2>2, <2>4, <3>1
      <4>2. QED
        BY <4>1
    <3>2. CASE a > 1
      <4>1. b > 1
        BY <2>5, <3>2
      <4> DEFINE k == (a + 1) \div 2
                 h == (b + 1) \div 2
      <4>2. k \in 0 .. m /\ h \in 0 .. m /\ L[a] = 1 + L[k] /\ L[b] = 1 + L[h]
        BY <2>3, <3>2, <4>1
      <4>3. k <= h
        BY <2>5, HalfUpMonotone
      <4> HIDE DEF k, h
      <4>4. L[k] \in Nat /\ L[h] \in Nat /\ L[k] <= L[h]
        BY <2>1, <4>2, <4>3
      <4>5. QED
        BY <4>2, <4>4
    <3>3. QED
      BY <3>1, <3>2
  <2>6. QED
    BY <2>4, <2>5
<1> HIDE DEF S
<1>4. Nat \subseteq S
  BY <1>2, <1>3, Induction
<1>5. Known(ChunkSize)
  BY <1>0, <1>4 DEF S
<1>6. QED
  BY <1>0, <1>5 DEF L

(* A chunk that may be asked for is no larger than ChunkSize.              *)
LEMMA SizeOf ==
    ASSUME NEW n \in Nat, NEW c, Inside(c, n)
    PROVE  /\ c.from \in 1 .. n /\ c.to \in 1 .. n /\ c.from <= c.to
           /\ Size(c) \in 1 .. ChunkSize /\ Size(c) = c.to - c.from + 1
<1>1. /\ c.from \in 1 .. n /\ c.to \in 1 .. n /\ c.from <= c.to
      /\ \E k \in DOMAIN Chunks(n) : Chunks(n)[k].from <= c.from /\ c.to <= Chunks(n)[k].to
  BY DEF Inside
<1>2. PICK k \in DOMAIN Chunks(n) : Chunks(n)[k].from <= c.from /\ c.to <= Chunks(n)[k].to
  BY <1>1
<1> DEFINE p == k * ChunkSize
<1>3. k \in Int /\ ChunkSize \in Int /\ p \in Int
  BY <1>2, MulticallConfig DEF Chunks
<1>4. Chunks(n)[k] = Chunk(p - ChunkSize + 1, IF p < n THEN p ELSE n)
  BY <1>2 DEF Chunks
<1> HIDE DEF p
<1>5. p - ChunkSize + 1 <= c.from /\ c.to <= p
  BY <1>1, <1>2, <1>3, <1>4 DEF Chunk
<1>6. Size(c) = c.to - c.from + 1
  BY DEF Size
<1>7. QED
  BY <1>1, <1>3, <1>5, <1>6

(* The later chunks begin behind the first one.                            *)
LEMMA LeftApart ==
    ASSUME NEW n \in Nat, NEW first, NEW T, NEW s \in Seq(T), Left(s, first, n),
           NEW i \in 2 .. Len(s)
    PROVE  s[1].to < s[i].from
<1> DEFINE S == {k \in Nat : k + 2 <= Len(s) => s[1].to < s[k + 2].from}
<1>1. Len(s) \in Nat /\ \A j \in 1 .. Len(s) : s[j].from \in Int /\ s[j].to \in Int /\ s[j].from <= s[j].to
  <2>1. ASSUME NEW j \in 1 .. Len(s) PROVE s[j].from \in Int /\ s[j].to \in Int /\ s[j].from <= s[j].to
    <3>1. Inside(s[j], n)
      BY DEF Left
    <3>2. QED
      BY <3>1, SizeOf
  <2>2. QED
    BY <2>1
<1>2. \A j \in 1 .. Len(s) - 1 : s[j + 1].from = s[j].to + 1
  BY DEF Left
<1>3. 0 \in S
  BY <1>1, <1>2
<1>4. ASSUME NEW k \in Nat, k \in S PROVE k + 1 \in S
  <2> SUFFICES ASSUME (k + 1) + 2 <= Len(s) PROVE s[1].to < s[(k + 1) + 2].from
    OBVIOUS
  <2>1. k + 2 \in 1 .. Len(s) - 1 /\ k + 2 \in 1 .. Len(s) /\ 1 \in 1 .. Len(s) /\ (k + 1) + 2 = (k + 2) + 1
    BY <1>1
  <2>2. s[1].to < s[k + 2].from
    BY <1>4, <2>1
  <2>3. s[(k + 2) + 1].from = s[k + 2].to + 1
    BY <1>2, <2>1
  <2>4. s[k + 2].from <= s[k + 2].to /\ s[k + 2].from \in Int /\ s[k + 2].to \in Int /\ s[1].to \in Int
    BY <1>1, <2>1
  <2> DEFINE t == s[1].to
             f == s[k + 2].from
             u == s[k + 2].to
  <2>5. t < f /\ f <= u /\ t \in Int /\ f \in Int /\ u \in Int /\ s[(k + 1) + 2].from = u + 1
    BY <2>1, <2>2, <2>3, <2>4
  <2> HIDE DEF t, f, u
  <2>6. t < s[(k + 1) + 2].from
    BY <2>5
  <2>7. QED
    BY <2>6 DEF t
<1> HIDE DEF S
<1>5. i - 2 \in S
  <2>1. Nat \subseteq S
    BY <1>3, <1>4, Induction
  <2>2. i - 2 \in Nat
    BY <1>1
  <2>3. QED
    BY <2>1, <2>2
<1>6. QED
  BY <1>1, <1>5 DEF S

(* The chunk that is asked for next.                                       *)
LEMMA NextChunk ==
    ASSUME ReadInv, read = "chunks"
    PROVE  LET c == chunks[1]
           IN  /\ chunks \in Seq([from : Positions, to : Positions]) /\ Len(chunks) \in Nat \ {0}
               /\ chunks # <<>> /\ Left(chunks, Len(results) + 1, Len(calls))
               /\ Len(calls) \in Nat /\ Len(results) \in Nat /\ requests \in Nat
               /\ Inside(c, Len(calls)) /\ c.from = Len(results) + 1
               /\ c.from \in Positions /\ c.to \in Positions /\ c.from <= c.to
               /\ Size(c) \in 1 .. ChunkSize /\ Size(c) = c.to - c.from + 1
               /\ \A i \in 1 .. Len(chunks) :
                     /\ Inside(chunks[i], Len(calls))
                     /\ Size(chunks[i]) \in 1 .. ChunkSize
<1>1. /\ chunks \in Seq([from : Positions, to : Positions]) /\ Left(chunks, Len(results) + 1, Len(calls))
      /\ Len(calls) \in Nat /\ Len(results) \in Nat /\ requests \in Nat
  BY DEF ReadInv, ReadType
<1>2. chunks # <<>> /\ Len(chunks) \in Nat \ {0}
  BY <1>1, EmptySeq DEF Left
<1>3. ASSUME NEW i \in 1 .. Len(chunks)
      PROVE  Inside(chunks[i], Len(calls)) /\ Size(chunks[i]) \in 1 .. ChunkSize
  <2>1. Inside(chunks[i], Len(calls))
    BY <1>1 DEF Left
  <2>2. QED
    BY <1>1, <2>1, SizeOf
<1>4. 1 \in 1 .. Len(chunks) /\ chunks[1].from = Len(results) + 1
  BY <1>1, <1>2 DEF Left
<1>5. Inside(chunks[1], Len(calls))
  BY <1>3, <1>4
<1>6. QED
  BY <1>1, <1>2, <1>3, <1>4, <1>5, SizeOf DEF Positions

(* The bounds are numbers.                                                 *)
LEMMA Bounds ==
    ASSUME ReadInv, Len(calls) \in Nat \ {0}
    PROVE  /\ Parts \in Nat /\ ChunkSize \in Nat /\ Log2Up[ChunkSize] \in Nat
           /\ \A k \in 1 .. ChunkSize : Log2Up[k] \in Nat /\ Log2Up[k] <= Log2Up[ChunkSize]
<1>1. Parts \in Nat
  BY ChunksOf DEF Parts
<1>2. ChunkSize \in Nat /\ ChunkSize \in 0 .. ChunkSize /\ \A k \in 1 .. ChunkSize : k \in 0 .. ChunkSize /\ k <= ChunkSize
  BY MulticallConfig
<1>3. QED
  BY <1>1, <1>2, LogGrows

(* The calls, and what depends on them alone, do not change.               *)
LEMMA SameCalls ==
    ASSUME calls' = calls
    PROVE  /\ Positions' = Positions /\ AllEaters' = AllEaters /\ Parts' = Parts
           /\ \A c : Eaters(c)' = Eaters(c)
BY DEF Positions, AllEaters, Parts, Eaters

(* The first chunk is answered.                                            *)
LEMMA AnswerCosts ==
    ASSUME ReadInv, CostInv, Asked, garbage' = garbage,
           NEW answers \in Seq(BOOLEAN), Len(answers) = Size(chunks[1]),
           GoOn(Tail(chunks), answers)
    PROVE  CostInv'
<1> DEFINE c == chunks[1]
           n == Len(calls)
           m == Len(chunks)
           r == Len(results)
           top == 2 * Log2Up[ChunkSize]
<1>1. /\ read = "chunks" /\ calls' = calls /\ requests' = requests + 1
      /\ chunks' = Tail(chunks) /\ results' = results \o answers
      /\ IF Tail(chunks) = <<>> THEN read' = "recheck" ELSE read' = "chunks"
  BY DEF Asked, GoOn
<1>2. /\ m \in Nat \ {0} /\ n \in Nat /\ r \in Nat /\ requests \in Nat
      /\ Size(c) \in 1 .. ChunkSize /\ Size(c) = c.to - c.from + 1 /\ c.from = r + 1
      /\ c.to \in 1 .. n /\ chunks \in Seq([from : Positions, to : Positions]) /\ chunks # <<>>
      /\ \A i \in 1 .. m : Size(chunks[i]) \in 1 .. ChunkSize
  BY <1>1, NextChunk DEF Positions
<1>3. /\ Parts \in Nat /\ ChunkSize \in Nat /\ top \in Nat
      /\ \A k \in 1 .. ChunkSize : Log2Up[k] \in Nat
  <2>1. n \in Nat \ {0}
    BY <1>2
  <2>2. QED
    BY <2>1, Bounds
<1>4. /\ Len(Tail(chunks)) = m - 1 /\ \A i \in 1 .. m - 1 : Tail(chunks)[i] = chunks[i + 1]
      /\ Tail(chunks) = <<>> <=> m = 1
  <2>1. /\ Len(Tail(chunks)) = m - 1 /\ Tail(chunks) \in Seq([from : Positions, to : Positions])
        /\ \A i \in 1 .. m - 1 : Tail(chunks)[i] = chunks[i + 1]
    BY <1>2, HeadTailProperties
  <2>2. Tail(chunks) = <<>> <=> Len(Tail(chunks)) = 0
    BY <2>1, EmptySeq
  <2> DEFINE k == Len(Tail(chunks))
  <2>3. k = m - 1 /\ m \in Nat
    BY <1>2, <2>1
  <2> HIDE DEF k, m
  <2>4. k = 0 <=> m = 1
    BY <2>3
  <2>5. QED
    BY <2>1, <2>2, <2>4 DEF k, m
<1>5. Len(results') = r + Size(c)
  <2>1. results \in Seq(BOOLEAN) /\ results' = results \o answers
    BY <1>1 DEF ReadInv, ReadType
  <2>2. Len(results') = Len(results) + Len(answers)
    BY <2>1, ConcatProperties
  <2>3. QED
    BY <2>2
<1>6. Parts' = Parts /\ AllEaters' = AllEaters /\ Positions' = Positions
  BY <1>1, SameCalls
<1>7. /\ requests + 2 * (n - r) - m <= 2 * n - Parts
      /\ garbage = MaxGarbage => \A e \in Positions : AllEaters = {e} =>
            /\ requests + m <= Parts + top
            /\ \A i \in 1 .. m : e \in Members(chunks[i]) =>
                  requests + m + 2 * Log2Up[Size(chunks[i])] <= Parts + top
  BY <1>1 DEF CostInv, Twofold, Dearest
<1>8. Twofold'
  <2> DEFINE k == Size(c)
             q == Parts
  <2>1. k \in Int /\ 1 <= k /\ k <= n - r
    BY <1>2
  <2>2. CASE m = 1
    <3>1. read' = "recheck"
      BY <2>2, <1>1, <1>4
    <3>2. requests + 1 <= 2 * n - q
      <4> HIDE DEF k, q, n, m, r
      <4>1. QED
        BY <2>1, <2>2, <1>2, <1>3, <1>7 DEF q
    <3>3. QED
      BY <3>1, <3>2, <1>1, <1>6 DEF Twofold
  <2>3. CASE m # 1
    <3>1. read' = "chunks" /\ Len(chunks') = m - 1
      BY <2>3, <1>1, <1>4
    <3>2. (requests + 1) + 2 * (n - (r + k)) - (m - 1) <= 2 * n - q
      <4> HIDE DEF k, q, n, m, r
      <4>1. QED
        BY <2>1, <1>2, <1>3, <1>7 DEF q
    <3>3. QED
      BY <3>1, <3>2, <1>1, <1>5, <1>6 DEF Twofold
  <2>4. QED
    BY <2>2, <2>3
<1>9. ASSUME garbage = MaxGarbage, NEW e \in Positions, AllEaters = {e}
      PROVE  Dearest(e)'
  <2>1. /\ requests + m <= Parts + top
        /\ \A i \in 1 .. m : e \in Members(chunks[i]) =>
              requests + m + 2 * Log2Up[Size(chunks[i])] <= Parts + top
    BY <1>7, <1>9
  <2>2. CASE m = 1
    <3>1. read' = "recheck"
      BY <2>2, <1>1, <1>4
    <3>2. requests' <= Parts + top
      BY <2>1, <2>2, <1>1
    <3>3. QED
      BY <3>1, <3>2, <1>6 DEF Dearest
  <2>3. CASE m # 1
    <3>1. read' = "chunks" /\ Len(chunks') = m - 1 /\ requests' + Len(chunks') = requests + m
      <4>1. read' = "chunks" /\ Len(chunks') = m - 1 /\ requests' = requests + 1
        BY <2>3, <1>1, <1>4
      <4> HIDE DEF m
      <4>2. QED
        BY <4>1, <1>2
    <3>2. ASSUME NEW i \in 1 .. m - 1, e \in Members(chunks'[i])
          PROVE  requests + m + 2 * Log2Up[Size(chunks'[i])] <= Parts + top
      <4>1. chunks'[i] = chunks[i + 1] /\ i + 1 \in 1 .. m
        BY <1>1, <1>2, <1>4
      <4>2. QED
        BY <2>1, <3>2, <4>1
    <3>3. \A i \in 1 .. Len(chunks') : e \in Members(chunks'[i]) =>
             requests' + Len(chunks') + 2 * Log2Up[Size(chunks'[i])] <= Parts + top
      BY <3>1, <3>2
    <3>4. QED
      BY <2>1, <3>1, <3>3, <1>6 DEF Dearest, Members, Size
  <2>4. QED
    BY <2>2, <2>3
<1>10. QED
  BY <1>6, <1>8, <1>9 DEF CostInv

(* The first chunk is cut: of its halves the eater is in one, and that is  *)
(* not the larger half of a larger chunk.                                  *)
LEMMA DivideCosts ==
    ASSUME ReadInv, CostInv, Divide
    PROVE  CostInv'
<1> DEFINE c == chunks[1]
           n == Len(calls)
           m == Len(chunks)
           r == Len(results)
           T == [from : Positions, to : Positions]
           h == Size(c) \div 2
           a == Chunk(c.from, c.from + h - 1)
           b == Chunk(c.from + h, c.to)
           top == 2 * Log2Up[ChunkSize]
<1>1. /\ read = "chunks" /\ calls' = calls /\ requests' = requests + 1 /\ Size(c) > 1
      /\ Refused /\ GoOn(<<a, b>> \o Tail(chunks), <<>>)
  BY DEF Divide, Asked, Halves
<1>2. /\ m \in Nat \ {0} /\ n \in Nat /\ r \in Nat /\ requests \in Nat
      /\ Size(c) \in 1 .. ChunkSize /\ Size(c) = c.to - c.from + 1
      /\ c.from \in 1 .. n /\ c.to \in 1 .. n /\ chunks \in Seq(T) /\ chunks # <<>>
      /\ Left(chunks, r + 1, n)
      /\ \A i \in 1 .. m : Size(chunks[i]) \in 1 .. ChunkSize
  BY <1>1, NextChunk DEF Positions
<1>3. /\ Parts \in Nat /\ ChunkSize \in Nat /\ top \in Nat
      /\ \A k \in 1 .. ChunkSize : Log2Up[k] \in Nat
  <2>1. n \in Nat \ {0}
    BY <1>2
  <2>2. QED
    BY <2>1, Bounds
<1>4. /\ h \in Nat /\ h >= 1 /\ h <= (Size(c) + 1) \div 2 /\ Size(c) - h = (Size(c) + 1) \div 2
      /\ (Size(c) + 1) \div 2 \in 1 .. ChunkSize /\ (Size(c) + 1) \div 2 < Size(c)
  <2> DEFINE k == Size(c)
  <2>1. k \in Nat /\ k > 1 /\ k <= ChunkSize
    BY <1>1, <1>2, <1>3
  <2> HIDE DEF k
  <2>2. /\ k \div 2 >= 1 /\ k \div 2 <= (k + 1) \div 2 /\ k - k \div 2 = (k + 1) \div 2
        /\ (k + 1) \div 2 \in Nat /\ (k + 1) \div 2 >= 1 /\ (k + 1) \div 2 < k /\ k \div 2 \in Nat
    BY <2>1, HalfUp
  <2>3. QED
    BY <2>1, <2>2, <1>3 DEF k
<1>5. /\ Size(a) = h /\ Size(b) = (Size(c) + 1) \div 2
      /\ Size(a) \in 1 .. ChunkSize /\ Size(b) \in 1 .. ChunkSize
  <2>1. a.from = c.from /\ a.to = c.from + h - 1 /\ b.from = c.from + h /\ b.to = c.to
    BY DEF Chunk
  <2>2. Size(a) = (c.from + h - 1) - c.from + 1 /\ Size(b) = c.to - (c.from + h) + 1
    BY <2>1 DEF Size
  <2> DEFINE k == Size(c)
             u == (k + 1) \div 2
  <2>3. /\ k = c.to - c.from + 1 /\ c.from \in Int /\ c.to \in Int /\ k \in 1 .. ChunkSize
        /\ h \in Nat /\ h >= 1 /\ h <= u /\ k - h = u /\ u \in 1 .. ChunkSize /\ ChunkSize \in Nat
    <3>1. k = c.to - c.from + 1 /\ k \in 1 .. ChunkSize /\ ChunkSize \in Nat
      BY <1>2, <1>3
    <3>2. c.from \in Int /\ c.to \in Int
      BY <1>2
    <3>3. h \in Nat /\ h >= 1 /\ h <= u /\ k - h = u /\ u \in 1 .. ChunkSize
      BY <1>4
    <3>4. QED
      BY <3>1, <3>2, <3>3
  <2> HIDE DEF a, b, h, c, k, u
  <2>4. Size(a) = h /\ Size(b) = u /\ Size(a) \in 1 .. ChunkSize /\ Size(b) \in 1 .. ChunkSize
    BY <2>2, <2>3
  <2>5. QED
    BY <2>4 DEF k, u
<1>7. /\ <<a, b>> \in Seq({a, b}) /\ Tail(chunks) \in Seq(T)
      /\ Len(Tail(chunks)) = m - 1 /\ \A i \in 1 .. m - 1 : Tail(chunks)[i] = chunks[i + 1]
  BY <1>2, HeadTailProperties
<1>8. /\ chunks' = <<a, b>> \o Tail(chunks) /\ results' = results \o <<>>
      /\ results' = results
  BY <1>1, ConcatEmptySeq DEF GoOn, ReadInv, ReadType
<1>9. /\ Len(chunks') = m + 1 /\ chunks'[1] = a /\ chunks'[2] = b
      /\ \A i \in 3 .. m + 1 : chunks'[i] = chunks[i - 1]
  <2> DEFINE V == T \cup {a, b}
  <2>1. <<a, b>> \in Seq(V) /\ Len(<<a, b>>) = 2 /\ Tail(chunks) \in Seq(V)
    <3> HIDE DEF a, b, T
    <3>1. QED
      BY <1>7
  <2> HIDE DEF V, a, b
  <2>2. /\ Len(chunks') = 2 + (m - 1)
        /\ \A i \in 1 .. 2 + (m - 1) : chunks'[i] = IF i <= 2 THEN <<a, b>>[i] ELSE Tail(chunks)[i - 2]
    BY <2>1, <1>7, <1>8, ConcatProperties
  <2>3. ASSUME NEW i \in 3 .. m + 1 PROVE chunks'[i] = chunks[i - 1]
    <3>1. i - 2 \in 1 .. m - 1 /\ (i - 2) + 1 = i - 1 /\ i \in 1 .. 2 + (m - 1) /\ ~ (i <= 2)
      BY <1>2
    <3>2. chunks'[i] = Tail(chunks)[i - 2]
      BY <2>2, <3>1
    <3>3. QED
      BY <1>7, <3>1, <3>2
  <2>4. QED
    BY <2>2, <2>3, <1>2
<1>10. read' = "chunks"
  <2>1. <<a, b>> \o Tail(chunks) # <<>>
    BY <1>2, <1>8, <1>9, EmptySeq
  <2>2. QED
    BY <2>1, <1>1 DEF GoOn
<1>11. /\ Parts' = Parts /\ AllEaters' = AllEaters /\ Positions' = Positions
       /\ Eaters(c) \subseteq AllEaters
  <2>1. Parts' = Parts /\ AllEaters' = AllEaters /\ Positions' = Positions
    BY <1>1, SameCalls
  <2>2. ASSUME NEW i \in Eaters(c) PROVE i \in AllEaters
    <3>1. i \in c.from .. c.to /\ calls[i] = "eater"
      BY DEF Eaters, Members
    <3>2. i \in 1 .. n
      BY <3>1, <1>2
    <3>3. QED
      BY <3>1, <3>2 DEF AllEaters, Eaters, Members, Chunk
  <2>3. QED
    BY <2>1, <2>2
<1>12. /\ requests + 2 * (n - r) - m <= 2 * n - Parts
       /\ garbage = MaxGarbage => \A e \in Positions : AllEaters = {e} =>
             \A i \in 1 .. m : e \in Members(chunks[i]) =>
                requests + m + 2 * Log2Up[Size(chunks[i])] <= Parts + top
  BY <1>1 DEF CostInv, Twofold, Dearest
<1>13. Twofold'
  <2> DEFINE q == Parts
  <2>1. (requests + 1) + 2 * (n - r) - (m + 1) <= 2 * n - q
    <3> HIDE DEF q, n, m, r
    <3>1. QED
      BY <1>2, <1>3, <1>12 DEF q
  <2>2. QED
    BY <2>1, <1>1, <1>8, <1>9, <1>10, <1>11 DEF Twofold
<1>14. ASSUME garbage' = MaxGarbage, NEW e \in Positions, AllEaters = {e}
       PROVE  Dearest(e)'
  <2>1. garbage = MaxGarbage /\ Eaters(c) # {}
    BY <1>1, <1>14, MulticallConfig DEF Refused, ReadInv, ReadType
  <2>2. e \in Members(c)
    BY <1>11, <1>14, <2>1 DEF Eaters
  <2> DEFINE half == (Size(c) + 1) \div 2
             done == requests' + Len(chunks')
  <2>3. requests + m + 2 * Log2Up[Size(c)] <= Parts + top
    BY <1>2, <1>12, <1>14, <2>1, <2>2
  <2>4. /\ Log2Up[Size(c)] = 1 + Log2Up[half] /\ Log2Up[half] \in Nat
        /\ Log2Up[Size(a)] \in Nat /\ Log2Up[Size(a)] <= Log2Up[half]
        /\ Log2Up[Size(b)] = Log2Up[half]
    <3>1. Size(c) \in 0 .. ChunkSize /\ ~ (Size(c) <= 1)
      BY <1>1, <1>2, <1>3
    <3>2. Size(a) \in 0 .. ChunkSize /\ half \in 0 .. ChunkSize /\ Size(a) <= half
      BY <1>3, <1>4, <1>5
    <3>3. Log2Up[Size(c)] = 1 + Log2Up[half]
      BY <3>1, LogIs
    <3>4. QED
      BY <1>5, <3>2, <3>3, LogGrows
  <2>5. done + 2 * Log2Up[half] <= Parts + top /\ done \in Nat
    <3>1. done = requests + m + 2 /\ done \in Nat
      BY <1>1, <1>2, <1>9
    <3> DEFINE x == Log2Up[half]
    <3>2. x \in Nat /\ Log2Up[Size(c)] = 1 + x
      BY <2>4
    <3> HIDE DEF x, done, m
    <3>3. done + 2 * x <= Parts + top
      <4> DEFINE y == Log2Up[Size(c)]
                 q == Parts
      <4>1. requests + m + 2 * y <= q + top /\ y = 1 + x
        BY <3>2, <2>3
      <4>2. m \in Nat /\ requests \in Nat /\ q \in Nat /\ top \in Nat
        BY <1>2, <1>3
      <4> HIDE DEF top, y, q
      <4>3. done + 2 * x <= q + top
        BY <3>1, <3>2, <4>1, <4>2
      <4>4. QED
        BY <4>3 DEF q
    <3>4. QED
      BY <3>1, <3>3 DEF x
  <2>6. done <= Parts + top
    <3> HIDE DEF done, half, top
    <3>1. QED
      BY <2>4, <2>5, <1>3
  <2>7. ASSUME NEW i \in 1 .. m + 1, e \in Members(chunks'[i])
        PROVE  done + 2 * Log2Up[Size(chunks'[i])] <= Parts + top
    <3>1. CASE i = 1
      <4>1. Size(chunks'[i]) = Size(a)
        BY <3>1, <1>9
      <4> HIDE DEF done, half, top, a, b
      <4>2. QED
        BY <4>1, <2>4, <2>5, <1>3
    <3>2. CASE i = 2
      <4>1. Size(chunks'[i]) = Size(b)
        BY <3>2, <1>9
      <4> HIDE DEF done, half, top, a, b
      <4>2. QED
        BY <4>1, <2>4, <2>5, <1>3
    <3>3. CASE i > 2
      <4>1. i \in 3 .. m + 1 /\ i - 1 \in 2 .. m
        BY <3>3, <1>2
      <4>2. chunks'[i] = chunks[i - 1]
        BY <4>1, <1>9
      <4>3. c.to < chunks[i - 1].from
        BY <4>1, <1>2, LeftApart
      <4>4. chunks[i - 1].from \in Int
        <5>1. i - 1 \in 1 .. m
          BY <4>1, <1>2
        <5>2. Inside(chunks[i - 1], n)
          BY <5>1, <1>1, NextChunk
        <5>3. QED
          BY <5>2, <1>2, SizeOf
      <4>5. e \in c.from .. c.to /\ e \in chunks[i - 1].from .. chunks[i - 1].to
        BY <2>2, <2>7, <4>2 DEF Members
      <4>6. FALSE
        <5> DEFINE f == chunks[i - 1].from
                   t == chunks[i - 1].to
                   u == c.to
        <5>1. u < f /\ f \in Int /\ u \in Int /\ e \in c.from .. u /\ e \in f .. t
          BY <4>3, <4>4, <4>5, <1>2
        <5> HIDE DEF f, t, u
        <5>2. QED
          BY <5>1
      <4>7. QED
        BY <4>6
    <3>4. QED
      BY <3>1, <3>2, <3>3, <1>2
  <2>8. QED
    BY <2>6, <2>7, <1>9, <1>10, <1>11 DEF Dearest, Members, Size
<1>15. QED
  BY <1>11, <1>13, <1>14 DEF CostInv
(* A read that begins: no request yet, and the chunks.                     *)
LEMMA BeginCosts ==
    ASSUME NEW c \in Seq(Behaviour), c # <<>>, NEW req, BeginRead(c, req)
    PROVE  CostInv'
<1> DEFINE n == Len(c)
           q == Len(Chunks(n))
           top == 2 * Log2Up[ChunkSize]
<1>1. n \in Nat \ {0}
  BY EmptySeq
<1>2. /\ calls' = c /\ chunks' = Chunks(n) /\ results' = <<>> /\ read' = "chunks" /\ requests' = 0
      /\ Parts' = q /\ Len(results') = 0
  BY DEF BeginRead, Parts
<1>3. Left(Chunks(n), 1, n) /\ q \in Nat
  <2>1. Left(Chunks(n), 1, n) /\ Chunks(n) \in Seq([from : 1 .. n, to : 1 .. n])
    BY <1>1, ChunksLeft
  <2>2. QED
    BY <2>1
<1>4. top \in Nat /\ ChunkSize \in Nat
  BY LogGrows, MulticallConfig
<1>5. ASSUME NEW i \in 1 .. q
      PROVE  /\ Log2Up[Size(Chunks(n)[i])] \in Nat
             /\ Log2Up[Size(Chunks(n)[i])] <= Log2Up[ChunkSize]
  <2>1. Inside(Chunks(n)[i], n)
    BY <1>3 DEF Left
  <2>2. Size(Chunks(n)[i]) \in 1 .. ChunkSize
    BY <1>1, <2>1, SizeOf
  <2> DEFINE k == Size(Chunks(n)[i])
  <2>3. k \in 0 .. ChunkSize /\ ChunkSize \in 0 .. ChunkSize /\ k <= ChunkSize
    BY <1>4, <2>2
  <2> HIDE DEF k
  <2>4. Log2Up[k] \in Nat /\ Log2Up[k] <= Log2Up[ChunkSize]
    BY <2>3, LogGrows
  <2>5. QED
    BY <2>4 DEF k
<1>6. Twofold'
  <2>1. 0 + 2 * (n - 0) - q <= 2 * n - q
    <3> HIDE DEF n, q
    <3>1. QED
      BY <1>1, <1>3
  <2>2. QED
    BY <2>1, <1>2 DEF Twofold
<1>7. ASSUME NEW e PROVE Dearest(e)'
  <2>1. 0 + q <= q + top
    <3> HIDE DEF q, top
    <3>1. QED
      BY <1>3, <1>4
  <2>2. ASSUME NEW i \in 1 .. q PROVE 0 + q + 2 * Log2Up[Size(Chunks(n)[i])] <= q + top
    <3> DEFINE l == Log2Up[Size(Chunks(n)[i])]
               g == Log2Up[ChunkSize]
    <3>1. l \in Nat /\ g \in Nat /\ l <= g
      BY <1>5, LogGrows, MulticallConfig
    <3> HIDE DEF l, g, q
    <3>2. 0 + q + 2 * l <= q + 2 * g
      BY <3>1, <1>3
    <3>3. QED
      BY <3>2 DEF l, g
  <2>3. QED
    BY <2>1, <2>2, <1>2 DEF Dearest, Size, Members
<1>8. QED
  BY <1>6, <1>7 DEF CostInv

(* A step that asks no chunk costs nothing.                                *)
LEMMA QuietCosts ==
    ASSUME CostInv, read \notin {"idle", "chunks"}, read' # "chunks",
           UNCHANGED <<calls, requests, garbage>>
    PROVE  CostInv'
<1>1. Parts' = Parts /\ AllEaters' = AllEaters /\ Positions' = Positions
  BY SameCalls
<1>2. Twofold'
  BY <1>1 DEF CostInv, Twofold
<1>3. \A e : Dearest(e) => Dearest(e)'
  BY <1>1 DEF Dearest
<1>4. QED
  BY <1>1, <1>2, <1>3 DEF CostInv

(* Every step of a read keeps to the bounds.                               *)
LEMMA ReadStepCosts ==
    ASSUME ReadInv, CostInv, ReadStep
    PROVE  CostInv'
<1>1. CASE Single
  <2> DEFINE c == chunks[1]
             answers == <<Succeeds(c.from)>>
  <2>1. Asked /\ garbage' = garbage /\ Size(c) = 1 /\ GoOn(Tail(chunks), answers)
    BY <1>1 DEF Single
  <2>2. answers \in Seq(BOOLEAN) /\ Len(answers) = Size(c)
    BY <2>1 DEF Succeeds
  <2> HIDE DEF answers
  <2>3. QED
    BY <2>1, <2>2, AnswerCosts
<1>2. CASE Aggregate
  <2> DEFINE m == Size(chunks[1])
  <2>1. PICK answers \in Answers(chunks[1]) : GoOn(Tail(chunks), answers)
    BY <1>2 DEF Aggregate
  <2>2. Asked /\ garbage' = garbage /\ read = "chunks"
    BY <1>2 DEF Aggregate, Asked
  <2>3. m \in Nat /\ answers \in [1 .. m -> BOOLEAN]
    <3>1. m \in 1 .. ChunkSize
      BY <2>2, NextChunk
    <3> HIDE DEF m
    <3>2. m \in Nat
      BY <3>1, MulticallConfig
    <3>3. QED
      BY <2>1, <3>2 DEF Answers, m
  <2>4. answers \in Seq(BOOLEAN) /\ Len(answers) = m
    <3> HIDE DEF m
    <3>1. QED
      BY <2>3
  <2>5. QED
    BY <2>1, <2>2, <2>4, AnswerCosts
<1>3. CASE Divide
  BY <1>3, DivideCosts
<1>4. CASE Recheck
  BY <1>4, QuietCosts DEF Recheck
<1>5. CASE Return
  BY <1>5, QuietCosts DEF Return
<1>6. QED
  BY <1>1, <1>2, <1>3, <1>4, <1>5 DEF ReadStep

(* A set of one is the set of its element.                                 *)
LEMMA OnlyOne ==
    ASSUME NEW S, IsFiniteSet(S), Cardinality(S) = 1
    PROVE  \E e \in S : S = {e}
<1>1. S # {}
  BY FS_EmptySet
<1>2. PICK e \in S : TRUE
  BY <1>1
<1>3. IsFiniteSet(S \ {e}) /\ Cardinality(S \ {e}) = 0
  BY <1>2, FS_RemoveElement
<1>4. S \ {e} = {}
  BY <1>3, FS_EmptySet
<1>5. QED
  BY <1>2, <1>4

(* What the bounds say of a read that has asked its last chunk.            *)
UnderTwoACall == read \in {"recheck", "done"} => requests <= 2 * Len(calls) - Parts

LEMMA CostDone ==
    ASSUME ReadInv, CostInv
    PROVE  OneBadCallIsCheap /\ UnderTwoACall
<1>1. UnderTwoACall
  BY DEF CostInv, Twofold, UnderTwoACall
<1>2. ASSUME read = "done", Cardinality(AllEaters) = 1, garbage = MaxGarbage
      PROVE  requests <= Parts + 2 * Log2Up[ChunkSize]
  <2>1. AllEaters \subseteq Positions /\ IsFiniteSet(AllEaters)
    <3>1. AllEaters \subseteq 1 .. Len(calls)
      BY DEF AllEaters, Eaters, Members, Chunk
    <3>2. IsFiniteSet(1 .. Len(calls))
      BY FS_Interval DEF ReadInv, ReadType
    <3>3. QED
      BY <3>1, <3>2, FS_Subset DEF Positions
  <2>2. PICK e \in Positions : AllEaters = {e}
    BY <1>2, <2>1, OnlyOne
  <2>3. Dearest(e)
    BY <1>2, <2>2 DEF CostInv
  <2>4. QED
    BY <1>2, <2>3 DEF Dearest
<1>3. OneBadCallIsCheap
  BY <1>2 DEF OneBadCallIsCheap, AllEaters, Parts
<1>4. QED
  BY <1>1, <1>3
=============================================================================
