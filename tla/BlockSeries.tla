---------------------------- MODULE BlockSeries -----------------------------
(***************************************************************************)
(* detector/window.py's BlockSeries as operators: the values of the last   *)
(* blocks, the value that was in force before them (carry) and the latest  *)
(* one (current).  A value is a natural number, NoValue is None.           *)
(***************************************************************************)
EXTENDS Integers, Sequences, SequencesExt

NoValue == -1

EmptySeries == [points |-> <<>>, carry |-> NoValue, current |-> NoValue]

Add(s, block, value) ==
    [s EXCEPT !.points = Append(@, [block |-> block, value |-> value]),
              !.current = value]

(* How many points the loop of prune takes off the left end.               *)
Expired(points, limit) ==
    LET kept == SelectInSeq(points, LAMBDA p : p.block > limit)
    IN  IF kept = 0 THEN Len(points) ELSE kept - 1

(* Mutant: the value in force before the window is forgotten.              *)
PruneNoCarry(s, block, window) ==
    LET n == Expired(s.points, block - window)
    IN  [s EXCEPT !.points = SubSeq(@, n + 1, Len(@))]

(* Mutant: the window is one block too long.                               *)
PruneLate(s, block, window) ==
    LET n == Expired(s.points, block - window - 1)
    IN  [s EXCEPT !.points = SubSeq(@, n + 1, Len(@)),
                  !.carry = IF n = 0 THEN @ ELSE s.points[n].value]

(* Keeps the points of (block - window, block].                            *)
Prune(s, block, window) ==
    LET n == Expired(s.points, block - window)
    IN  [s EXCEPT !.points = SubSeq(@, n + 1, Len(@)),
                  !.carry = IF n = 0 THEN @ ELSE s.points[n].value]

Values(s) ==
    {s.points[i].value : i \in DOMAIN s.points} \cup ({s.carry} \ {NoValue})

(* max(), NoValue when there is nothing.                                   *)
Top(s) == IF Values(s) = {} THEN NoValue ELSE Max(Values(s))

(* bool(series).                                                           *)
HasValue(s) == s.current # NoValue \/ s.carry # NoValue
=============================================================================
