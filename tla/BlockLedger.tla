----------------------------- MODULE BlockLedger -----------------------------
(***************************************************************************)
(* What the live loop promises about its progress, with nothing said about *)
(* how it works: a cursor that is saved across restarts and the set of     *)
(* blocks whose fate is decided (processed, given up after repeated        *)
(* failures, or passed over at a start).  A block is decided once and for  *)
(* all, the cursor never moves back, and it never moves past a block that  *)
(* is not decided yet: a restart from the cursor loses nothing silently.   *)
(***************************************************************************)
EXTENDS Integers

CONSTANTS
    TopBlock,   \* the highest block number an instance can reach
    NoCursor    \* the cursor of a database that has never been written

VARIABLES
    cursor,     \* the saved block number, or NoCursor
    decided     \* blocks whose fate is known

ledgerVars == <<cursor, decided>>

Init ==
    /\ cursor = NoCursor
    /\ decided = {}

(* Some blocks are decided; the cursor may follow, never ahead of them.    *)
Progress ==
    /\ decided' \in SUBSET (0 .. TopBlock)
    /\ decided \subseteq decided'
    /\ cursor' \in {NoCursor} \cup (0 .. TopBlock)
    /\ cursor' >= cursor
    /\ 0 .. cursor' \subseteq decided'

Spec == Init /\ [][Progress]_ledgerVars
=============================================================================
