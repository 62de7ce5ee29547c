---------------------------- MODULE MCHwmonApp -----------------------------
(***************************************************************************)
(* HwmonApp for TLC.  The maximum leaves lie on both sides of every leaf   *)
(* the code asks for, the counters wrap at 16 instead of 2^64, the arrays  *)
(* and the loop bound are scaled down so that they are reached: one device *)
(* more than devices[] holds, one descriptor more than resources[].        *)
(***************************************************************************)
EXTENDS HwmonApp

\* -1 stands for a processor without extended leaves.
MCExtendedLeaves == {-1, 0, 1, 3, 4, 6, 7, 8}

Smt(w)  == [type |-> 1, width |-> w]
Core(w) == [type |-> 2, width |-> w]

\* Each level wider than the one before.
Tower(n) == [k \in 1..n |-> IF k = 1 THEN Smt(2) ELSE Core(2 * k)]

\* No level, one, two with the SMT level first or last, a last level of
\* width 0, as many levels as the loop reads, one more, and two lists that
\* never end: one that repeats a level and one that alternates.
MCTopologies ==
    {<<>>, <<Smt(2)>>, <<Smt(2), Core(8)>>, <<Core(4), Smt(1)>>,
     <<Smt(1), Core(0)>>, Tower(MAX_SUBLEAF + 1), Tower(MAX_SUBLEAF + 2),
     [k \in 1..(2 * MAX_SUBLEAF) |-> Core(4)],
     [k \in 1..(2 * MAX_SUBLEAF) |-> IF k % 2 = 0 THEN Smt(k) ELSE Core(k)]}
=============================================================================
