------------------------------ MODULE MCMatching ------------------------------
(* The searches that BlockMatch and the planes that MatchGrid are checked on. *)
EXTENDS Integers, FiniteSets

CONSTANTS Columns, Rows

Positions == 0 .. Columns * Rows - 1

Shape(c, lo, hi, group, ps_num, ps_range, t0, radius, first, last, inputs) ==
    [c |-> c, lo |-> lo, hi |-> hi, group |-> group, ps_num |-> ps_num,
     ps_range |-> ps_range, t0 |-> t0, radius |-> radius, first |-> first, last |-> last,
     inputs |-> inputs]

\* Every frame over some distances; frames in which at most n positions differ
\* from the others.
Every(D, c) == {d \in [Positions -> D] : d[c] = 0}
SparseIn(P, n, base, D) ==
    {[p \in Positions |-> IF p \in S THEN v ELSE base] :
        S \in {T \in SUBSET P : Cardinality(T) <= n}, v \in D}
Sparse(n, base, D) == SparseIn(Positions, n, base, D)

MCInputs == [
    ties |-> {d \in Every(0 .. 2, 1) : d[7] = 1},
    two |-> Every({0, 1}, 0),
    better |-> SparseIn({1, 3, 4, 5, 6}, 2, 1, {0}),
    worse |-> Sparse(2, 3, {0, 1}),
    one |-> Sparse(1, 1, {0, 3}) ]

\* No error; every other candidate too near, the others too far; one too far.
MCRoundings == {
    [p \in Positions |-> 0],
    [p \in Positions |-> IF p % 2 = 0 THEN 1 ELSE -1],
    [p \in Positions |-> IF p = 2 THEN 1 ELSE 0] }

\* The window alone, with all its ties; one frame back from three centers; both
\* directions; two frames on; two frames where the valid ones end before.
MCShapes == {
    Shape(1, 1, 2, 4, 1, 1, 0, 0, 0, 3, "ties"),
    Shape(5, 1, 1, 3, 3, 1, 1, 1, 0, 2, "two"),
    Shape(2, 2, 1, 4, 2, 1, 1, 1, 0, 3, "better"),
    Shape(4, 1, 1, 2, 1, 1, 0, 2, 0, 3, "worse"),
    Shape(7, 1, 1, 4, 3, 1, 0, 2, 0, 2, "one") }

\* Planes whose last column or row is clamped, or both, or neither.
MCPlanes == [width : 4 .. 9, height : {4, 6, 7}, block : {4}, step : 1 .. 4]
===============================================================================
