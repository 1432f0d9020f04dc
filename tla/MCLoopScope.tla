---------------------------- MODULE MCLoopScope ----------------------------
(* Small instances of LoopScope: two names, so that nested loops reuse the *)
(* variables of the loops around them.                                     *)
EXTENDS LoopScope, TLC

CONSTANTS x, y

\* for x, for y, for x, y and for y, x: no header names one variable twice.
DistinctHeaders == {[v |-> x, k |-> NoVar], [v |-> y, k |-> NoVar],
                    [v |-> x, k |-> y], [v |-> y, k |-> x]}

\* for x, x: the parser accepts it.
TwinHeaders == {[v |-> x, k |-> x]}

CellSymmetry == Permutations(Cells)
=============================================================================
