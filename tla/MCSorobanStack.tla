--------------------------- MODULE MCSorobanStack ---------------------------
(***************************************************************************)
(* SorobanStack for TLC: one resolver (1), and 2 for the contracts.        *)
(***************************************************************************)
EXTENDS SorobanStack

MCMinStakes == {1}
MCPeriods == {1, 2, 3}
MCOne == {1}
MCZero == {0}
=============================================================================
