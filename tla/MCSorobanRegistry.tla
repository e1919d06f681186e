------------------------- MODULE MCSorobanRegistry -------------------------
(***************************************************************************)
(* SorobanRegistry for TLC: resolvers 1 and 2, and 3 for the registry.     *)
(***************************************************************************)
EXTENDS SorobanRegistry

MCMinStakes == {-1, 0, 1, 2}
MCPeriods == {0, 1, 2}
=============================================================================
