---------------------------- MODULE MCSorobanHTLC ----------------------------
(***************************************************************************)
(* SorobanHTLC for TLC: accounts 1 and 2, and 3 for the contract itself.   *)
(***************************************************************************)
EXTENDS SorobanHTLC

MCAmounts == {0, 1}
MCDeposits == {0, 1}
MCMinDeposits == {-1, 0, 1}
MCOne == {1}
MCZero == {0}
=============================================================================
