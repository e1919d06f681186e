---------------------------- MODULE MCHTLCEscrow ----------------------------
(***************************************************************************)
(* HTLCEscrow for TLC: accounts 1 (a plain account), 2 (a contract) and 3  *)
(* (the escrow itself).                                                    *)
(***************************************************************************)
EXTENDS HTLCEscrow

MCContracts == {2}
MCAmounts == {0, 1}
MCDeposits == {0, 1}
=============================================================================
