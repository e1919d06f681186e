---------------------------- MODULE MCAtomicSwap ----------------------------
(***************************************************************************)
(* AtomicSwap for TLC.                                                     *)
(***************************************************************************)
EXTENDS AtomicSwap

MCTimelocks == {2, 5}
MCModes == {"Paused", "Maintenance"}
=============================================================================
