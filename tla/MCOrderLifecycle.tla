-------------------------- MODULE MCOrderLifecycle --------------------------
(***************************************************************************)
(* OrderLifecycle for TLC.  Calls and locks are interchangeable.           *)
(***************************************************************************)
EXTENDS OrderLifecycle, TLC

Symmetry == Permutations(Calls) \cup Permutations(Locks)
=============================================================================
