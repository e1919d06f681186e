-------------------------------- MODULE Sums --------------------------------
(***************************************************************************)
(* Finite sums over an initial segment of the naturals.  The contracts keep *)
(* money in mappings indexed by an order id or by an address, both of which *)
(* are integers, so "the sum over all orders" and "the sum over all         *)
(* accounts" are sums over 1 .. n.                                          *)
(***************************************************************************)
EXTENDS Integers

\* f[1] + ... + f[n], by running totals.
SumTo(f, n) ==
    LET total[i \in 0 .. n] == IF i = 0 THEN 0 ELSE total[i - 1] + f[i]
    IN  total[n]
=============================================================================
