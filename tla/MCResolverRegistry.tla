------------------------- MODULE MCResolverRegistry -------------------------
(***************************************************************************)
(* ResolverRegistry for TLC: three users and the registry itself, so that  *)
(* a removal may hit the first, the middle or the last slot of the list.   *)
(***************************************************************************)
EXTENDS ResolverRegistry
=============================================================================
