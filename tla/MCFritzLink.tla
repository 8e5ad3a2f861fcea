----------------------------- MODULE MCFritzLink -----------------------------
(* FritzLink for TLC: the descriptors are interchangeable where no liveness  *)
(* is checked.                                                               *)
EXTENDS FritzLink, TLC

Symmetry == Permutations(Socks)
=============================================================================
