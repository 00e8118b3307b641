------------------------------ MODULE PathsMC ------------------------------
(* Paths for TLC: the addresses other than the first are interchangeable.  *)
EXTENDS Paths

Symmetric == Permutations(Addrs \ {First})
=============================================================================
