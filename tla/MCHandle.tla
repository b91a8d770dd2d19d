------------------------------- MODULE MCHandle -------------------------------
(* Instances of HandleStorage for TLC. *)
EXTENDS HandleStorage, TLC

CONSTANTS c1, c2, c3, c4, c5, l1, l2, ab

\* Contexts are interchangeable.
Sym == Permutations(Context)
===============================================================================
