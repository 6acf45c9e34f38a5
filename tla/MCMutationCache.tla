--------------------------- MODULE MCMutationCache ---------------------------
(* A small instance of MutationCache for TLC. *)
EXTENDS MutationCache

CONSTANTS c1, c2, c3, c4, k1, k2, k3, f1, f2

CacheSymmetry ==
  Permutations(Calls) \cup Permutations(Keys) \cup Permutations(Shapes)
=============================================================================
