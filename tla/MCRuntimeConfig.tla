-------------------------- MODULE MCRuntimeConfig --------------------------
(* A small instance of RuntimeConfig. *)
EXTENDS RuntimeConfig, TLC

\* Calls are alike, and so are the values of cache.root.
Symmetry == Permutations(Calls) \cup Permutations(Roots)
=============================================================================
