--------------------------- MODULE MCMemoryCache ---------------------------
(* Small instances of MemoryCache. *)
EXTENDS MemoryCache, TLC

\* Keys are interchangeable.
Symmetry == Permutations(Keys)
=============================================================================
