----------------------------- MODULE MCUpstream -----------------------------
(* Small instances of Upstream. *)
EXTENDS Upstream, TLC

\* Fetches are interchangeable.
Symmetry == Permutations(Fetches)
=============================================================================
