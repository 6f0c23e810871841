-------------------------- MODULE MCCachePipeline --------------------------
(* Small instances of CachePipeline. *)
EXTENDS CachePipeline, TLC

\* Requests are interchangeable.
Symmetry == Permutations(Requests)
=============================================================================
