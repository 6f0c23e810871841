-------------------------- MODULE MCAdminSession --------------------------
(* A small instance of AdminSession. *)
EXTENDS AdminSession, TLC

\* The tabs are alike, and so are the sessions; only invariants are checked.
Symmetry == Permutations(Tabs) \cup Permutations(Sessions)
=============================================================================
