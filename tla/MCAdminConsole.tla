-------------------------- MODULE MCAdminConsole --------------------------
(* A small instance of AdminConsole. *)
EXTENDS AdminConsole, TLC

\* Slots are alike, and so are the settings; only invariants are checked.
Symmetry == Permutations(Slots) \cup Permutations(Keys)
=============================================================================
