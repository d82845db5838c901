----------------------------- MODULE MCKeyGuard -----------------------------
(* Symmetry of the run. *)
EXTENDS KeyGuard, TLC

Symmetry == Permutations(Clients)

=============================================================================
