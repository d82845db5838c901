---------------------------- MODULE MCRiskScore ----------------------------
(* Symmetry of the run. *)
EXTENDS RiskScore, TLC

NoRace == {}

Symmetry == Permutations(Requests)

=============================================================================
