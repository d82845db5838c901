--------------------------- MODULE MCAccountRisk ---------------------------
(* The overlaps of the run, and symmetry. *)
EXTENDS AccountRisk, TLC

StepupRace == {"stepup"}

Symmetry == Permutations(Requests) \cup Permutations(Sessions)

=============================================================================
