----------------------------- MODULE MCApiKeys -----------------------------
(* The sets of operations of the runs, and symmetry. *)
EXTENDS ApiKeys, TLC

NoRace    == {}

Symmetry == Permutations(Clients) \cup Permutations(Keys) \cup Permutations(Names)

=============================================================================
