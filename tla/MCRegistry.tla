------------------------------ MODULE MCRegistry ------------------------------
(* Model values and symmetry. *)
EXTENDS Registry, TLC

CONSTANTS u1, u2, u3, n1, n2, s1, s2, h1, h2

NoRace == {}
Symmetry == Permutations(Users) \cup Permutations(Ids) \cup Permutations(Handlers)

=============================================================================
