---------------------------- MODULE MCSessions ----------------------------
(* Model values, the sets of operations of the runs, and symmetry. *)
EXTENDS Sessions, TLC

PasswordOps == {"login", "totp", "refresh", "password", "logout"}
Rotations   == {"rotation"}
Revocations == {"revocation"}

Symmetry == Permutations(Clients) \cup Permutations(Pairs)

=============================================================================
