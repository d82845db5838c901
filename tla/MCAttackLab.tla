---------------------------- MODULE MCAttackLab ----------------------------
(* Model values of the run. *)
EXTENDS AttackLab

CONSTANTS h1, h2

=============================================================================
