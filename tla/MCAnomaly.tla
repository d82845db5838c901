------------------------------ MODULE MCAnomaly ------------------------------
(* Model values and the requests of the run. *)
EXTENDS Anomaly

CONSTANTS u1, u2, u3

Calm  == [rpm |-> 2, recent |-> 1, failed |-> 0]
Flood == [rpm |-> 45, recent |-> 9, failed |-> 45]
Both  == {Calm, Flood}
NoRace == {}

=============================================================================
