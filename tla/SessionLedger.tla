--------------------------- MODULE SessionLedger ---------------------------
(***************************************************************************)
(* What users.token_version promises (core/security.py:99-102: "bumping    *)
(* token_version (e.g. on password change/reset) revokes all outstanding   *)
(* tokens"): a session opens at most once, all open sessions close         *)
(* together, and a closed one never opens again.                           *)
(***************************************************************************)
CONSTANT Session

VARIABLES open, closed

vars == <<open, closed>>

Init == open = {} /\ closed = {}

Open(s) ==
    /\ s \notin open \cup closed
    /\ open' = open \cup {s}
    /\ UNCHANGED closed

\* A revocation overtook the handler that mints s: s is born revoked.
BornClosed(s) ==
    /\ s \notin open \cup closed
    /\ closed' = closed \cup {s}
    /\ UNCHANGED open

CloseAll ==
    /\ open' = {}
    /\ closed' = closed \cup open

Next == CloseAll \/ \E s \in Session : Open(s) \/ BornClosed(s)

Spec == Init /\ [][Next]_vars

=============================================================================
