------------------------------ MODULE KeyLife ------------------------------
(***************************************************************************)
(* What a lineage of API keys promises: a key and the keys rotated from it *)
(* are one credential.  It begins once and ends for good; rotation changes *)
(* the plaintext and nothing else.                                         *)
(***************************************************************************)

CONSTANT Key    \* identities of credentials

VARIABLES
    live,    \* credentials some plaintext of which is accepted
    ended    \* credentials revoked or expired

vars == <<live, ended>>

Init == live = {} /\ ended = {}

\* POST /api-keys
Begin(k) ==
    /\ k \in Key \ (live \cup ended)
    /\ live' = live \cup {k}
    /\ UNCHANGED ended

\* Revocation or expiry: terminal.
End(k) ==
    /\ k \in live
    /\ live' = live \ {k}
    /\ ended' = ended \cup {k}

Next == \E k \in Key : Begin(k) \/ End(k)

Spec == Init /\ [][Next]_vars

=============================================================================
