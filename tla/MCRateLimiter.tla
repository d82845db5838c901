---------------------------- MODULE MCRateLimiter ----------------------------
(* Model values, the limits of the buckets, and symmetry. *)
EXTENDS RateLimiter, TLC

CONSTANTS auth, mfa, forgot

Limits == (auth :> 2) @@ (mfa :> 1) @@ (forgot :> 1)
Outages == {"outage"}

Symmetry == Permutations(Workers) \cup Permutations({mfa, forgot})

=============================================================================
