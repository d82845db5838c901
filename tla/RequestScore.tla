---------------------------- MODULE RequestScore ----------------------------
(***************************************************************************)
(* How one request is judged: the score of gateway/middleware/             *)
(* risk_scoring.py, the action that follows from it, and what it adds to   *)
(* the risk of the account behind the token.  Scores are in thousandths,   *)
(* to which the code rounds them.                                          *)
(***************************************************************************)
EXTENDS Integers

CONSTANT Bands   \* the request counts at which behavior_risk rises

ASSUME BandsAssumption ==
    /\ Bands \in [1..3 -> Nat]
    /\ Bands[1] < Bands[2] /\ Bands[2] < Bands[3]

\* The bearer token: absent, not a token, lapsed, with less than two or ten
\* minutes left, or good.
Tokens   == {"none", "forged", "expired", "ending", "short", "good"}
Verified == {"ending", "short", "good"}

\* The requests the middlewares tell apart: the path, whether a WAF pattern
\* matches, the token, and the signs of an attack tool in the headers.
Paths    == {"recovery", "oauth", "api"}
Patterns == {0, 200, 300, 400, 500, 600, 700, 900, 1000}
Kinds    == [path : Paths, threat : BOOLEAN, token : Tokens, pattern : Patterns]

-----------------------------------------------------------------------------

\* _auth_risk.  The recovery route is the /admin path of the model.
AuthRisk(k) ==
    CASE k.token = "none"    -> IF k.path = "recovery" THEN 800 ELSE 100
      [] k.token = "forged"  -> 1000
      [] k.token = "expired" -> 450
      [] k.token = "ending"  -> 600
      [] k.token = "short"   -> 350
      [] OTHER               -> 50

\* _behavior_risk of an address with n requests in the window.
BehaviorRisk(n) ==
    IF n < Bands[1] THEN 0
    ELSE IF n < Bands[2] THEN 300
    ELSE IF n < Bands[3] THEN 600 ELSE 900

\* The weighted sum, with the surcharge for a burst.  Every product is a
\* multiple of five thousandths, so rounding changes nothing.
Score(k, n) ==
    LET s == (AuthRisk(k) * 3 + BehaviorRisk(n) * 4 + k.pattern * 3) \div 10
                + (IF BehaviorRisk(n) >= 900 THEN 250 ELSE 0)
    IN  IF s > 1000 THEN 1000 ELSE s

Action(s) ==
    IF s >= 800 THEN "block"
    ELSE IF s >= 650 THEN "challenge"
    ELSE IF s >= 400 THEN "monitor" ELSE "allow"

\* Mutant of Amount: monitoring alone is enough to raise the account's risk.
AmountEager(k, n, action) ==
    CASE k.token \notin Verified -> 0
      [] k.token \in Verified /\ action = "waf_block" -> 300
      [] k.token \in Verified /\ action = "block" -> 350
      [] k.token \in Verified /\ action \in {"challenge", "monitor"} -> 120
      [] OTHER -> 0

\* _elevate_authenticated_account_risk: what the account's risk is raised by.
Amount(k, n, action) ==
    CASE k.token \notin Verified -> 0
      [] k.token \in Verified /\ action = "waf_block" -> 300
      [] k.token \in Verified /\ action = "block" -> 350
      [] k.token \in Verified /\ action = "challenge"
            /\ (k.pattern >= 500 \/ BehaviorRisk(n) >= 600) -> 200
      [] k.token \in Verified /\ action = "monitor"
            /\ (k.pattern >= 500 \/ BehaviorRisk(n) >= 900) -> 120
      [] OTHER -> 0

-----------------------------------------------------------------------------
(* What a request may come to *)

\* What the request of kind k, the n-th in the window, raises the risk of its
\* account by before it reaches the WAF.
Raise(k, n) == Amount(k, n, Action(Score(k, n)))

\* The mark of an attack tool, and a burst.
Scanner(k) == k.pattern >= 500
Burst(n)   == n >= Bands[3]

HarmlessAt(K, n) == \A k \in K : ~Scanner(k) /\ ~Burst(n) => Raise(k, n) = 0

NeverBlocksAt(K, n) ==
    \A k \in K : k.pattern = 0 /\ k.token \in Verified => Action(Score(k, n)) # "block"

IdleAt(K, n) ==
    \A k \in K :
        k.token = "expired" /\ k.pattern = 0 /\ ~Burst(n) => Action(Score(k, n)) = "allow"

=============================================================================
