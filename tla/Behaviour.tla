------------------------------ MODULE Behaviour ------------------------------
(***************************************************************************)
(* The verdict of gateway/detection/behavior.py on one profiled request.   *)
(* A baseline is in hundredths of a request a minute, a risk in            *)
(* thousandths.  The failures of the window include one for every profiled *)
(* request, because reading the window also records into it.               *)
(***************************************************************************)
EXTENDS Integers

Nothing == [type |-> "none", risk |-> 0]

-----------------------------------------------------------------------------

\* Mutant of Clamp: the stored baseline is used as it is.
ClampNot(base) == base

Clamp(base) == IF base < 100 THEN 100 ELSE IF base > 1000 THEN 1000 ELSE base

\* Three times the baseline, and at least forty: with the clamp, forty.
Threshold(base) == IF 3 * base > 4000 THEN 3 * base ELSE 4000

Spike(rpm, recent, base) == 100 * rpm > Threshold(base) /\ recent >= 5

SpikeRisk(rpm, base) ==
    LET r == 550 + (10000 * rpm) \div base IN IF r > 950 THEN 950 ELSE r

FailureRisk(failed) ==
    LET r == 500 + 50 * failed IN IF r > 900 THEN 900 ELSE r

\* The rules: of a spike and a burst of failures the riskier one is reported.
Rule(rpm, recent, failed, base) ==
    LET spike  == Spike(rpm, recent, base)
        burst  == failed > 5
        masked == burst /\ FailureRisk(failed) > SpikeRisk(rpm, base)
    IN  CASE spike /\ ~masked -> [type |-> "behavior_anomaly", risk |-> SpikeRisk(rpm, base)]
          [] burst /\ (~spike \/ masked) -> [type |-> "auth_spike", risk |-> FailureRisk(failed)]
          [] OTHER -> Nothing

\* The riskier of the rules' verdict and the forest's.
Verdict(rule, ml) ==
    IF ml > rule.risk THEN [type |-> "ml_anomaly", risk |-> ml] ELSE rule

\* The baseline moves by a hundredth, and not at all during an anomaly.
NewBase(base, rpm, rule) == IF rule = Nothing THEN (99 * base + 100 * rpm) \div 100 ELSE base

\* _track_behavior: only a spike raises the risk of the account.
Elevates(verdict) == verdict.type = "behavior_anomaly"

=============================================================================
