----------------------------- MODULE RiskScore -----------------------------
(***************************************************************************)
(* The stored risk score of one account (gateway/detection/account_risk.py)*)
(* as threats raise it and time halves it: elevate_account_risk and        *)
(* decay_and_persist, which runs on every authenticated request, each      *)
(* working from the users row it read.                                     *)
(*                                                                         *)
(* A tick is the four-hour half-life, and the score counts units below     *)
(* which the code writes nothing back, so the seven-day cutoff to zero is  *)
(* the end of the halving.  The two-second cooldown drops elevations, which*)
(* stuttering covers.  What follows from a score is the matter of          *)
(* AccountRisk.                                                            *)
(***************************************************************************)
EXTENDS Naturals

CONSTANTS
    Requests,      \* handlers in flight
    Amounts,       \* by how much an event raises the score
    Overlaps,      \* {"score"}: an elevation or a reset may overlap the others
    Top,           \* the score 1.0
    MaxTime        \* bound: the clock

ASSUME AmountsAssumption    == Amounts \subseteq Nat \ {0}
ASSUME OverlapsAssumption   == Overlaps \subseteq {"score"}
ASSUME TopAssumption        == Top \in Nat \ {0}
ASSUME ClockAssumption      == MaxTime \in Nat

VARIABLES
    now,     \* the clock
    user,    \* the users row: risk_score, risk_updated_at
    req,     \* the handler of each request
    peak     \* history: the score and time of the last event that set it

scoreVars == <<now, user, req, peak>>

Score   == 0 .. Top
UserRow == [score : Score, at : Nat]

Handler(op, u, at, amount) == [op |-> op, snap |-> u, at |-> at, amount |-> amount]

NewUser     == [score |-> 0, at |-> 0]
IdleHandler == Handler("none", NewUser, 0, 0)

Handlers == {IdleHandler}
            \cup [op : {"elevate", "decay", "reset"}, snap : UserRow, at : Nat,
                  amount : Amounts \cup {0}]

-----------------------------------------------------------------------------

\* _decayed: halve for every half-life since the score was anchored.
Decayed(u, t) == u.score \div 2 ^ (t - u.at)

\* Decays overlap freely; what else may, Overlaps says.
MayRead(c, op) ==
    "score" \in Overlaps
    \/ \A d \in Requests \ {c} :
          \/ req[d].op = "none"
          \/ op = "decay" /\ req[d].op = "decay"

Start(c, op, amount) ==
    /\ req[c].op = "none"
    /\ MayRead(c, op)
    /\ req' = [req EXCEPT ![c] = Handler(op, user, now, amount)]
    /\ UNCHANGED <<now, user, peak>>

Done(c) == req' = [req EXCEPT ![c] = IdleHandler]

\* An UPDATE leaves out a score that is what the handler had read.
Written(r, score) == IF score = r.snap.score THEN user.score ELSE score

Raised(r) ==
    LET sum == Decayed(r.snap, r.at) + r.amount
    IN  IF sum < Top THEN sum ELSE Top

Elevate(c) ==
    LET r == req[c]
    IN  /\ r.op = "elevate"
        /\ user' = [score |-> Written(r, Raised(r)), at |-> r.at]
        /\ peak' = [score |-> Raised(r), at |-> r.at]
        /\ Done(c)
        /\ UNCHANGED now

\* Mutant of Decay: the anchor stays where the last event put it.
DecayUnstamped(c) ==
    LET r     == req[c]
        score == Decayed(r.snap, now)
    IN  /\ r.op = "decay"
        /\ user' = IF score = r.snap.score THEN user ELSE [user EXCEPT !.score = score]
        /\ Done(c)
        /\ UNCHANGED <<now, peak>>

\* Only a score that time has lowered is written, with a new anchor.
Decay(c) ==
    LET r     == req[c]
        score == Decayed(r.snap, now)
    IN  /\ r.op = "decay"
        /\ user' = IF score = r.snap.score THEN user
                   ELSE [user EXCEPT !.score = score, !.at = now]
        /\ Done(c)
        /\ UNCHANGED <<now, peak>>

\* An administrator's unfreeze starts the account afresh.
Reset(c) ==
    LET r == req[c]
    IN  /\ r.op = "reset"
        /\ user' = [score |-> Written(r, 0), at |-> now]
        /\ peak' = [score |-> 0, at |-> now]
        /\ Done(c)
        /\ UNCHANGED now

Tick ==
    /\ now < MaxTime
    /\ now' = now + 1
    /\ UNCHANGED <<user, req, peak>>

Abort(c) ==
    /\ req[c].op # "none"
    /\ Done(c)
    /\ UNCHANGED <<now, user, peak>>

ScoreInit ==
    /\ now = 0
    /\ user = NewUser
    /\ req = [c \in Requests |-> IdleHandler]
    /\ peak = [score |-> 0, at |-> 0]

ScoreNext ==
    \/ \E c \in Requests :
          \/ \E amount \in Amounts : Start(c, "elevate", amount)
          \/ Start(c, "decay", 0) \/ Start(c, "reset", 0)
          \/ Elevate(c) \/ Decay(c) \/ Reset(c) \/ Abort(c)
    \/ Tick

ScoreSpec == ScoreInit /\ [][ScoreNext]_scoreVars

-----------------------------------------------------------------------------
(* Properties *)

\* Every variable holds what its column or snapshot can hold: no sum of events
\* leaves the range of the score.
ScoreTypeOK ==
    /\ now \in Nat
    /\ user \in UserRow
    /\ req \in [Requests -> Handlers]
    /\ peak \in [score : Score, at : Nat]

\* However often and by however many requests at once the score is read and
\* written back, it lies on the decay curve of the last event that set it
\* (detection/account_risk.py:167-171, README.md:248).
OnCurve == user.score = Decayed(peak, user.at)

=============================================================================
