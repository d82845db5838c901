---------------------------- MODULE AccountRisk ----------------------------
(***************************************************************************)
(* What follows from the stored risk of one account: the step-up demand    *)
(* and the account-wide freeze of gateway/detection/account_risk.py, the   *)
(* gate that enforces them (gateway/dependencies.py) and the handlers that *)
(* lift them (routes/mfa.py, routes/user.py).                              *)
(*                                                                         *)
(* A handler reads the users row once: snap.  Its UPDATE writes only the   *)
(* columns it changed in snap, so user' keeps the others as they are now.  *)
(* An unfreeze reads the account's freeze row in a query of its own.       *)
(* The score itself is abstracted to the band an elevation reaches: any.   *)
(* The cooldown only drops elevations, which stuttering covers.            *)
(***************************************************************************)
EXTENDS Naturals

CONSTANTS
    Requests,      \* handlers in flight
    Sessions,      \* places where clients keep an access token
    Ops,           \* the operations performed
    Races,         \* which overlaps of conflicting handlers may happen
    MfaEnabled,    \* users.mfa_enabled
    FreezeTicks,   \* RISK_FREEZE_SECONDS
    MaxTime,       \* bound: the clock
    MaxFreezes     \* bound: token_version bumps in one behaviour

AllOps == {"elevate", "login", "sensitive", "totp", "freeze", "unfreeze"}

ASSUME OpsAssumption    == Ops \subseteq AllOps
ASSUME RacesAssumption  == Races \subseteq {"freeze", "stepup"}
ASSUME MfaAssumption    == MfaEnabled \in BOOLEAN
ASSUME TicksAssumption  == FreezeTicks \in Nat \ {0}
ASSUME BoundsAssumption == MaxTime \in Nat /\ MaxFreezes \in Nat

VARIABLES
    now,       \* the clock; Never is before its first value
    user,      \* the users row
    row,       \* the account_freezes row of the account: its end, or Never
    session,   \* the access token each client holds
    req,       \* the handler of each request
    lock,      \* history: the end of the freeze in force, unless lifted
    demand,    \* history: the last step-up demand, unless lifted without a check
    met        \* history: the last MFA check of the account

vars == <<now, user, row, session, req, lock, demand, met>>

Never == 0

UserRow == [ver : Nat, stepup : BOOLEAN, since : Nat, frozenUntil : Nat]

\* mfaAt is the mfa_at claim; Never also stands for mfa_verified = False.
Token == [ver : Nat, mfaAt : Nat]

NewUser == [ver |-> 1, stepup |-> FALSE, since |-> Never, frozenUntil |-> Never]

\* A handler that starts now: the MFA time of its token, the time it takes,
\* and, for the properties, demand and met.
Handler(op, pc, mfaAt, at, dem, check) ==
    [op |-> op, pc |-> pc, mfaAt |-> mfaAt, at |-> at, snap |-> user, row |-> Never,
     demand |-> dem, met |-> check]

IdleHandler == [op |-> "none", pc |-> "idle", mfaAt |-> Never, at |-> Never,
                snap |-> NewUser, row |-> Never, demand |-> Never, met |-> Never]

RunningOf(ops, pcs) == [op : ops, pc : pcs, mfaAt : Nat, at : Nat, snap : UserRow,
                        row : Nat, demand : Nat, met : Nat]

\* Handlers that only write, and those that authenticate a request first.
Running ==
    RunningOf({"elevate", "freeze", "unfreeze"}, {"commit"})
    \cup RunningOf({"unfreeze"}, {"rows"})
    \cup RunningOf({"login", "sensitive", "totp"}, {"check", "admitted", "verify", "mint"})

Handlers == {IdleHandler} \cup Running

-----------------------------------------------------------------------------

Freezing(op) == op \in {"elevate", "freeze"}
Lifting(op)  == op \in {"elevate", "totp", "unfreeze"}

\* A freeze beside a handler that saw an earlier freeze of the account.
FreezeConflict(op1, snap1, op2, snap2) ==
    \/ Freezing(op1) /\ snap2.frozenUntil # Never
    \/ Freezing(op2) /\ snap1.frozenUntil # Never

\* An elevation beside a handler that lifts the demand.
StepupConflict(op1, op2) ==
    \/ op1 = "elevate" /\ Lifting(op2)
    \/ op2 = "elevate" /\ Lifting(op1)

\* Nothing in the code serialises handlers: Races names the overlaps a
\* behaviour may contain.
MayRead(c, op) ==
    \A d \in Requests \ {c} :
        req[d].pc # "idle" =>
            /\ "freeze" \in Races \/ ~FreezeConflict(op, user, req[d].op, req[d].snap)
            /\ "stepup" \in Races \/ ~StepupConflict(op, req[d].op)

\* A handler starts: it reads the users row.
Start(c, r) ==
    /\ r.op \in Ops
    /\ req[c].pc = "idle"
    /\ MayRead(c, r.op)
    /\ req' = [req EXCEPT ![c] = r]
    /\ UNCHANGED <<now, user, row, session, lock, demand, met>>

Goto(c, pc) == req' = [req EXCEPT ![c].pc = pc]

Done(c) == req' = [req EXCEPT ![c] = IdleHandler]

\* The row after a handler that read u cleared the demand.
WithoutDemand(u) ==
    [user EXCEPT !.stepup = IF u.stepup THEN FALSE ELSE @,
                 !.since  = IF u.since # Never THEN Never ELSE @]

\* History: a freeze that is still to end, and a demand nobody lifts here.
InForce(until) == IF until >= now THEN until ELSE Never
DemandAfterLift(r) == IF r.snap.stepup THEN Never ELSE demand

\* Mutant of FrozenAt: the last second of a freeze does not count.
FrozenBefore(u, t) == u.frozenUntil > t

FrozenAt(u, t) == u.frozenUntil # Never /\ u.frozenUntil >= t

-----------------------------------------------------------------------------
(* elevate_account_risk and apply_risk_policy *)

ElevateStart(c) == Start(c, Handler("elevate", "commit", Never, now, Never, Never))

Elevating(c) == req[c].op = "elevate" /\ req[c].pc = "commit"

\* Critical, and not frozen in the row as read: freeze, revoke every session.
ElevateFreeze(c) ==
    LET r     == req[c]
        until == r.at + FreezeTicks
    IN  /\ Elevating(c)
        /\ ~FrozenAt(r.snap, r.at)
        /\ r.snap.ver <= MaxFreezes
        /\ user' = [WithoutDemand(r.snap) EXCEPT !.ver = r.snap.ver + 1,
                                                 !.frozenUntil = until]
        /\ row' = until
        /\ lock' = InForce(until)
        /\ demand' = DemandAfterLift(r)
        /\ Done(c)
        /\ UNCHANGED <<now, session, met>>

\* Past the step-up threshold: demand a fresh MFA check, unless one is demanded.
ElevateStepup(c) ==
    LET r == req[c]
    IN  /\ Elevating(c)
        /\ user' = IF r.snap.stepup THEN user
                   ELSE [user EXCEPT !.stepup = TRUE, !.since = r.at]
        /\ demand' = IF r.snap.stepup THEN demand ELSE r.at
        /\ Done(c)
        /\ UNCHANGED <<now, row, session, lock, met>>

\* Below RISK_STEPUP_CLEAR the elevation lifts the demand.
ElevateClear(c) ==
    /\ Elevating(c)
    /\ user' = WithoutDemand(req[c].snap)
    /\ demand' = DemandAfterLift(req[c])
    /\ Done(c)
    /\ UNCHANGED <<now, row, session, lock, met>>

\* Between the thresholds, critical while frozen, critical for an
\* administrator, or within the cooldown: only the score may change.
ElevateOnly(c) ==
    /\ Elevating(c)
    /\ Done(c)
    /\ UNCHANGED <<now, user, row, session, lock, demand, met>>

-----------------------------------------------------------------------------
(* require_authenticated_user, the login's own check, and what they guard *)

LoginStart(c) == Start(c, Handler("login", "check", Never, Never, Never, Never))

\* A bearer token of the current version.  Where MFA is enabled a sensitive
\* route wants it MFA-verified; POST /auth/mfa/verify is exempt.
SensitiveStart(c, s) ==
    /\ session[s].ver = user.ver
    /\ MfaEnabled => session[s].mfaAt # Never
    /\ Start(c, Handler("sensitive", "check", session[s].mfaAt, Never, demand, met))

TotpStart(c, s) ==
    /\ MfaEnabled
    /\ session[s].ver = user.ver
    /\ Start(c, Handler("totp", "check", Never, Never, Never, Never))

\* Mutant of PassesGate: any MFA check meets the demand.
PassesGateUndated(r) == r.snap.stepup => MfaEnabled

\* The step-up gate of a sensitive route; without MFA a demand cannot be met.
PassesGate(r) ==
    r.snap.stepup => MfaEnabled /\ r.mfaAt >= r.snap.since

NextStep(r) ==
    CASE r.op = "login"     -> "mint"
      [] r.op = "totp"      -> "verify"
      [] r.op = "sensitive" -> "admitted"

\* Mutant of CleanUp: only the column is cleared.
CleanUpColumn(r) ==
    /\ user' = IF FrozenAt(r.snap, now) THEN user ELSE [user EXCEPT !.frozenUntil = Never]
    /\ UNCHANGED row

\* is_user_frozen clears a freeze it finds over, and the rows that go with it.
CleanUp(r) ==
    IF r.snap.frozenUntil # Never /\ ~FrozenAt(r.snap, now)
    THEN user' = [user EXCEPT !.frozenUntil = Never] /\ row' = Never
    ELSE UNCHANGED <<user, row>>

\* The freeze check, then the gate.
Check(c) ==
    LET r == req[c]
    IN  /\ r.pc = "check"
        /\ CleanUp(r)
        /\ IF FrozenAt(r.snap, now) \/ (r.op = "sensitive" /\ ~PassesGate(r))
           THEN Done(c)
           ELSE Goto(c, NextStep(r))
        /\ UNCHANGED <<now, session, lock, demand, met>>

\* The sensitive route answers.
Respond(c) ==
    /\ req[c].pc = "admitted"
    /\ Done(c)
    /\ UNCHANGED <<now, user, row, session, lock, demand, met>>

\* Mutant of Verify: the flag goes, the date of the demand stays.
VerifyFlagOnly(c) ==
    /\ req[c].pc = "verify"
    /\ user' = [user EXCEPT !.stepup = IF req[c].snap.stepup THEN FALSE ELSE @]
    /\ req' = [req EXCEPT ![c].pc = "mint", ![c].mfaAt = now]
    /\ met' = now
    /\ UNCHANGED <<now, row, session, lock, demand>>

\* A right code lifts the demand for the whole account and takes the time.
Verify(c) ==
    /\ req[c].pc = "verify"
    /\ user' = WithoutDemand(req[c].snap)
    /\ req' = [req EXCEPT ![c].pc = "mint", ![c].mfaAt = now]
    /\ met' = now
    /\ UNCHANGED <<now, row, session, lock, demand>>

\* The client keeps the new token.
Mint(c, s) ==
    LET r == req[c]
    IN  /\ r.pc = "mint"
        /\ session' = [session EXCEPT ![s] = [ver |-> r.snap.ver, mfaAt |-> r.mfaAt]]
        /\ Done(c)
        /\ UNCHANGED <<now, user, row, lock, demand, met>>

-----------------------------------------------------------------------------
(* Administrators, time and failure *)

AdminFreezeStart(c) == Start(c, Handler("freeze", "commit", Never, now, Never, Never))

AdminFreeze(c) ==
    LET r     == req[c]
        until == r.at + FreezeTicks
    IN  /\ r.op = "freeze"
        /\ r.snap.ver <= MaxFreezes
        /\ user' = [user EXCEPT !.ver = r.snap.ver + 1, !.frozenUntil = until]
        /\ row' = until
        /\ lock' = InForce(until)
        /\ Done(c)
        /\ UNCHANGED <<now, session, demand, met>>

UnfreezeStart(c) == Start(c, Handler("unfreeze", "rows", Never, Never, Never, Never))

\* The account's freeze row: a freeze may have come since the users row was read.
UnfreezeRead(c) ==
    /\ req[c].op = "unfreeze" /\ req[c].pc = "rows"
    /\ req' = [req EXCEPT ![c].pc = "commit", ![c].row = row]
    /\ UNCHANGED <<now, user, row, session, lock, demand, met>>

\* The freeze row is deleted by the id it had when read; a newer row of the
\* account may have been given that id again, or not.
Unfreeze(c) ==
    LET r == req[c]
    IN  /\ r.op = "unfreeze" /\ r.pc = "commit"
        /\ user' = [WithoutDemand(r.snap) EXCEPT
                       !.frozenUntil = IF r.snap.frozenUntil # Never THEN Never ELSE @]
        /\ row' \in IF r.row = Never THEN {row}
                    ELSE IF row = r.row THEN {Never} ELSE {row, Never}
        /\ lock' = IF r.snap.frozenUntil # Never THEN Never ELSE lock
        /\ demand' = DemandAfterLift(r)
        /\ Done(c)
        /\ UNCHANGED <<now, session, met>>

\* lock is forgotten when the freeze is over.
Tick ==
    /\ now < MaxTime
    /\ now' = now + 1
    /\ lock' = IF lock < now' THEN Never ELSE lock
    /\ UNCHANGED <<user, row, session, req, demand, met>>

\* A handler dies between two commits.
Abort(c) ==
    /\ req[c].pc # "idle"
    /\ Done(c)
    /\ UNCHANGED <<now, user, row, session, lock, demand, met>>

Init ==
    /\ now = 1
    /\ user = NewUser
    /\ row = Never
    /\ session = [s \in Sessions |-> [ver |-> 0, mfaAt |-> Never]]
    /\ req = [c \in Requests |-> IdleHandler]
    /\ lock = Never
    /\ demand = Never
    /\ met = Never

Elevate(c) ==
    \/ ElevateStart(c) \/ ElevateFreeze(c) \/ ElevateStepup(c)
    \/ ElevateClear(c) \/ ElevateOnly(c)

Authenticate(c) ==
    \/ LoginStart(c) \/ Check(c) \/ Respond(c) \/ Verify(c)
    \/ \E s \in Sessions : SensitiveStart(c, s) \/ TotpStart(c, s) \/ Mint(c, s)

Administer(c) ==
    \/ AdminFreezeStart(c) \/ AdminFreeze(c)
    \/ UnfreezeStart(c) \/ UnfreezeRead(c) \/ Unfreeze(c)

Next ==
    \/ \E c \in Requests : Elevate(c) \/ Authenticate(c) \/ Administer(c) \/ Abort(c)
    \/ Tick

Spec == Init /\ [][Next]_vars

-----------------------------------------------------------------------------
(* Properties *)

\* Every variable holds what its column or snapshot can hold.
TypeOK ==
    /\ now \in Nat \ {Never}
    /\ user \in UserRow
    /\ row \in Nat
    /\ session \in [Sessions -> Token]
    /\ req \in [Requests -> Handlers]
    /\ lock \in Nat
    /\ demand \in Nat
    /\ met \in Nat

\* The step-up flag and its date come and go together, however elevations,
\* MFA checks, freezes and unfreezes overlap: a demand always says since when
\* (detection/account_risk.py:263-264, 279-280, 308-309, routes/mfa.py:264-266).
StepupPaired == user.stepup <=> user.since # Never

\* A freeze nobody lifted is in force for its whole duration
\* (detection/account_risk.py:218).
FreezeHolds == lock # Never => user.frozenUntil = lock

\* A freeze that administrators are shown is the one the gate enforces: no row
\* outlives the freeze of the column, and none names another end, however logins
\* that clean up and administrators overlap (detection/account_risk.py:244-252,
\* 317-318).  The converse fails: see UnfreezeRead.
ShownIsEnforced == row # Never => row = user.frozenUntil

\* A step-up demand that risk has not withdrawn opens the sensitive routes to
\* nobody before a right code was given, whatever overlaps
\* (dependencies.py:129-170).
AccountReverified ==
    \A c \in Requests :
        req[c].pc = "admitted" =>
            req[c].mfaAt >= req[c].demand \/ req[c].met >= req[c].demand

\* An elevation that reaches the step-up band leaves a demand in force, unless
\* a handler that lifts demands overlaps it (detection/account_risk.py:215).
ElevationDemands ==
    [][\A c \in Requests : ElevateStepup(c) => user'.stepup]_vars

=============================================================================
