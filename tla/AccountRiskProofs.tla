------------------------- MODULE AccountRiskProofs -------------------------
(***************************************************************************)
(* Theorems about the step-up demand and the freeze of an account, for any *)
(* number of requests and sessions and any duration of a freeze.           *)
(***************************************************************************)
EXTENDS AccountRisk, TLAPS

-----------------------------------------------------------------------------
(* Type correctness *)

LEMMA NewUserType == NewUser \in UserRow
  BY DEF NewUser, UserRow, Never

LEMMA TypeInit == Init => TypeOK
  BY NewUserType DEF Init, TypeOK, Handlers, Token, Never

\* What a handler holds, idle or not.
LEMMA HandlerShape ==
  ASSUME TypeOK, NEW c \in Requests
  PROVE  /\ req[c].snap \in UserRow
         /\ req[c].mfaAt \in Nat /\ req[c].at \in Nat /\ req[c].row \in Nat
         /\ req[c].demand \in Nat /\ req[c].met \in Nat
         /\ req[c].op # "none" => req[c] \in Running
         /\ req[c].pc # "idle" => req[c] \in Running
  BY NewUserType DEF TypeOK, Handlers, Running, RunningOf, IdleHandler, Never

LEMMA StartType ==
  ASSUME TypeOK, NEW c \in Requests, NEW op \in AllOps, NEW pc \in {"commit", "check", "rows"},
         pc = "commit" <=> op \in {"elevate", "freeze"}, pc = "rows" <=> op = "unfreeze",
         NEW mfaAt \in Nat, NEW at \in Nat, NEW dem \in Nat,
         NEW check \in Nat, Start(c, Handler(op, pc, mfaAt, at, dem, check))
  PROVE  TypeOK'
  <1>1. Handler(op, pc, mfaAt, at, dem, check) \in Handlers
    BY DEF Handler, Handlers, Running, RunningOf, AllOps, TypeOK, Never
  <1>2. QED
    BY <1>1 DEF Start, TypeOK

LEMMA DoneType ==
  ASSUME TypeOK, NEW c \in Requests, Done(c)
  PROVE  req' \in [Requests -> Handlers]
  BY DEF TypeOK, Done, Handlers

LEMMA GotoType ==
  ASSUME TypeOK, NEW c \in Requests, req[c].pc \notin {"idle", "commit", "rows"},
         NEW pc \in {"admitted", "verify", "mint"}, Goto(c, pc)
  PROVE  req' \in [Requests -> Handlers]
  <1>1. req[c] \in Running
    BY HandlerShape
  <1>2. [req[c] EXCEPT !.pc = pc] \in Handlers
    BY <1>1 DEF Running, RunningOf, Handlers
  <1>3. QED
    BY <1>2 DEF TypeOK, Goto

LEMMA WithoutDemandType ==
  ASSUME TypeOK, NEW u \in UserRow
  PROVE  WithoutDemand(u) \in UserRow
  BY DEF WithoutDemand, TypeOK, UserRow, Never

LEMMA DemandType ==
  ASSUME TypeOK, NEW c \in Requests
  PROVE  DemandAfterLift(req[c]) \in Nat
  BY DEF DemandAfterLift, TypeOK, Never

LEMMA InForceType ==
  ASSUME TypeOK, NEW until \in Nat
  PROVE  InForce(until) \in Nat
  BY DEF InForce, Never

LEMMA FrozenRowType ==
  ASSUME NEW u \in UserRow, NEW ver \in Nat, NEW until \in Nat
  PROVE  [u EXCEPT !.ver = ver, !.frozenUntil = until] \in UserRow
  BY DEF UserRow

LEMMA ElevateType ==
  ASSUME TypeOK, NEW c \in Requests, Elevate(c)
  PROVE  TypeOK'
  <1>1. CASE ElevateStart(c)
    BY <1>1, StartType DEF ElevateStart, AllOps, Never, TypeOK
  <1>2. CASE ElevateFreeze(c)
    <2> DEFINE until == req[c].at + FreezeTicks
    <2>1. until \in Nat
      BY HandlerShape, TicksAssumption
    <2>2. user' \in UserRow
      <3>1. WithoutDemand(req[c].snap) \in UserRow
        BY HandlerShape, WithoutDemandType
      <3>2. req[c].snap.ver + 1 \in Nat
        BY HandlerShape DEF UserRow
      <3>3. QED
        BY <1>2, <2>1, <3>1, <3>2, FrozenRowType DEF ElevateFreeze
    <2>3. lock' \in Nat /\ row' \in Nat /\ demand' \in Nat
      BY <1>2, <2>1, InForceType, DemandType DEF ElevateFreeze
    <2>4. QED
      BY <1>2, <2>2, <2>3, DoneType DEF ElevateFreeze, TypeOK
  <1>3. CASE ElevateStepup(c)
    <2>1. user' \in UserRow /\ demand' \in Nat
      BY <1>3, HandlerShape DEF ElevateStepup, TypeOK, UserRow
    <2>2. QED
      BY <1>3, <2>1, DoneType DEF ElevateStepup, TypeOK
  <1>4. CASE ElevateClear(c)
    BY <1>4, HandlerShape, WithoutDemandType, DemandType, DoneType DEF ElevateClear, TypeOK
  <1>5. CASE ElevateOnly(c)
    BY <1>5, DoneType DEF ElevateOnly, TypeOK
  <1>6. QED
    BY <1>1, <1>2, <1>3, <1>4, <1>5 DEF Elevate

LEMMA AuthenticateType ==
  ASSUME TypeOK, NEW c \in Requests, Authenticate(c)
  PROVE  TypeOK'
  <1>1. CASE LoginStart(c)
    BY <1>1, StartType DEF LoginStart, AllOps, Never
  <1>2. CASE Check(c)
    <2>1. user' \in UserRow /\ row' \in Nat
      BY <1>2 DEF Check, CleanUp, TypeOK, UserRow, Never
    <2>2. CASE Goto(c, NextStep(req[c]))
      <3>1. req[c].pc = "check" /\ req[c].op \in {"login", "sensitive", "totp"}
        BY <1>2, HandlerShape DEF Check, Running, RunningOf
      <3>2. NextStep(req[c]) \in {"admitted", "verify", "mint"}
        BY <3>1 DEF NextStep
      <3>3. QED
        BY <1>2, <2>1, <2>2, <3>1, <3>2, GotoType DEF Check, TypeOK
    <2>3. QED
      BY <1>2, <2>1, <2>2, DoneType DEF Check, TypeOK
  <1>3. CASE Respond(c)
    BY <1>3, DoneType DEF Respond, TypeOK
  <1>4. CASE Verify(c)
    <2>1. req[c] \in Running
      BY <1>4, HandlerShape DEF Verify
    <2>2. [req[c] EXCEPT !.pc = "mint", !.mfaAt = now] \in Handlers
      BY <1>4, <2>1 DEF Verify, Running, RunningOf, Handlers, TypeOK
    <2>3. QED
      BY <1>4, <2>2, HandlerShape, WithoutDemandType DEF Verify, TypeOK
  <1>5. ASSUME NEW s \in Sessions, SensitiveStart(c, s)
        PROVE  TypeOK'
    BY <1>5, StartType DEF SensitiveStart, AllOps, Never, TypeOK, Token
  <1>6. ASSUME NEW s \in Sessions, TotpStart(c, s)
        PROVE  TypeOK'
    BY <1>6, StartType DEF TotpStart, AllOps, Never
  <1>7. ASSUME NEW s \in Sessions, Mint(c, s)
        PROVE  TypeOK'
    <2>1. [ver |-> req[c].snap.ver, mfaAt |-> req[c].mfaAt] \in Token
      BY HandlerShape DEF Token, UserRow
    <2>2. QED
      BY <1>7, <2>1, DoneType DEF Mint, TypeOK
  <1>8. QED
    BY <1>1, <1>2, <1>3, <1>4, <1>5, <1>6, <1>7 DEF Authenticate

LEMMA AdministerType ==
  ASSUME TypeOK, NEW c \in Requests, Administer(c)
  PROVE  TypeOK'
  <1>1. CASE AdminFreezeStart(c)
    BY <1>1, StartType DEF AdminFreezeStart, AllOps, Never, TypeOK
  <1>2. CASE AdminFreeze(c)
    <2> DEFINE until == req[c].at + FreezeTicks
    <2>1. until \in Nat /\ req[c].snap.ver + 1 \in Nat
      BY HandlerShape, TicksAssumption DEF UserRow
    <2>2. user' \in UserRow
      BY <1>2, <2>1, FrozenRowType DEF AdminFreeze, TypeOK
    <2>3. lock' \in Nat /\ row' \in Nat
      BY <1>2, <2>1, InForceType DEF AdminFreeze
    <2>4. QED
      BY <1>2, <2>2, <2>3, DoneType DEF AdminFreeze, TypeOK
  <1>3. CASE UnfreezeStart(c)
    BY <1>3, StartType DEF UnfreezeStart, AllOps, Never, TypeOK
  <1>r. CASE UnfreezeRead(c)
    <2>1. req[c] \in Running /\ row \in Nat
      BY <1>r, HandlerShape DEF UnfreezeRead, TypeOK
    <2>2. [req[c] EXCEPT !.pc = "commit", !.row = row] \in Handlers
      BY <1>r, <2>1 DEF UnfreezeRead, Running, RunningOf, Handlers
    <2>3. QED
      BY <1>r, <2>2 DEF UnfreezeRead, TypeOK
  <1>4. CASE Unfreeze(c)
    <2>1. user' \in UserRow
      <3>1. WithoutDemand(req[c].snap) \in UserRow
        BY HandlerShape, WithoutDemandType
      <3>2. QED
        BY <1>4, <3>1 DEF Unfreeze, UserRow, Never
    <2>2. lock' \in Nat /\ row' \in Nat /\ demand' \in Nat
      BY <1>4, DemandType DEF Unfreeze, TypeOK, Never
    <2>3. QED
      BY <1>4, <2>1, <2>2, DoneType DEF Unfreeze, TypeOK
  <1>5. QED
    BY <1>1, <1>2, <1>3, <1>r, <1>4 DEF Administer

LEMMA TypeStep == TypeOK /\ [Next]_vars => TypeOK'
  <1> SUFFICES ASSUME TypeOK, [Next]_vars
               PROVE  TypeOK'
    OBVIOUS
  <1>1. ASSUME NEW c \in Requests, Abort(c)
        PROVE  TypeOK'
    BY <1>1, DoneType DEF Abort, TypeOK
  <1>2. CASE Tick
    BY <1>2 DEF Tick, TypeOK, Never
  <1>3. CASE UNCHANGED vars
    BY <1>3 DEF vars, TypeOK
  <1>4. QED
    BY <1>1, <1>2, <1>3, ElevateType, AuthenticateType, AdministerType DEF Next

\* The columns, tokens, handlers and history stay in their types, whatever
\* handlers of the gateway overlap.
THEOREM TypeCorrect == Spec => []TypeOK
  BY TypeInit, TypeStep, PTL DEF Spec

-----------------------------------------------------------------------------
(* The step-up demand *)

Paired(u) == u.stepup <=> u.since # Never

\* A demand d is in force in the row u, or was met at m.
Answered(d, u, m) == d # Never => (u.stepup /\ u.since = d) \/ m >= d

\* What a handler brings to its commit: it read a paired row, it demands a
\* step-up as of a time that has come, and for a sensitive route it knows of
\* every demand the row it reads was to enforce.
StepupHandler(r) ==
    /\ Paired(r.snap)
    /\ r.op = "elevate" => r.at # Never /\ r.at <= now
    /\ Answered(r.demand, r.snap, r.met)
    /\ r.pc = "admitted" => r.mfaAt >= r.demand \/ r.met >= r.demand

StepupInv ==
    /\ TypeOK
    /\ StepupPaired
    /\ demand <= now
    /\ Answered(demand, user, met)
    /\ \A c \in Requests : StepupHandler(req[c])

LEMMA StepupInit == Init => StepupInv
  <1> SUFFICES ASSUME Init PROVE StepupInv
    OBVIOUS
  <1>1. TypeOK
    BY TypeInit
  <1>2. \A c \in Requests : StepupHandler(req[c])
    BY DEF Init, StepupHandler, IdleHandler, Paired, Answered, NewUser, Never
  <1>3. QED
    BY <1>1, <1>2 DEF Init, StepupInv, StepupPaired, Answered, NewUser, Never

\* A handler other than the one that moves is as good at a later time.
LEMMA StepupOthers ==
  ASSUME StepupInv, TypeOK', now' >= now, NEW c \in Requests,
         \A d \in Requests \ {c} : req'[d] = req[d],
         StepupHandler(req[c])'
  PROVE  \A d \in Requests : StepupHandler(req[d])'
  <1> TAKE d \in Requests
  <1>1. CASE d = c
    BY <1>1
  <1>2. CASE d # c
    <2>1. req'[d] = req[d] /\ StepupHandler(req[d])
      BY <1>2 DEF StepupInv
    <2>2. req[d].at \in Nat /\ now \in Nat /\ now' \in Nat
      BY HandlerShape DEF StepupInv, TypeOK
    <2>3. QED
      BY <2>1, <2>2 DEF StepupHandler
  <1>3. QED
    BY <1>1, <1>2

LEMMA StepupDone ==
  ASSUME StepupInv, TypeOK', now' >= now, NEW c \in Requests, Done(c)
  PROVE  \A d \in Requests : StepupHandler(req[d])'
  <1>1. req'[c] = IdleHandler /\ \A d \in Requests \ {c} : req'[d] = req[d]
    BY DEF Done, StepupInv, TypeOK
  <1>2. StepupHandler(req[c])'
    BY <1>1 DEF StepupHandler, IdleHandler, Paired, Answered, NewUser, Never
  <1>3. QED
    BY <1>1, <1>2, StepupOthers

\* A handler starts: it read what is there.
LEMMA StepupStart ==
  ASSUME StepupInv, TypeOK', NEW c \in Requests, NEW op, NEW pc \in {"commit", "check", "rows"},
         NEW mfaAt, NEW at, op = "elevate" => at = now, NEW dem, NEW check,
         dem = Never \/ (dem = demand /\ check = met),
         Start(c, Handler(op, pc, mfaAt, at, dem, check))
  PROVE  StepupInv'
  <1>1. /\ req'[c] = Handler(op, pc, mfaAt, at, dem, check)
        /\ \A d \in Requests \ {c} : req'[d] = req[d]
    BY DEF Start, StepupInv, TypeOK
  <1>2. now \in Nat /\ met \in Nat /\ now' = now
    BY DEF Start, StepupInv, TypeOK
  <1>3. Paired(user) /\ Answered(dem, user, check)
    BY <1>2 DEF StepupInv, StepupPaired, Paired, Answered
  <1>4. StepupHandler(req[c])'
    BY <1>1, <1>2, <1>3 DEF Handler, StepupHandler, StepupInv, TypeOK
  <1>5. \A d \in Requests : StepupHandler(req[d])'
    BY <1>1, <1>2, <1>4, StepupOthers
  <1>6. QED
    BY <1>5 DEF Start, StepupInv, StepupPaired, Answered

\* Whoever lifts a demand it read lifts flag and date; else it leaves both.
LEMMA WithoutDemandPaired ==
  ASSUME StepupInv, NEW c \in Requests
  PROVE  LET w == WithoutDemand(req[c].snap)
         IN  /\ Paired(w)
             /\ Answered(DemandAfterLift(req[c]), w, met)
             /\ DemandAfterLift(req[c]) <= now
  <1>1. user \in UserRow /\ req[c].snap \in UserRow /\ now \in Nat /\ met \in Nat
    BY HandlerShape DEF StepupInv, TypeOK
  <1>2. Paired(user) /\ Paired(req[c].snap)
    BY DEF StepupInv, StepupPaired, Paired, StepupHandler
  <1>3. CASE req[c].snap.stepup
    BY <1>1, <1>2, <1>3 DEF WithoutDemand, DemandAfterLift, Paired, Answered, UserRow, Never
  <1>4. CASE ~req[c].snap.stepup
    <2>1. WithoutDemand(req[c].snap) = user
      BY <1>1, <1>2, <1>4 DEF WithoutDemand, Paired, UserRow
    <2>2. DemandAfterLift(req[c]) = demand
      BY <1>4 DEF DemandAfterLift
    <2>3. QED
      BY <1>2, <2>1, <2>2 DEF StepupInv
  <1>5. QED
    BY <1>3, <1>4

LEMMA StepupElevate ==
  ASSUME StepupInv, TypeOK', NEW c \in Requests, Elevate(c)
  PROVE  StepupInv'
  <1> DEFINE w == WithoutDemand(req[c].snap)
  <1>0. now \in Nat
    BY DEF StepupInv, TypeOK
  <1>w. w \in UserRow
    BY HandlerShape, WithoutDemandType DEF StepupInv
  <1>1. CASE ElevateStart(c)
    BY <1>1, StepupStart DEF ElevateStart
  <1>2. CASE ElevateFreeze(c)
    <2>1. user'.stepup = w.stepup /\ user'.since = w.since
      BY <1>2, <1>w DEF ElevateFreeze, UserRow
    <2>2. demand' = DemandAfterLift(req[c]) /\ UNCHANGED <<now, met>> /\ Done(c)
      BY <1>2 DEF ElevateFreeze
    <2>3. StepupPaired' /\ Answered(demand, user, met)' /\ demand' <= now'
      BY <2>1, <2>2, WithoutDemandPaired DEF StepupPaired, Paired, Answered
    <2>4. QED
      BY <1>0, <2>2, <2>3, StepupDone DEF StepupInv
  <1>3. CASE ElevateStepup(c)
    <2>1. Done(c) /\ UNCHANGED <<now, met>>
      BY <1>3 DEF ElevateStepup
    <2>2. CASE req[c].snap.stepup
      BY <1>0, <1>3, <2>1, <2>2, StepupDone
         DEF ElevateStepup, StepupInv, StepupPaired, Answered
    <2>3. CASE ~req[c].snap.stepup
      <3>1. user' = [user EXCEPT !.stepup = TRUE, !.since = req[c].at] /\ demand' = req[c].at
        BY <1>3, <2>3 DEF ElevateStepup
      <3>2. req[c].at # Never /\ req[c].at <= now
        BY <1>3 DEF ElevateStepup, Elevating, StepupInv, StepupHandler
      <3>3. user'.stepup /\ user'.since = req[c].at
        BY <3>1 DEF StepupInv, TypeOK, UserRow
      <3>4. QED
        BY <1>0, <2>1, <3>1, <3>2, <3>3, StepupDone DEF StepupInv, StepupPaired, Answered
    <2>4. QED
      BY <2>2, <2>3
  <1>4. CASE ElevateClear(c)
    <2>1. /\ user' = w /\ demand' = DemandAfterLift(req[c])
          /\ UNCHANGED <<now, met>> /\ Done(c)
      BY <1>4 DEF ElevateClear
    <2>2. StepupPaired' /\ Answered(demand, user, met)' /\ demand' <= now'
      BY <2>1, WithoutDemandPaired DEF StepupPaired, Paired, Answered
    <2>3. QED
      BY <1>0, <2>1, <2>2, StepupDone DEF StepupInv
  <1>5. CASE ElevateOnly(c)
    BY <1>0, <1>5, StepupDone DEF ElevateOnly, StepupInv, StepupPaired, Answered
  <1>6. QED
    BY <1>1, <1>2, <1>3, <1>4, <1>5 DEF Elevate

LEMMA StepupAuthenticate ==
  ASSUME StepupInv, TypeOK', NEW c \in Requests, Authenticate(c)
  PROVE  StepupInv'
  <1>0. now \in Nat /\ now' = now
    BY DEF StepupInv, TypeOK, Authenticate, LoginStart, SensitiveStart, TotpStart, Start,
           Check, Respond, Verify, Mint
  <1>1. CASE LoginStart(c)
    BY <1>1, StepupStart DEF LoginStart
  <1>2. CASE Check(c)
    <2>1. user'.stepup = user.stepup /\ user'.since = user.since
      BY <1>2 DEF Check, CleanUp, StepupInv, TypeOK, UserRow
    <2>2. StepupPaired' /\ Answered(demand, user, met)' /\ demand' <= now'
      BY <1>2, <2>1 DEF Check, StepupInv, StepupPaired, Answered
    <2>3. CASE Done(c)
      BY <1>0, <2>2, <2>3, StepupDone DEF StepupInv
    <2>4. CASE /\ ~(req[c].op = "sensitive" /\ ~PassesGate(req[c]))
               /\ Goto(c, NextStep(req[c]))
      <3> DEFINE new == [req[c] EXCEPT !.pc = NextStep(req[c])]
      <3>1. req[c] \in Running /\ req[c].op \in {"login", "sensitive", "totp"}
        BY <1>2, HandlerShape DEF Check, StepupInv, Running, RunningOf
      <3>2. /\ new.op = req[c].op /\ new.snap = req[c].snap /\ new.mfaAt = req[c].mfaAt
            /\ new.demand = req[c].demand /\ new.met = req[c].met
            /\ new.pc = NextStep(req[c])
        BY <3>1 DEF Running, RunningOf
      <3>3. StepupHandler(req[c])
        BY DEF StepupInv
      <3>4. ASSUME NextStep(req[c]) = "admitted"
            PROVE  req[c].mfaAt >= req[c].demand \/ req[c].met >= req[c].demand
        <4>1. PassesGate(req[c])
          BY <2>4, <3>1, <3>4 DEF NextStep
        <4>2. req[c].mfaAt \in Nat /\ req[c].demand \in Nat
          BY HandlerShape DEF StepupInv
        <4>3. QED
          BY <3>3, <4>1, <4>2 DEF PassesGate, StepupHandler, Answered, Never
      <3>5. req'[c] = new /\ \A d \in Requests \ {c} : req'[d] = req[d]
        BY <2>4 DEF Goto, StepupInv, TypeOK
      <3>6. StepupHandler(req[c])'
        BY <1>0, <3>1, <3>2, <3>3, <3>4, <3>5 DEF StepupHandler
      <3>7. QED
        BY <1>0, <2>2, <3>5, <3>6, StepupOthers DEF StepupInv
    <2>5. QED
      BY <1>2, <2>3, <2>4 DEF Check
  <1>3. CASE Respond(c)
    BY <1>0, <1>3, StepupDone DEF Respond, StepupInv, StepupPaired, Answered
  <1>4. CASE Verify(c)
    <2> DEFINE w   == WithoutDemand(req[c].snap)
               new == [req[c] EXCEPT !.pc = "mint", !.mfaAt = now]
    <2>1. Paired(w)
      BY WithoutDemandPaired
    <2>2. user' = w /\ met' = now /\ demand' = demand
      BY <1>4 DEF Verify
    <2>3. StepupPaired' /\ Answered(demand, user, met)' /\ demand' <= now'
      BY <1>0, <2>1, <2>2 DEF StepupInv, StepupPaired, Paired, Answered
    <2>4. req[c] \in Running /\ req[c].op # "elevate"
      BY <1>4, HandlerShape DEF Verify, StepupInv, Running, RunningOf
    <2>5. req'[c] = new /\ \A d \in Requests \ {c} : req'[d] = req[d]
      BY <1>4 DEF Verify, StepupInv, TypeOK
    <2>6. /\ new.op = req[c].op /\ new.snap = req[c].snap /\ new.pc = "mint"
          /\ new.demand = req[c].demand /\ new.met = req[c].met
      BY <2>4 DEF Running, RunningOf
    <2>7. StepupHandler(req[c])'
      BY <2>4, <2>5, <2>6 DEF StepupHandler, StepupInv
    <2>8. QED
      BY <1>0, <2>3, <2>5, <2>7, StepupOthers DEF StepupInv
  <1>5. ASSUME NEW s \in Sessions, SensitiveStart(c, s)
        PROVE  StepupInv'
    BY <1>5, StepupStart DEF SensitiveStart
  <1>6. ASSUME NEW s \in Sessions, TotpStart(c, s)
        PROVE  StepupInv'
    BY <1>6, StepupStart DEF TotpStart
  <1>7. ASSUME NEW s \in Sessions, Mint(c, s)
        PROVE  StepupInv'
    BY <1>0, <1>7, StepupDone DEF Mint, StepupInv, StepupPaired, Answered
  <1>8. QED
    BY <1>1, <1>2, <1>3, <1>4, <1>5, <1>6, <1>7 DEF Authenticate

LEMMA StepupAdminister ==
  ASSUME StepupInv, TypeOK', NEW c \in Requests, Administer(c)
  PROVE  StepupInv'
  <1>0. now \in Nat
    BY DEF StepupInv, TypeOK
  <1>1. CASE AdminFreezeStart(c)
    BY <1>1, StepupStart DEF AdminFreezeStart
  <1>2. CASE AdminFreeze(c)
    <2>1. user'.stepup = user.stepup /\ user'.since = user.since
      BY <1>2 DEF AdminFreeze, StepupInv, TypeOK, UserRow
    <2>2. QED
      BY <1>0, <1>2, <2>1, StepupDone DEF AdminFreeze, StepupInv, StepupPaired, Answered
  <1>3. CASE UnfreezeStart(c)
    BY <1>3, StepupStart DEF UnfreezeStart
  <1>r. CASE UnfreezeRead(c)
    <2> DEFINE new == [req[c] EXCEPT !.pc = "commit", !.row = row]
    <2>1. req[c] \in Running /\ req[c].op = "unfreeze"
      BY <1>r, HandlerShape DEF UnfreezeRead, StepupInv
    <2>2. req'[c] = new /\ \A d \in Requests \ {c} : req'[d] = req[d]
      BY <1>r DEF UnfreezeRead, StepupInv, TypeOK
    <2>3. /\ new.op = "unfreeze" /\ new.snap = req[c].snap /\ new.pc = "commit"
          /\ new.demand = req[c].demand /\ new.met = req[c].met
      BY <2>1 DEF Running, RunningOf
    <2>4. StepupHandler(req[c])'
      BY <2>2, <2>3 DEF StepupHandler, StepupInv
    <2>5. UNCHANGED <<now, user, demand, met>>
      BY <1>r DEF UnfreezeRead
    <2>6. \A d \in Requests : StepupHandler(req[d])'
      BY <1>0, <2>2, <2>4, <2>5, StepupOthers
    <2>7. QED
      BY <2>5, <2>6 DEF StepupInv, StepupPaired, Answered
  <1>4. CASE Unfreeze(c)
    <2> DEFINE w == WithoutDemand(req[c].snap)
    <2>1. w \in UserRow
      BY HandlerShape, WithoutDemandType DEF StepupInv
    <2>2. user'.stepup = w.stepup /\ user'.since = w.since
      BY <1>4, <2>1 DEF Unfreeze, UserRow
    <2>3. demand' = DemandAfterLift(req[c]) /\ UNCHANGED <<now, met>> /\ Done(c)
      BY <1>4 DEF Unfreeze
    <2>4. StepupPaired' /\ Answered(demand, user, met)' /\ demand' <= now'
      BY <2>2, <2>3, WithoutDemandPaired DEF StepupPaired, Paired, Answered
    <2>5. QED
      BY <1>0, <2>3, <2>4, StepupDone DEF StepupInv
  <1>5. QED
    BY <1>1, <1>2, <1>3, <1>r, <1>4 DEF Administer

LEMMA StepupStep == StepupInv /\ [Next]_vars => StepupInv'
  <1> SUFFICES ASSUME StepupInv, [Next]_vars
               PROVE  StepupInv'
    OBVIOUS
  <1>1. TypeOK' /\ now \in Nat
    BY TypeStep DEF StepupInv, TypeOK
  <1>2. ASSUME NEW c \in Requests, Abort(c)
        PROVE  StepupInv'
    BY <1>1, <1>2, StepupDone DEF Abort, StepupInv, StepupPaired, Answered
  <1>3. CASE Tick
    <2>1. \A c \in Requests : StepupHandler(req[c])'
      BY <1>1, <1>3, HandlerShape DEF Tick, StepupInv, StepupHandler
    <2>2. demand' <= now'
      BY <1>1, <1>3 DEF Tick, StepupInv, TypeOK
    <2>3. QED
      BY <1>1, <1>3, <2>1, <2>2 DEF Tick, StepupInv, StepupPaired, Answered
  <1>4. CASE UNCHANGED vars
    BY <1>1, <1>4 DEF vars, StepupInv, StepupPaired, Answered, StepupHandler
  <1>5. QED
    BY <1>1, <1>2, <1>3, <1>4, StepupElevate, StepupAuthenticate, StepupAdminister DEF Next

\* Flag, date and handlers agree at every step: the inductive invariant.
THEOREM StepupInvariant == Spec => []StepupInv
  BY StepupInit, StepupStep, PTL DEF Spec

\* However handlers overlap, the step-up flag and its date come and go together.
THEOREM PairedAlways == Spec => []StepupPaired
  <1>1. StepupInv => StepupPaired
    BY DEF StepupInv
  <1>2. QED
    BY <1>1, StepupInvariant, PTL

\* However handlers overlap, a sensitive route that answers after a step-up
\* demand does so after a right code was given for the account.
THEOREM DemandIsMet == Spec => []AccountReverified
  <1>1. StepupInv => AccountReverified
    BY DEF StepupInv, StepupHandler, AccountReverified
  <1>2. QED
    BY <1>1, StepupInvariant, PTL

-----------------------------------------------------------------------------
(* The freeze, while no freeze overlaps a handler that read an earlier one *)

\* What a handler that read a freeze knows: nobody set another one since, so the
\* row an unfreeze read is the only one there can be.
FreezeHandler(c) ==
    /\ req[c].snap.frozenUntil # Never =>
          /\ user.frozenUntil \in {Never, req[c].snap.frozenUntil}
          /\ \A d \in Requests \ {c} : ~Freezing(req[d].op)
    /\ (req[c].op = "unfreeze" /\ req[c].pc = "commit" /\ req[c].snap.frozenUntil # Never)
          => row \in {Never, req[c].row}

FreezeInv ==
    /\ TypeOK
    /\ FreezeHolds
    /\ ShownIsEnforced
    /\ lock # Never => lock >= now
    /\ \A c \in Requests : FreezeHandler(c)

LEMMA FreezeInit == Init => FreezeInv
  BY TypeInit DEF Init, FreezeInv, FreezeHolds, ShownIsEnforced, FreezeHandler, NewUser,
                  IdleHandler, Never

\* The handler that moves keeps what it read and what it does; the freeze of the
\* column is left or lifted, and so is the row.
LEMMA FreezeKept ==
  ASSUME FreezeInv, NEW c \in Requests,
         \A d \in Requests \ {c} : req'[d] = req[d],
         req'[c] = IdleHandler \/ (/\ req'[c].op = req[c].op /\ req'[c].row = req[c].row
                                   /\ req'[c].snap = req[c].snap
                                   /\ req'[c].pc # "commit"),
         user'.frozenUntil \in {Never, user.frozenUntil}, row' \in {Never, row}
  PROVE  \A d \in Requests : FreezeHandler(d)'
  <1> TAKE d \in Requests
  <1>1. \A e \in Requests : /\ req'[e].snap = req[e].snap \/ req'[e].snap.frozenUntil = Never
                            /\ Freezing(req'[e].op) => Freezing(req[e].op)
                            /\ (req'[e].op = "unfreeze" /\ req'[e].pc = "commit")
                                  => req'[e] = req[e]
    BY DEF IdleHandler, NewUser, Freezing
  <1>2. FreezeHandler(d)
    BY DEF FreezeInv
  <1>3. QED
    BY <1>1, <1>2 DEF FreezeHandler

LEMMA FreezeDone ==
  ASSUME FreezeInv, NEW c \in Requests, Done(c),
         user'.frozenUntil \in {Never, user.frozenUntil}, row' \in {Never, row}
  PROVE  \A d \in Requests : FreezeHandler(d)'
  <1>1. req'[c] = IdleHandler /\ \A d \in Requests \ {c} : req'[d] = req[d]
    BY DEF Done, FreezeInv, TypeOK
  <1>2. QED
    BY <1>1, FreezeKept

\* An idle handler has read nothing.
LEMMA IdleShape ==
  ASSUME TypeOK, NEW c \in Requests, req[c].pc = "idle"
  PROVE  req[c] = IdleHandler
  BY DEF TypeOK, Handlers, Running, RunningOf

LEMMA FreezeStart ==
  ASSUME FreezeInv, "freeze" \notin Races, TypeOK', NEW c \in Requests, NEW op, NEW pc,
         NEW mfaAt, NEW at, op = "unfreeze" => pc = "rows", NEW dem, NEW check,
         Start(c, Handler(op, pc, mfaAt, at, dem, check))
  PROVE  FreezeInv'
  <1>1. /\ req'[c] = Handler(op, pc, mfaAt, at, dem, check)
        /\ \A d \in Requests \ {c} : req'[d] = req[d]
    BY DEF Start, FreezeInv, TypeOK
  <1>2. /\ req'[c].op = op /\ req'[c].pc = pc /\ req'[c].snap = user
        /\ UNCHANGED <<now, user, row, lock>>
    BY <1>1 DEF Handler, Start
  <1>3. ASSUME NEW d \in Requests \ {c}
        PROVE  /\ user.frozenUntil # Never => ~Freezing(req[d].op)
               /\ req[d].snap.frozenUntil # Never => ~Freezing(op)
    <2>1. CASE req[d].pc = "idle"
      BY <2>1, IdleShape DEF FreezeInv, IdleHandler, NewUser, Freezing
    <2>2. CASE req[d].pc # "idle"
      BY <2>2 DEF Start, MayRead, FreezeConflict, Handler
    <2>3. QED
      BY <2>1, <2>2
  <1>4. FreezeHandler(c)'
    BY <1>1, <1>2, <1>3 DEF FreezeHandler, FreezeInv, ShownIsEnforced
  <1>5. ASSUME NEW d \in Requests \ {c}
        PROVE  FreezeHandler(d)'
    BY <1>1, <1>2, <1>3, <1>5 DEF FreezeHandler, FreezeInv
  <1>6. QED
    BY <1>2, <1>4, <1>5 DEF FreezeInv, FreezeHolds, ShownIsEnforced

\* A freeze is committed: every other handler read a row without one.
LEMMA FreezeCommitted ==
  ASSUME FreezeInv, TypeOK', NEW c \in Requests, Freezing(req[c].op), Done(c),
         NEW until \in Nat, user'.frozenUntil = until, row' = until,
         lock' = InForce(until), now' = now
  PROVE  FreezeInv'
  <1>1. req'[c] = IdleHandler /\ \A d \in Requests \ {c} : req'[d] = req[d]
    BY DEF Done, FreezeInv, TypeOK
  <1>2. ASSUME NEW d \in Requests \ {c}
        PROVE  FreezeHandler(d)'
    <2>1. req[d].snap.frozenUntil = Never
      BY DEF FreezeInv, FreezeHandler
    <2>2. req'[d] = req[d] /\ FreezeHandler(d)
      BY <1>1 DEF FreezeInv
    <2>3. QED
      BY <2>1, <2>2 DEF FreezeHandler
  <1>3. FreezeHandler(c)'
    BY <1>1 DEF FreezeHandler, IdleHandler, NewUser
  <1>4. QED
    BY <1>2, <1>3 DEF FreezeInv, FreezeHolds, ShownIsEnforced, InForce, Never

LEMMA FreezeElevate ==
  ASSUME FreezeInv, "freeze" \notin Races, TypeOK', NEW c \in Requests, Elevate(c)
  PROVE  FreezeInv'
  <1> DEFINE w == WithoutDemand(req[c].snap)
  <1>w. w \in UserRow /\ w.frozenUntil = user.frozenUntil
    BY HandlerShape, WithoutDemandType DEF FreezeInv, WithoutDemand, TypeOK, UserRow
  <1>1. CASE ElevateStart(c)
    BY <1>1, FreezeStart DEF ElevateStart
  <1>2. CASE ElevateFreeze(c)
    <2>1. req[c].at + FreezeTicks \in Nat
      BY HandlerShape, TicksAssumption DEF FreezeInv
    <2>2. user'.frozenUntil = req[c].at + FreezeTicks
      BY <1>2, <1>w DEF ElevateFreeze, UserRow
    <2>3. QED
      BY <1>2, <2>1, <2>2, FreezeCommitted DEF ElevateFreeze, Elevating, Freezing
  <1>3. CASE ElevateStepup(c)
    <2>1. user'.frozenUntil = user.frozenUntil
      BY <1>3 DEF ElevateStepup, FreezeInv, TypeOK, UserRow
    <2>2. QED
      BY <1>3, <2>1, FreezeDone DEF ElevateStepup, FreezeInv, FreezeHolds, ShownIsEnforced
  <1>4. CASE ElevateClear(c)
    BY <1>4, <1>w, FreezeDone DEF ElevateClear, FreezeInv, FreezeHolds, ShownIsEnforced
  <1>5. CASE ElevateOnly(c)
    BY <1>5, FreezeDone DEF ElevateOnly, FreezeInv, FreezeHolds, ShownIsEnforced
  <1>6. QED
    BY <1>1, <1>2, <1>3, <1>4, <1>5 DEF Elevate

LEMMA FreezeAuthenticate ==
  ASSUME FreezeInv, "freeze" \notin Races, TypeOK', NEW c \in Requests, Authenticate(c)
  PROVE  FreezeInv'
  <1>1. CASE LoginStart(c)
    BY <1>1, FreezeStart DEF LoginStart
  <1>2. CASE Check(c)
    <2>1. UNCHANGED <<now, lock>> /\ CleanUp(req[c])
      BY <1>2 DEF Check
    <2>2. \/ user' = user /\ row' = row
          \/ user'.frozenUntil = Never /\ row' = Never /\ lock = Never
      <3>1. CASE req[c].snap.frozenUntil # Never /\ ~FrozenAt(req[c].snap, now)
        <4>1. user' = [user EXCEPT !.frozenUntil = Never] /\ row' = Never
          BY <2>1, <3>1 DEF CleanUp
        <4>2. user.frozenUntil \in {Never, req[c].snap.frozenUntil}
          BY <3>1 DEF FreezeInv, FreezeHandler
        <4>3. lock \in Nat /\ now \in Nat /\ req[c].snap.frozenUntil \in Nat
          BY HandlerShape DEF FreezeInv, TypeOK, UserRow
        <4>4. lock = Never
          BY <3>1, <4>2, <4>3 DEF FrozenAt, FreezeInv, FreezeHolds
        <4>5. QED
          BY <4>1, <4>4 DEF FreezeInv, TypeOK, UserRow
      <3>2. QED
        BY <2>1, <3>1 DEF CleanUp
    <2>3. /\ \A d \in Requests \ {c} : req'[d] = req[d]
          /\ req'[c] = IdleHandler \/ (/\ req'[c].op = req[c].op /\ req'[c].row = req[c].row
                                       /\ req'[c].snap = req[c].snap
                                       /\ req'[c].pc # "commit")
      <3>1. req[c] \in Running /\ req[c].op \in {"login", "sensitive", "totp"}
        BY <1>2, HandlerShape DEF Check, FreezeInv, Running, RunningOf
      <3>2. NextStep(req[c]) # "commit"
        BY <3>1 DEF NextStep
      <3>3. QED
        BY <1>2, <3>1, <3>2 DEF Check, Goto, Done, FreezeInv, TypeOK, Running, RunningOf
    <2>4. \A d \in Requests : FreezeHandler(d)'
      BY <2>2, <2>3, FreezeKept
    <2>5. QED
      BY <2>1, <2>2, <2>4 DEF FreezeInv, FreezeHolds, ShownIsEnforced
  <1>3. CASE Respond(c)
    BY <1>3, FreezeDone DEF Respond, FreezeInv, FreezeHolds, ShownIsEnforced
  <1>4. CASE Verify(c)
    <2>1. user'.frozenUntil = user.frozenUntil
      BY <1>4, HandlerShape DEF Verify, WithoutDemand, FreezeInv, TypeOK, UserRow
    <2>2. req[c] \in Running
      BY <1>4, HandlerShape DEF Verify, FreezeInv
    <2>3. /\ \A d \in Requests \ {c} : req'[d] = req[d]
          /\ req'[c].op = req[c].op /\ req'[c].row = req[c].row /\ req'[c].snap = req[c].snap
          /\ req'[c].pc # "commit"
      BY <1>4, <2>2 DEF Verify, FreezeInv, TypeOK, Running, RunningOf
    <2>4. QED
      BY <1>4, <2>1, <2>3, FreezeKept DEF Verify, FreezeInv, FreezeHolds, ShownIsEnforced
  <1>5. ASSUME NEW s \in Sessions, SensitiveStart(c, s)
        PROVE  FreezeInv'
    BY <1>5, FreezeStart DEF SensitiveStart
  <1>6. ASSUME NEW s \in Sessions, TotpStart(c, s)
        PROVE  FreezeInv'
    BY <1>6, FreezeStart DEF TotpStart
  <1>7. ASSUME NEW s \in Sessions, Mint(c, s)
        PROVE  FreezeInv'
    BY <1>7, FreezeDone DEF Mint, FreezeInv, FreezeHolds, ShownIsEnforced
  <1>8. QED
    BY <1>1, <1>2, <1>3, <1>4, <1>5, <1>6, <1>7 DEF Authenticate

LEMMA FreezeAdminister ==
  ASSUME FreezeInv, "freeze" \notin Races, TypeOK', NEW c \in Requests, Administer(c)
  PROVE  FreezeInv'
  <1>1. CASE AdminFreezeStart(c)
    BY <1>1, FreezeStart DEF AdminFreezeStart
  <1>2. CASE AdminFreeze(c)
    <2>1. req[c].at + FreezeTicks \in Nat
      BY HandlerShape, TicksAssumption DEF FreezeInv
    <2>2. user'.frozenUntil = req[c].at + FreezeTicks
      BY <1>2 DEF AdminFreeze, FreezeInv, TypeOK, UserRow
    <2>3. QED
      BY <1>2, <2>1, <2>2, FreezeCommitted DEF AdminFreeze, Freezing
  <1>3. CASE UnfreezeStart(c)
    BY <1>3, FreezeStart DEF UnfreezeStart
  <1>r. CASE UnfreezeRead(c)
    <2> DEFINE new == [req[c] EXCEPT !.pc = "commit", !.row = row]
    <2>1. req[c] \in Running /\ req[c].op = "unfreeze"
      BY <1>r, HandlerShape DEF UnfreezeRead, FreezeInv
    <2>2. /\ req'[c] = new
          /\ \A d \in Requests \ {c} : req'[d] = req[d]
          /\ UNCHANGED <<now, user, row, lock>>
      BY <1>r DEF UnfreezeRead, FreezeInv, TypeOK
    <2>n. new.op = "unfreeze" /\ new.snap = req[c].snap /\ new.row = row
      BY <2>1 DEF Running, RunningOf
    <2>3. req'[c].op = "unfreeze" /\ req'[c].snap = req[c].snap /\ req'[c].row = row
      BY <2>2, <2>n
    <2>4. FreezeHandler(c)'
      <3>1. FreezeHandler(c)
        BY DEF FreezeInv
      <3>2. \A d \in Requests \ {c} : req'[d] = req[d]
        BY <2>2
      <3>3. user' = user /\ row' = row
        BY <2>2
      <3>4. QED
        BY <2>3, <3>1, <3>2, <3>3 DEF FreezeHandler
    <2>5. ASSUME NEW d \in Requests \ {c}
          PROVE  FreezeHandler(d)'
      <3>1. ~Freezing(req'[c].op)
        BY <2>3 DEF Freezing
      <3>2. QED
        BY <2>2, <2>5, <3>1 DEF FreezeInv, FreezeHandler
    <2>6. QED
      BY <2>2, <2>4, <2>5 DEF FreezeInv, FreezeHolds, ShownIsEnforced
  <1>4. CASE Unfreeze(c)
    <2>1. /\ ShownIsEnforced
          /\ req[c].snap.frozenUntil # Never => row \in {Never, req[c].row}
      BY <1>4 DEF Unfreeze, FreezeInv, FreezeHandler
    <2>2. WithoutDemand(req[c].snap) \in UserRow
      BY HandlerShape, WithoutDemandType DEF FreezeInv
    <2>3. WithoutDemand(req[c].snap).frozenUntil = user.frozenUntil
      BY DEF WithoutDemand, FreezeInv, TypeOK, UserRow
    <2>4. /\ user'.frozenUntil = IF req[c].snap.frozenUntil # Never THEN Never
                                 ELSE user.frozenUntil
          /\ lock' = IF req[c].snap.frozenUntil # Never THEN Never ELSE lock
          /\ row' \in IF req[c].row = Never THEN {row}
                      ELSE IF row = req[c].row THEN {Never} ELSE {row, Never}
          /\ Done(c) /\ now' = now
      BY <1>4, <2>2, <2>3 DEF Unfreeze, UserRow
    <2>5. ShownIsEnforced' /\ row' \in {Never, row}
      BY <2>1, <2>4 DEF ShownIsEnforced
    <2>6. QED
      BY <2>4, <2>5, FreezeDone DEF FreezeInv, FreezeHolds
  <1>5. QED
    BY <1>1, <1>2, <1>3, <1>r, <1>4 DEF Administer

LEMMA FreezeStep ==
  ASSUME "freeze" \notin Races
  PROVE  FreezeInv /\ [Next]_vars => FreezeInv'
  <1> SUFFICES ASSUME FreezeInv, [Next]_vars
               PROVE  FreezeInv'
    OBVIOUS
  <1>1. TypeOK'
    BY TypeStep DEF FreezeInv
  <1>2. ASSUME NEW c \in Requests, Abort(c)
        PROVE  FreezeInv'
    BY <1>1, <1>2, FreezeDone DEF Abort, FreezeInv, FreezeHolds, ShownIsEnforced
  <1>3. CASE Tick
    <2>1. lock \in Nat /\ now \in Nat
      BY DEF FreezeInv, TypeOK
    <2>2. QED
      BY <1>1, <1>3, <2>1 DEF Tick, FreezeInv, FreezeHolds, ShownIsEnforced, FreezeHandler
  <1>4. CASE UNCHANGED vars
    BY <1>1, <1>4 DEF vars, FreezeInv, FreezeHolds, ShownIsEnforced, FreezeHandler
  <1>5. QED
    BY <1>1, <1>2, <1>3, <1>4, FreezeElevate, FreezeAuthenticate, FreezeAdminister DEF Next

\* Column, row, history and handlers agree at every step: the inductive invariant.
THEOREM FreezeInvariant ==
  ASSUME "freeze" \notin Races
  PROVE  Spec => []FreezeInv
  BY FreezeInit, FreezeStep, PTL DEF Spec

\* While no freeze overlaps a handler that read an earlier freeze, a freeze that
\* nobody lifted lasts its whole time.
THEOREM FreezeLasts ==
  ASSUME "freeze" \notin Races
  PROVE  Spec => []FreezeHolds
  <1>1. FreezeInv => FreezeHolds
    BY DEF FreezeInv
  <1>2. QED
    BY <1>1, FreezeInvariant, PTL

\* ... and a freeze that administrators are shown is the one the gate enforces.
THEOREM ShownFreezeStands ==
  ASSUME "freeze" \notin Races
  PROVE  Spec => []ShownIsEnforced
  <1>1. FreezeInv => ShownIsEnforced
    BY DEF FreezeInv
  <1>2. QED
    BY <1>1, FreezeInvariant, PTL

-----------------------------------------------------------------------------
(* An elevation beside no handler that lifts the demand *)

\* With elevations and lifting handlers kept apart, a demand an elevation read
\* is still there when it commits.
DemandInv ==
    /\ TypeOK
    /\ \A c \in Requests : req[c].pc = "verify" => req[c].op = "totp"
    /\ \A c, d \in Requests :
          (c # d /\ req[c].pc # "idle" /\ req[d].pc # "idle")
             => ~StepupConflict(req[c].op, req[d].op)
    /\ \A c \in Requests : (Elevating(c) /\ req[c].snap.stepup) => user.stepup

LEMMA DemandInit == Init => DemandInv
  BY TypeInit DEF Init, DemandInv, Elevating, IdleHandler

\* How a step of its own leaves the handler of a request.
HandlerMoves(d) ==
    \/ req'[d] = IdleHandler
    \/ /\ req[d].pc = "idle"
       /\ MayRead(d, req'[d].op)
       /\ req'[d].pc \in {"commit", "check", "rows"}
       /\ req'[d].snap = user /\ user' = user
    \/ /\ req[d].pc # "idle"
       /\ req'[d].op = req[d].op
       /\ req'[d].pc \in {"admitted", "verify", "mint"}
       /\ req'[d].pc = "verify" => req[d].op = "totp"
    \/ /\ req[d].pc = "rows" /\ req[d].op = "unfreeze"
       /\ req'[d].pc = "commit" /\ req'[d].op = "unfreeze"

LEMMA StartMoves ==
  ASSUME TypeOK, NEW d \in Requests, NEW op, NEW pc \in {"commit", "check", "rows"}, NEW mfaAt,
         NEW at, NEW dem, NEW check,
         Start(d, Handler(op, pc, mfaAt, at, dem, check))
  PROVE  HandlerMoves(d)
  <1>1. req'[d] = Handler(op, pc, mfaAt, at, dem, check)
    BY DEF Start, TypeOK
  <1>2. QED
    BY <1>1 DEF HandlerMoves, Start, Handler

\* A handler moves only itself, in one of these ways.
LEMMA HandlerStep ==
  ASSUME TypeOK, NEW c \in Requests,
         Elevate(c) \/ Authenticate(c) \/ Administer(c) \/ Abort(c)
  PROVE  HandlerMoves(c) /\ \A d \in Requests \ {c} : req'[d] = req[d]
  <1>1. CASE Done(c)
    BY <1>1 DEF Done, HandlerMoves, TypeOK
  <1>2. ASSUME NEW op, NEW pc \in {"commit", "check", "rows"}, NEW mfaAt, NEW at,
               NEW dem, NEW check,
               Start(c, Handler(op, pc, mfaAt, at, dem, check))
        PROVE  HandlerMoves(c) /\ \A d \in Requests \ {c} : req'[d] = req[d]
    BY <1>2, StartMoves DEF Start, TypeOK
  <1>3. CASE Elevate(c)
    BY <1>1, <1>2, <1>3
    DEF Elevate, ElevateStart, ElevateFreeze, ElevateStepup, ElevateClear, ElevateOnly
  <1>r. CASE UnfreezeRead(c)
    <2>1. req[c] \in Running
      BY <1>r, HandlerShape DEF UnfreezeRead
    <2>2. /\ req'[c] = [req[c] EXCEPT !.pc = "commit", !.row = row]
          /\ \A d \in Requests \ {c} : req'[d] = req[d]
      BY <1>r DEF UnfreezeRead, TypeOK
    <2>3. req'[c].pc = "commit" /\ req'[c].op = req[c].op
      BY <2>1, <2>2 DEF Running, RunningOf
    <2>4. QED
      BY <1>r, <2>2, <2>3 DEF HandlerMoves, UnfreezeRead
  <1>4. CASE Administer(c)
    BY <1>1, <1>2, <1>4, <1>r
    DEF Administer, AdminFreezeStart, AdminFreeze, UnfreezeStart, Unfreeze
  <1>5. CASE Authenticate(c)
    <2>1. CASE Check(c)
      <3>1. CASE Done(c)
        BY <3>1, <1>1
      <3>2. CASE Goto(c, NextStep(req[c]))
        <4>1. req[c].pc = "check" /\ req[c] \in Running
          BY <2>1, HandlerShape DEF Check
        <4>2. req[c].op \in {"login", "totp", "sensitive"}
          BY <4>1 DEF Running, RunningOf
        <4>3. /\ NextStep(req[c]) \in {"admitted", "verify", "mint"}
              /\ NextStep(req[c]) = "verify" => req[c].op = "totp"
          BY <4>2 DEF NextStep
        <4>4. /\ req'[c] = [req[c] EXCEPT !.pc = NextStep(req[c])]
              /\ \A d \in Requests \ {c} : req'[d] = req[d]
          BY <3>2 DEF Goto, TypeOK
        <4>5. req'[c].pc = NextStep(req[c]) /\ req'[c].op = req[c].op
          BY <4>1, <4>4 DEF Running, RunningOf
        <4>6. QED
          BY <4>1, <4>3, <4>4, <4>5 DEF HandlerMoves
      <3>3. QED
        BY <2>1, <3>1, <3>2 DEF Check
    <2>2. CASE Verify(c)
      <3>1. req[c].pc = "verify" /\ req[c] \in Running
        BY <2>2, HandlerShape DEF Verify
      <3>2. /\ req'[c] = [req[c] EXCEPT !.pc = "mint", !.mfaAt = now]
            /\ \A d \in Requests \ {c} : req'[d] = req[d]
        BY <2>2 DEF Verify, TypeOK
      <3>3. req'[c].pc = "mint" /\ req'[c].op = req[c].op
        BY <3>1, <3>2 DEF Running, RunningOf
      <3>4. QED
        BY <3>1, <3>2, <3>3 DEF HandlerMoves
    <2>3. ASSUME NEW s \in Sessions, SensitiveStart(c, s)
          PROVE  HandlerMoves(c) /\ \A d \in Requests \ {c} : req'[d] = req[d]
      BY <2>3, <1>2 DEF SensitiveStart
    <2>4. ASSUME NEW s \in Sessions, TotpStart(c, s)
          PROVE  HandlerMoves(c) /\ \A d \in Requests \ {c} : req'[d] = req[d]
      BY <2>4, <1>2 DEF TotpStart
    <2>5. QED
      BY <1>1, <1>2, <1>5, <2>1, <2>2, <2>3, <2>4
      DEF Authenticate, LoginStart, Respond, Mint
  <1>6. CASE Abort(c)
    BY <1>1, <1>6 DEF Abort
  <1>7. QED
    BY <1>3, <1>4, <1>5, <1>6

\* Only a lifting handler that runs clears the flag.
LEMMA LiftStep ==
  ASSUME DemandInv, NEW c \in Requests,
         Elevate(c) \/ Authenticate(c) \/ Administer(c) \/ Abort(c),
         user.stepup, ~user'.stepup
  PROVE  Lifting(req[c].op) /\ req[c].pc # "idle"
  <1>1. user \in UserRow
    BY DEF DemandInv, TypeOK
  <1>2. CASE Elevate(c)
    BY <1>1, <1>2
    DEF Elevate, ElevateStart, Start, ElevateFreeze, ElevateStepup, ElevateClear,
        ElevateOnly, Elevating, Lifting, UserRow
  <1>3. CASE Administer(c)
    <2>1. CASE Unfreeze(c)
      BY <2>1 DEF Unfreeze, Lifting, DemandInv, TypeOK, Handlers, IdleHandler, Running,
                  RunningOf
    <2>2. CASE AdminFreeze(c)
      BY <1>1, <2>2 DEF AdminFreeze, UserRow
    <2>3. QED
      BY <1>3, <2>1, <2>2 DEF Administer, AdminFreezeStart, UnfreezeStart, UnfreezeRead, Start
  <1>4. CASE Authenticate(c)
    <2>1. CASE Verify(c)
      BY <2>1 DEF Verify, DemandInv, Lifting
    <2>2. CASE Check(c)
      BY <1>1, <2>2 DEF Check, CleanUp, UserRow
    <2>3. ASSUME NEW s \in Sessions, SensitiveStart(c, s) \/ TotpStart(c, s) \/ Mint(c, s)
          PROVE  FALSE
      BY <2>3 DEF SensitiveStart, TotpStart, Start, Mint
    <2>4. QED
      BY <1>4, <2>1, <2>2, <2>3 DEF Authenticate, LoginStart, Start, Respond
  <1>5. QED
    BY <1>2, <1>3, <1>4 DEF Abort

LEMMA DemandStep ==
  ASSUME "stepup" \notin Races, DemandInv, [Next]_vars
  PROVE  DemandInv'
  <1>1. TypeOK'
    BY TypeStep DEF DemandInv
  <1>2. CASE UNCHANGED <<req, user>>
    BY <1>1, <1>2 DEF DemandInv, Elevating
  <1>3. ASSUME NEW c \in Requests,
               Elevate(c) \/ Authenticate(c) \/ Administer(c) \/ Abort(c)
        PROVE  DemandInv'
    <2>1. HandlerMoves(c) /\ \A d \in Requests \ {c} : req'[d] = req[d]
      BY <1>3, HandlerStep DEF DemandInv
    <2>2. \A d \in Requests : req'[d].pc = "verify" => req'[d].op = "totp"
      BY <2>1 DEF HandlerMoves, DemandInv, IdleHandler
    <2>3. ASSUME NEW d \in Requests \ {c}, req'[c].pc # "idle", req[d].pc # "idle"
          PROVE  ~StepupConflict(req'[c].op, req[d].op)
      BY <2>1, <2>3 DEF HandlerMoves, DemandInv, IdleHandler, MayRead
    <2>4. \A a, b : StepupConflict(a, b) <=> StepupConflict(b, a)
      BY DEF StepupConflict
    <2>5. \A a, b \in Requests :
             (a # b /\ req'[a].pc # "idle" /\ req'[b].pc # "idle")
                => ~StepupConflict(req'[a].op, req'[b].op)
      BY <2>1, <2>3, <2>4 DEF DemandInv
    <2>6. ASSUME NEW d \in Requests, Elevating(d)', req'[d].snap.stepup
          PROVE  user'.stepup
      <3>1. CASE d = c
        BY <2>1, <2>6, <3>1 DEF HandlerMoves, Elevating, IdleHandler
      <3>2. CASE d # c
        <4>1. Elevating(d) /\ user.stepup
          BY <2>1, <2>6, <3>2 DEF DemandInv, Elevating
        <4>2. ~StepupConflict(req[d].op, req[c].op) \/ req[c].pc = "idle"
          BY <3>2, <4>1 DEF DemandInv, Elevating
        <4>3. QED
          BY <1>3, <4>1, <4>2, LiftStep DEF StepupConflict, Elevating
      <3>3. QED
        BY <3>1, <3>2
    <2>7. QED
      BY <1>1, <2>2, <2>5, <2>6 DEF DemandInv
  <1>4. QED
    BY <1>2, <1>3 DEF Next, Tick, vars

\* If elevations do not overlap handlers that lift a demand, an elevation that
\* reaches the step-up band leaves a demand in force.
THEOREM ElevationLeavesDemand ==
  ASSUME "stepup" \notin Races
  PROVE  Spec => ElevationDemands
  <1> DEFINE Demands == \A c \in Requests : ElevateStepup(c) => user'.stepup
  <1>1. DemandInv => Demands
    <2> SUFFICES ASSUME DemandInv, NEW c \in Requests, ElevateStepup(c)
                 PROVE  user'.stepup
      OBVIOUS
    <2>1. user \in UserRow /\ Elevating(c)
      BY DEF DemandInv, TypeOK, ElevateStepup
    <2>2. QED
      BY <2>1 DEF ElevateStepup, DemandInv, UserRow
  <1>2. QED
    BY <1>1, DemandInit, DemandStep, PTL DEF Spec, ElevationDemands

=============================================================================
