------------------------------ MODULE Perimeter ------------------------------
(***************************************************************************)
(* One client address in front of the gateway: the block list of           *)
(* gateway/middleware/ip_blocker.py, the scorer, the rate limiter and the  *)
(* WAF in the order gateway/main.py stacks them, and the administrator's   *)
(* block routes of gateway/routes/user.py.                                 *)
(*                                                                         *)
(* Several requests of the address are in flight.  An action is what a     *)
(* handler does between two awaits, so a row it has read may be stale when *)
(* it writes.  Whether the rate limiter refuses is left open here          *)
(* (RateLimiter); the address is not one of the four loopback names, which *)
(* are never blocked automatically.                                        *)
(***************************************************************************)
EXTENDS RequestScore, Windows

CONSTANTS
    Conns,       \* requests the address may have in flight
    Requests,    \* the kinds of request it makes
    Others,      \* the kinds of request it might have made instead
    Threshold,   \* WAF_BLOCK_THRESHOLD
    HitWindow,   \* WAF_BLOCK_WINDOW
    BlockTime,   \* AUTO_BLOCK_DURATION
    AdminTimes,  \* duration_hours an administrator may give
    ScoreWindow, \* the scorer's _WINDOW
    Stall,       \* a block is committed at most so long after the WAF hit
    Races,       \* {"cleanup"}: a clean-up may overlap a write of the row
    MaxTime,     \* bound: the last tick
    MaxRequests, \* bound: requests and administrative calls
    MaxHandles   \* bound: row ids in use

ASSUME KindsAssumption   == Requests \subseteq Kinds /\ Others \subseteq Kinds
ASSUME WindowAssumption  == /\ Threshold \in Nat \ {0} /\ HitWindow \in Nat
                            /\ ScoreWindow \in Nat /\ AdminTimes \subseteq Nat \ {0}
ASSUME StallAssumption   == Stall \in Nat /\ BlockTime \in Nat /\ HitWindow + Stall < BlockTime
ASSUME RacesAssumption   == Races \subseteq {"cleanup"}
ASSUME BoundAssumption   == MaxTime \in Nat /\ MaxRequests \in Nat /\ MaxHandles \in Nat \ {0}

VARIABLES
    now,     \* the clock
    row,     \* the address's row of blocked_ips, or NoRow
    hits,    \* _waf_hits of the address
    seen,    \* _request_log of the address
    req,     \* each request in flight
    adm,     \* the administrator's call under way
    due,     \* history: the end of the block last committed, NoBlock once lifted
    excused, \* history: since the last automatic block, one failed or an
             \* administrator had his say
    asked    \* history: requests and calls so far, for the bound

vars == <<now, row, hits, seen, req, adm, due, excused, asked>>

Forever == -1
NoBlock == -2
NoRow   == [id |-> 0, until |-> NoBlock]
Rows    == {NoRow} \cup [id : 1..MaxHandles, until : Nat \cup {Forever}]

Idle  == [pc |-> "idle"]
Steps == [pc : {"cleanup", "screen", "waf"}, kind : Requests, row : Rows, until : {NoBlock}]
         \cup [pc : {"autoread", "write"}, kind : Requests, row : Rows, until : Nat]
Calls == [pc : {"block"}, row : Rows, until : Nat \cup {Forever}]
         \cup [pc : {"unblock"}, row : Rows, until : {NoBlock}]

-----------------------------------------------------------------------------

InForce(until) == until = Forever \/ (until # NoBlock /\ until >= now)

\* The commit of a block for which the row was read as old: an insert, or an
\* update by id.  A freed id may be given out again.
Store(old, until) ==
    IF old = NoRow
    THEN /\ row = NoRow
         /\ \E i \in 1..MaxHandles : row' = [id |-> i, until |-> until]
         /\ due' = until
    ELSE /\ row.id = old.id
         /\ row' = [row EXCEPT !.until = until]
         /\ due' = until

\* The commit fails: the address has a row by now, or the row is gone.
Conflict(old) == IF old = NoRow THEN row # NoRow ELSE row.id # old.id

Delete(old) == row' = IF row.id = old.id THEN NoRow ELSE row

NoCleanUp == \A c \in Conns : req[c].pc # "cleanup"
NoWriter  == adm = Idle /\ \A c \in Conns : req[c].pc # "write"

Count == asked < MaxRequests /\ asked' = asked + 1

Goto(c, pc, kind, r, until) ==
    req' = [req EXCEPT ![c] = [pc |-> pc, kind |-> kind, row |-> r, until |-> until]]

Done(c) == req' = [req EXCEPT ![c] = Idle]

-----------------------------------------------------------------------------
(* A request *)

\* A health probe leaves no trace in any middleware.
Probe == UNCHANGED vars

\* IPBlockerMiddleware: the recovery route passes unchecked.
Pass(c, k) ==
    /\ req[c] = Idle /\ Count
    /\ k.path = "recovery" \/ row = NoRow
    /\ Goto(c, "screen", k, NoRow, NoBlock)
    /\ UNCHANGED <<now, row, hits, seen, adm, due, excused>>

\* The lookup fails: the request is let through.
FailOpen(c, k) ==
    /\ req[c] = Idle /\ Count
    /\ k.path # "recovery"
    /\ Goto(c, "screen", k, NoRow, NoBlock)
    /\ UNCHANGED <<now, row, hits, seen, adm, due, excused>>

\* Refused with 403; neither logged, counted nor scored.
Refuse(c, k) ==
    /\ req[c] = Idle /\ Count
    /\ k.path # "recovery"
    /\ row # NoRow /\ InForce(row.until)
    /\ UNCHANGED <<now, row, hits, seen, req, adm, due, excused>>

\* Mutant of Lapsed: the comparison of the dates is dropped.
LapsedAlways(c, k) ==
    /\ req[c] = Idle /\ Count
    /\ k.path # "recovery"
    /\ row # NoRow
    /\ "cleanup" \in Races \/ NoWriter
    /\ Goto(c, "cleanup", k, row, NoBlock)
    /\ UNCHANGED <<now, row, hits, seen, adm, due, excused>>

\* The block has expired: its row is to be deleted.
Lapsed(c, k) ==
    /\ req[c] = Idle /\ Count
    /\ k.path # "recovery"
    /\ row # NoRow /\ ~InForce(row.until)
    /\ "cleanup" \in Races \/ NoWriter
    /\ Goto(c, "cleanup", k, row, NoBlock)
    /\ UNCHANGED <<now, row, hits, seen, adm, due, excused>>

CleanUp(c) ==
    /\ req[c].pc = "cleanup"
    /\ Delete(req[c].row)
    /\ Goto(c, "screen", req[c].kind, NoRow, NoBlock)
    /\ UNCHANGED <<now, hits, seen, adm, due, excused, asked>>

\* RiskScoringMiddleware, then RateLimitMiddleware, which may refuse; what is
\* left goes to the WAF.  OAuth paths are exempt from all of it.
Screen(c) ==
    LET k   == req[c].kind
        log == Append(Fresh(seen, now - ScoreWindow), now)
    IN  /\ req[c].pc = "screen"
        /\ IF k.path = "oauth"
           THEN Done(c) /\ UNCHANGED seen
           ELSE /\ seen' = log
                /\ \/ Done(c)
                   \/ /\ Action(Score(k, Len(log))) # "block"
                      /\ k.threat
                      /\ Goto(c, "waf", k, NoRow, NoBlock)
        /\ UNCHANGED <<now, row, hits, adm, due, excused, asked>>

\* Mutant of Hit: the threshold has to be exceeded.
HitBeyond(c) ==
    LET log == Append(Fresh(hits, now - HitWindow), now)
    IN  /\ req[c].pc = "waf"
        /\ hits' = log
        /\ IF Len(log) > Threshold
           THEN Goto(c, "autoread", req[c].kind, NoRow, now + BlockTime)
           ELSE Done(c)
        /\ UNCHANGED <<now, row, seen, adm, due, excused, asked>>

\* WAFMiddleware has logged the event: record_waf_hit, and at the threshold
\* auto_block_ip, which fixes the end of the block before it reads the row.
Hit(c) ==
    LET log == Append(Fresh(hits, now - HitWindow), now)
    IN  /\ req[c].pc = "waf"
        /\ hits' = log
        /\ IF Len(log) >= Threshold
           THEN Goto(c, "autoread", req[c].kind, NoRow, now + BlockTime)
           ELSE Done(c)
        /\ UNCHANGED <<now, row, seen, adm, due, excused, asked>>

AutoRead(c) ==
    /\ req[c].pc = "autoread"
    /\ "cleanup" \in Races \/ NoCleanUp
    /\ Goto(c, "write", req[c].kind, row, req[c].until)
    /\ UNCHANGED <<now, row, hits, seen, adm, due, excused, asked>>

AutoBlock(c) ==
    /\ req[c].pc = "write"
    /\ Store(req[c].row, req[c].until)
    /\ Done(c)
    /\ excused' = FALSE
    /\ UNCHANGED <<now, hits, seen, adm, asked>>

\* A conflicting commit is swallowed; the request is answered all the same.
AutoLose(c) ==
    /\ req[c].pc = "write"
    /\ Conflict(req[c].row)
    /\ Done(c)
    /\ UNCHANGED <<now, row, hits, seen, adm, due, excused, asked>>

\* So is a failure of the database.
AutoFail(c) ==
    /\ req[c].pc \in {"autoread", "write"}
    /\ Done(c)
    /\ excused' = TRUE
    /\ UNCHANGED <<now, row, hits, seen, adm, due, asked>>

-----------------------------------------------------------------------------
(* The administrator, from another address *)

BlockStart(until) ==
    /\ adm = Idle /\ Count
    /\ "cleanup" \in Races \/ NoCleanUp
    /\ adm' = [pc |-> "block", row |-> row, until |-> until]
    /\ UNCHANGED <<now, row, hits, seen, req, due, excused>>

\* block_ip, also over a block in force.
Block ==
    /\ adm.pc = "block"
    /\ Store(adm.row, adm.until)
    /\ adm' = Idle
    /\ excused' = TRUE
    /\ UNCHANGED <<now, hits, seen, req, asked>>

UnblockStart ==
    /\ adm = Idle /\ Count
    /\ row # NoRow
    /\ "cleanup" \in Races \/ NoCleanUp
    /\ adm' = [pc |-> "unblock", row |-> row, until |-> NoBlock]
    /\ UNCHANGED <<now, row, hits, seen, req, due, excused>>

\* unblock_ip forgets neither the hits nor the requests of the address.
Unblock ==
    /\ adm.pc = "unblock"
    /\ Delete(adm.row)
    /\ adm' = Idle
    /\ due' = IF row.id = adm.row.id THEN NoBlock ELSE due
    /\ excused' = TRUE
    /\ UNCHANGED <<now, hits, seen, req, asked>>

\* A conflict, answered with 500.
AdminLose ==
    /\ adm.pc = "block" /\ Conflict(adm.row)
    /\ adm' = Idle
    /\ UNCHANGED <<now, row, hits, seen, req, due, excused, asked>>

-----------------------------------------------------------------------------

Tick ==
    /\ now < MaxTime
    /\ \A c \in Conns :
          req[c].pc \in {"autoread", "write"} => now < req[c].until - BlockTime + Stall
    /\ now' = now + 1
    /\ UNCHANGED <<row, hits, seen, req, adm, due, excused, asked>>

Init ==
    /\ now = 0
    /\ row = NoRow
    /\ hits = <<>> /\ seen = <<>>
    /\ req = [c \in Conns |-> Idle]
    /\ adm = Idle
    /\ due = NoBlock
    /\ excused = FALSE
    /\ asked = 0

Next ==
    \/ \E c \in Conns :
          \/ \E k \in Requests : Pass(c, k) \/ FailOpen(c, k) \/ Refuse(c, k) \/ Lapsed(c, k)
          \/ CleanUp(c) \/ Screen(c) \/ Hit(c)
          \/ AutoRead(c) \/ AutoBlock(c) \/ AutoLose(c) \/ AutoFail(c)
    \/ \E d \in AdminTimes : BlockStart(now + d)
    \/ Probe \/ BlockStart(Forever) \/ Block \/ UnblockStart \/ Unblock \/ AdminLose
    \/ Tick

Spec == Init /\ [][Next]_vars

-----------------------------------------------------------------------------
(* Properties *)

\* Every variable holds what its table, dictionary or snapshot can hold.
TypeOK ==
    /\ now \in Nat
    /\ row \in Rows
    /\ hits \in Seq(Nat) /\ seen \in Seq(Nat)
    /\ req \in [Conns -> {Idle} \cup Steps]
    /\ adm \in {Idle} \cup Calls
    /\ due \in Nat \cup {Forever, NoBlock}
    /\ excused \in BOOLEAN
    /\ asked \in 0..MaxRequests

\* A committed block lasts as long as it was committed for, through requests
\* that find an older block expired and delete its row, unless an administrator
\* lifts it (ip_blocker.py:11-15, 138-140; user.py:457-471).
BlockHolds == InForce(due) => row # NoRow /\ InForce(row.until)

\* An address with as many hits in the window as the threshold is blocked once
\* their requests are answered, also when several requests block it at once,
\* over an old row or a fresh one, unless a write failed or an administrator
\* intervened (waf.py:218-237, ip_blocker.py:43-79).
FloodIsBlocked ==
    \/ Len(Fresh(hits, now - HitWindow)) < Threshold
    \/ \E c \in Conns : req[c].pc \in {"autoread", "write"}
    \/ excused
    \/ row # NoRow /\ InForce(row.until)

\* The number of the request in its window, if one is scored now.
Nth == Len(Fresh(seen, now - ScoreWindow)) + 1

\* Ordinary use of the dashboard moves no account: without the mark of an
\* attack tool and short of a burst of the address, no request raises the risk
\* of the account it is made for, whatever the age of its token and whatever
\* the others of the address did (risk_scoring.py:242-284).
NormalUseHarmless == HarmlessAt(Others, Nth)

\* The module's own account of the burst surcharge: once an address is in a burst,
\* a client with a verified token and clean headers can be blocked on request
\* rate alone (risk_scoring.py:15-17).  The code does not do so.
RateAloneBlocks ==
    Burst(Nth) =>
        \E k \in Others :
            k.token \in Verified /\ k.pattern = 0 /\ Action(Score(k, Nth)) = "block"

\* What the code does instead: request rate alone never blocks a client whose
\* token is verified and whose headers are clean, 0.79 being the most it can
\* reach; and a lapsed session needs a refresh, not a block: at any rate short
\* of a burst the scorer lets it through unmarked (risk_scoring.py:142-154,
\* 344-366).
HonestNeverBlocked == NeverBlocksAt(Others, Nth) /\ IdleAt(Others, Nth)

=============================================================================
