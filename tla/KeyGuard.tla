------------------------------ MODULE KeyGuard ------------------------------
(***************************************************************************)
(* The brute-force guard of X-API-Key requests from one address            *)
(* (gateway/core/apikeys.py:20-74) as require_api_key uses it              *)
(* (gateway/dependencies.py:189-234): the block is checked, the key looked *)
(* up, and the failure recorded, while other requests do the same.         *)
(***************************************************************************)
EXTENDS Windows

CONSTANTS
    Clients,       \* requests in flight
    FailLimit,     \* FAIL_LIMIT
    FailWindow,    \* FAIL_WINDOW_SECONDS
    BlockSeconds,  \* BLOCK_SECONDS
    MaxClock,      \* bound: the clock; no failure whose block would outlast it
    MaxFailures    \* bound: failures in one behaviour

ASSUME FailLimitAssumption   == FailLimit \in Nat \ {0}
ASSUME FailWindowAssumption  == FailWindow \in Nat /\ BlockSeconds \in Nat
                                /\ FailWindow < BlockSeconds
ASSUME GuardBoundsAssumption == MaxClock \in Nat /\ MaxFailures \in Nat

VARIABLES
    clock,        \* the clock
    failures,     \* _failures[ip]: times of failed attempts, oldest first
    until,        \* _blocked_until[ip], Never when there is none
    looking,      \* requests that passed the check and look their key up
    failed        \* history: every failed attempt, [at: its time, no: its number]

guardVars == <<clock, failures, until, looking, failed>>

Never == 0

-----------------------------------------------------------------------------

\* is_ip_blocked
Blocked == clock < until

\* A request passes the guard, and clears a block that is over; a blocked one
\* is refused and changes nothing.
Check(c) ==
    /\ c \notin looking
    /\ ~Blocked
    /\ until' = Never
    /\ looking' = looking \cup {c}
    /\ UNCHANGED <<clock, failures, failed>>

\* Mutant of Recorded: an attempt is forgotten once it is half a window old.
RecordedShort == Append(Fresh(failures, clock - (FailWindow \div 2)), clock)

\* Mutant of Recorded: the attempt just outside the window counts as well.
RecordedLong == Append(Fresh(failures, clock - FailWindow - 1), clock)

\* The window after one more failure.
Recorded == Append(Fresh(failures, clock - FailWindow), clock)

\* No such key: record_failure.  The attempt that fills the window blocks the
\* address and empties the window.
Fail(c) ==
    /\ c \in looking
    /\ Cardinality(failed) < MaxFailures /\ clock + BlockSeconds <= MaxClock
    /\ failed' = failed \cup {[at |-> clock, no |-> Cardinality(failed) + 1]}
    /\ IF Len(Recorded) >= FailLimit
       THEN until' = clock + BlockSeconds /\ failures' = << >>
       ELSE failures' = Recorded /\ UNCHANGED until
    /\ looking' = looking \ {c}
    /\ UNCHANGED clock

\* The key exists, or the request dies: the guard is left alone.
Leave(c) ==
    /\ c \in looking
    /\ looking' = looking \ {c}
    /\ UNCHANGED <<clock, failures, until, failed>>

ClockTick ==
    /\ clock < MaxClock
    /\ clock' = clock + 1
    /\ UNCHANGED <<failures, until, looking, failed>>

GuardInit ==
    /\ clock = 1
    /\ failures = << >>
    /\ until = Never
    /\ looking = {}
    /\ failed = {}

GuardNext ==
    \/ \E c \in Clients : Check(c) \/ Fail(c) \/ Leave(c)
    \/ ClockTick

GuardSpec == GuardInit /\ [][GuardNext]_guardVars

-----------------------------------------------------------------------------
(* Properties *)

\* Every variable holds what the dictionaries hold, and the window is shorter
\* than the limit, oldest attempt first.
GuardTypeOK ==
    /\ clock \in Nat /\ until \in Nat
    /\ failures \in Seq(Nat) /\ Len(failures) < FailLimit
    /\ \A i, j \in 1 .. Len(failures) : i <= j => failures[i] <= failures[j]
    /\ looking \subseteq Clients
    /\ \A f \in failed : f.at \in Nat /\ f.no \in Nat

FailedBetween(from, to) == {f \in failed : from <= f.at + FailWindow /\ f.at <= to}

\* Whoever failed FailLimit times within the window is blocked, requests that had
\* passed the check when the block came included (core/apikeys.py:50-53).
GuardBlocks == Cardinality(FailedBetween(clock, clock)) >= FailLimit => Blocked

\* Nobody is blocked for less: a block in force was set at a moment with FailLimit
\* failures in its window (core/apikeys.py:50-53).
BlockEarned ==
    Blocked => Cardinality(FailedBetween(until - BlockSeconds, until - BlockSeconds)) >= FailLimit

=============================================================================
