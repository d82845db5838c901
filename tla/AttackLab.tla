------------------------------ MODULE AttackLab ------------------------------
(***************************************************************************)
(* The attack lab: the simulator of gateway/detection/attack_sim.py, whose *)
(* one object is shared by the task of the current run and by tasks of     *)
(* earlier runs not yet ended, and the capped dashboard sockets of         *)
(* gateway/routes/attack_lab.py.  All code runs on one event loop: an      *)
(* action is what is done between two suspensions.                         *)
(***************************************************************************)
EXTENDS Integers, FiniteSets

CONSTANTS
    Duration,  \* duration of a run, in ticks
    MaxBatch,  \* requests between two looks at the deadline
    Handlers,  \* socket handlers
    Cap,       \* _WS_MAX_CONNECTIONS
    Lifetime,  \* _WS_MAX_LIFETIME_SECONDS, in ticks
    MaxRuns    \* bound: runs

ASSUME RunAssumption    == Duration \in Nat /\ {MaxBatch, MaxRuns} \subseteq Nat \ {0}
ASSUME SocketAssumption == IsFiniteSet(Handlers) /\ Cap \in Nat /\ Lifetime \in Nat

Runs == 1..MaxRuns
None == 0

VARIABLES
    running,   \* AttackLab.running
    task,      \* _task: a run, or None
    client,    \* _client is an open connection pool
    leaked,    \* open pools nothing refers to
    started,   \* runs started
    pc,        \* where the task of each run is suspended
    left,      \* requests left in its batch
    elapsed,   \* time since its start
    cancelled, \* runs whose task was cancelled and has not ended
    overlaps,  \* history: runs started before a cancelled task had ended
    expired,   \* history: runs that ended uncancelled
    foreign,   \* history: a response was counted for a later run
    socket,    \* each socket handler: pc, age, and if it overtook another
    count      \* _ws_connections

lab     == <<running, task, client, leaked, started, pc, left, elapsed, cancelled,
             overlaps, expired, foreign>>
sockets == <<socket, count>>
vars    == <<lab, sockets>>

Alive(t) == pc[t] \notin {"absent", "done"}
Engines  == {t \in Runs : Alive(t)} \ cancelled
Ticks(n, cap) == IF n > cap THEN n ELSE n + 1

-----------------------------------------------------------------------------
(* Control *)

\* Mutant of Start: a run that is under way is not noticed.
StartTwice ==
    /\ started < MaxRuns /\ started' = started + 1
    /\ running' = TRUE /\ task' = started'
    /\ leaked' = IF client THEN leaked + 1 ELSE leaked
    /\ client' = FALSE
    /\ pc' = [pc EXCEPT ![started'] = "new"]
    /\ overlaps' = IF cancelled = {} THEN overlaps ELSE overlaps + 1
    /\ UNCHANGED <<left, elapsed, cancelled, expired, foreign, sockets>>

\* The pool of the last run, if it is still there, is forgotten unclosed.
Start ==
    /\ ~running
    /\ started < MaxRuns /\ started' = started + 1
    /\ running' = TRUE /\ task' = started'
    /\ leaked' = IF client THEN leaked + 1 ELSE leaked
    /\ client' = FALSE
    /\ pc' = [pc EXCEPT ![started'] = "new"]
    /\ overlaps' = IF cancelled = {} THEN overlaps ELSE overlaps + 1
    /\ UNCHANGED <<left, elapsed, cancelled, expired, foreign, sockets>>

\* Mutant of Stop: the task is left to notice by itself.
StopUncancelled ==
    /\ running /\ running' = FALSE
    /\ task' = None /\ client' = FALSE
    /\ UNCHANGED <<leaked, started, pc, left, elapsed, cancelled, overlaps, expired,
                   foreign, sockets>>

\* Mutant of Stop: the pool is not closed.
StopOpen ==
    /\ running /\ running' = FALSE
    /\ cancelled' = IF task = None THEN cancelled ELSE cancelled \cup {task}
    /\ task' = None
    /\ UNCHANGED <<client, leaked, started, pc, left, elapsed, overlaps, expired,
                   foreign, sockets>>

Stop ==
    /\ running /\ running' = FALSE
    /\ cancelled' = IF task = None THEN cancelled ELSE cancelled \cup {task}
    /\ task' = None /\ client' = FALSE
    /\ UNCHANGED <<leaked, started, pc, left, elapsed, overlaps, expired,
                   foreign, sockets>>

-----------------------------------------------------------------------------
(* The task of run t *)

\* The task is over, and its local variables with it.
Over(t) ==
    /\ pc' = [pc EXCEPT ![t] = "done"]
    /\ left' = [left EXCEPT ![t] = 0]
    /\ elapsed' = [elapsed EXCEPT ![t] = 0]
    /\ cancelled' = cancelled \ {t}
    /\ expired' = IF t \in cancelled THEN expired ELSE expired + 1

\* The finally block clears the flag, whichever run it now stands for.
End(t) ==
    /\ running' = FALSE
    /\ task' = IF task = t THEN None ELSE task
    /\ Over(t)
    /\ UNCHANGED <<client, leaked, started, overlaps, foreign, sockets>>

\* The next request goes out on the shared pool, n more follow in the batch.
Send(t, n) ==
    /\ client' = TRUE
    /\ left' = [left EXCEPT ![t] = n]
    /\ pc' = [pc EXCEPT ![t] = "send"]
    /\ UNCHANGED <<running, task, leaked, started, elapsed, cancelled, overlaps, expired,
                   foreign, sockets>>

\* Mutant of Loop: the deadline is not looked at.
LoopForever(t) ==
    IF left[t] > 0 /\ running THEN Send(t, left[t] - 1)
    ELSE IF running THEN \E n \in 1..MaxBatch : Send(t, n - 1)
    ELSE End(t)

\* The deadline is looked at between batches only, the flag before each request.
Loop(t) ==
    IF left[t] > 0 /\ running THEN Send(t, left[t] - 1)
    ELSE IF running /\ elapsed[t] <= Duration THEN \E n \in 1..MaxBatch : Send(t, n - 1)
    ELSE End(t)

\* A task cancelled before its first step never enters the try block.
Begin(t) ==
    /\ pc[t] = "new"
    /\ IF t \in cancelled
       THEN Over(t) /\ UNCHANGED <<running, task, client, leaked, started, overlaps,
                                   foreign, sockets>>
       ELSE Loop(t)

Resume(t) ==
    /\ pc[t] = "sleep"
    /\ IF t \in cancelled THEN End(t) ELSE Loop(t)

\* A response is counted for the run now shown; an error counts as none.
Reply(t) ==
    /\ pc[t] = "send"
    /\ IF t \in cancelled THEN End(t)
       ELSE /\ pc' = [pc EXCEPT ![t] = "sleep"]
            /\ foreign' \in {foreign, foreign \/ t # started}
            /\ UNCHANGED <<running, task, client, leaked, started, left, elapsed,
                           cancelled, overlaps, expired, sockets>>

Step(t) == Begin(t) \/ Resume(t) \/ Reply(t)

-----------------------------------------------------------------------------
(* The dashboard sockets *)

Closed == [pc |-> "closed", age |-> 0, late |-> FALSE]
Accepting == {h \in Handlers : socket[h].pc = "accept"}
Sockets   == {h \in Handlers : socket[h].pc = "open"}

\* Mutant of Knock: one socket too many.
KnockLate(h) ==
    /\ socket[h] = Closed /\ count <= Cap
    /\ socket' = [socket EXCEPT ![h] =
                     [pc |-> "accept", age |-> 0, late |-> Accepting # {}]]
    /\ UNCHANGED <<count, lab>>

\* A valid token and room; the handler is then suspended in accept().
Knock(h) ==
    /\ socket[h] = Closed /\ count < Cap
    /\ socket' = [socket EXCEPT ![h] =
                     [pc |-> "accept", age |-> 0, late |-> Accepting # {}]]
    /\ UNCHANGED <<count, lab>>

Accept(h) ==
    /\ h \in Accepting
    /\ socket' = [socket EXCEPT ![h].pc = "open"]
    /\ count' = count + 1
    /\ UNCHANGED lab

\* The client is gone before it is accepted.
AcceptFail(h) ==
    /\ h \in Accepting
    /\ socket' = [socket EXCEPT ![h] = Closed]
    /\ UNCHANGED <<count, lab>>

Close(h) ==
    /\ h \in Sockets
    /\ socket' = [socket EXCEPT ![h] = Closed]
    /\ count' = count - 1
    /\ UNCHANGED lab

\* The stream is past its lifetime.
Outlived(h) == socket[h].age > Lifetime /\ Close(h)

\* A snapshot cannot be sent: the client went away.
Lost(h) == Close(h)

Handshake(h) == Accept(h) \/ AcceptFail(h)

-----------------------------------------------------------------------------

Tick ==
    /\ elapsed' = [t \in Runs |->
                      IF Alive(t) /\ pc[t] # "new" THEN Ticks(elapsed[t], Duration)
                      ELSE elapsed[t]]
    /\ socket' = [h \in Handlers |->
                     IF h \in Sockets THEN [socket[h] EXCEPT !.age = Ticks(@, Lifetime)]
                     ELSE socket[h]]
    /\ UNCHANGED <<running, task, client, leaked, started, pc, left, cancelled, overlaps,
                   expired, foreign, count>>

\* A refusal: 409, "no attack running", a bad token, no room.
Refuse == UNCHANGED vars

Init ==
    /\ running = FALSE /\ task = None /\ client = FALSE /\ leaked = 0 /\ started = 0
    /\ pc = [t \in Runs |-> "absent"]
    /\ left = [t \in Runs |-> 0]
    /\ elapsed = [t \in Runs |-> 0]
    /\ cancelled = {}
    /\ overlaps = 0 /\ expired = 0 /\ foreign = FALSE
    /\ socket = [h \in Handlers |-> Closed]
    /\ count = 0

Next ==
    \/ Start \/ Stop \/ Tick \/ Refuse
    \/ \E t \in Runs : Step(t)
    \/ \E h \in Handlers : Knock(h) \/ Handshake(h) \/ Outlived(h) \/ Lost(h)

\* The event loop resumes every task that can go on, requests time out, the
\* handshake ends, and time passes.
Fairness ==
    /\ WF_vars(Tick)
    /\ \A t \in Runs : WF_vars(Step(t))
    /\ \A h \in Handlers : WF_vars(Handshake(h)) /\ WF_vars(Outlived(h))

Spec == Init /\ [][Next]_vars /\ Fairness

-----------------------------------------------------------------------------
(* Properties *)

SocketState ==
    [pc : {"closed", "accept", "open"}, age : 0..(Lifetime + 1), late : BOOLEAN]

\* Every variable holds what the object's attributes and the tasks can hold.
TypeOK ==
    /\ running \in BOOLEAN /\ client \in BOOLEAN /\ foreign \in BOOLEAN
    /\ task \in Runs \cup {None}
    /\ leaked \in Nat /\ overlaps \in Nat /\ expired \in Nat
    /\ started \in 0..MaxRuns
    /\ pc \in [Runs -> {"absent", "new", "send", "sleep", "done"}]
    /\ left \in [Runs -> 0..(MaxBatch - 1)]
    /\ elapsed \in [Runs -> 0..(Duration + 1)]
    /\ cancelled \subseteq Runs
    /\ socket \in [Handlers -> SocketState]
    /\ count \in Int

\* One attack runs at a time; a further one needs a start that came before the
\* task of a stopped run had ended (attack_sim.py:136-158, 195-200).
EnginesBounded == Cardinality(Engines) <= 1 + overlaps

\* While the lab says that an attack runs there is a task to end it: no client
\* is refused with 409 for ever (attack_lab.py:60, attack_sim.py:197-200).
RunningHasTask == running => Engines # {}

\* The running flag and the tasks behind it agree, both ways.
FlagMeansEngine == EnginesBounded /\ RunningHasTask

\* A pool is left behind only by a run that was not stopped, or by one a
\* finally block of an earlier run cut short (attack_sim.py:146, 158-162).
PoolsReleased == leaked <= expired + overlaps

\* The counters shown are those of the current run: a stopped run adds nothing
\* to the next one (attack_sim.py:145, 155-157, 249-256).
CountsOwn == foreign => overlaps > 0

\* The counter the cap rests on is the number of open sockets, whatever the
\* handshakes and streams that fail, and the cap is passed only by handlers that
\* were let in while another was still being accepted
\* (attack_lab.py:139-147, 168-170).
SocketsBounded ==
    /\ count = Cardinality(Sockets)
    /\ Cardinality(Sockets \cup Accepting)
          <= Cap + Cardinality({h \in Handlers : socket[h].late})

\* Every run ends, although nobody stops it, and every socket is closed, although
\* its client keeps it (attack_sim.py:188-200, attack_lab.py:154-158).
EverythingEnds ==
    /\ \A t \in Runs : Alive(t) ~> ~Alive(t)
    /\ \A h \in Handlers : (socket[h].pc # "closed") ~> (socket[h].pc = "closed")

=============================================================================
