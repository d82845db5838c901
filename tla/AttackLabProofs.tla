--------------------------- MODULE AttackLabProofs ---------------------------
(***************************************************************************)
(* Theorems about the attack lab, for any number of runs and sockets, any  *)
(* duration, batch, cap and lifetime, and every interleaving of starts,    *)
(* stops and tasks that are still ending.                                  *)
(***************************************************************************)
EXTENDS AttackLab, FiniteSetTheorems, TLAPS

-----------------------------------------------------------------------------
(* Type correctness *)

LEMMA ClosedType == Closed \in SocketState
  <1>1. 0 \in 0..(Lifetime + 1)
    BY SocketAssumption
  <1>2. QED
    BY <1>1 DEF Closed, SocketState

LEMMA TypeInit == Init => TypeOK
  <1> SUFFICES ASSUME Init PROVE TypeOK
    OBVIOUS
  <1>1. socket \in [Handlers -> SocketState]
    BY ClosedType DEF Init
  <1>2. /\ left \in [Runs -> 0..(MaxBatch - 1)]
        /\ elapsed \in [Runs -> 0..(Duration + 1)]
    BY RunAssumption DEF Init
  <1>3. pc \in [Runs -> {"absent", "new", "send", "sleep", "done"}]
    BY DEF Init
  <1>4. started \in 0..MaxRuns
    BY RunAssumption DEF Init
  <1>5. running \in BOOLEAN /\ client \in BOOLEAN /\ foreign \in BOOLEAN
    BY DEF Init
  <1>6. QED
    BY <1>1, <1>2, <1>3, <1>4, <1>5 DEF Init, TypeOK

LEMMA TicksType ==
  ASSUME NEW cap \in Nat, NEW n \in 0..(cap + 1)
  PROVE  Ticks(n, cap) \in 0..(cap + 1)
  BY DEF Ticks

LEMMA StartType == TypeOK /\ Start => TypeOK'
  <1> SUFFICES ASSUME TypeOK, Start PROVE TypeOK'
    OBVIOUS
  <1>1. started' \in Runs /\ started' \in 0..MaxRuns
    BY RunAssumption DEF TypeOK, Start, Runs
  <1>2. pc' \in [Runs -> {"absent", "new", "send", "sleep", "done"}]
    BY DEF TypeOK, Start
  <1>3. leaked' \in Nat /\ overlaps' \in Nat
    BY DEF TypeOK, Start
  <1>4. running' \in BOOLEAN /\ client' \in BOOLEAN /\ foreign' \in BOOLEAN
    BY DEF TypeOK, Start
  <1>5. task' \in Runs \cup {None}
    BY <1>1 DEF Start
  <1>6. QED
    BY <1>1, <1>2, <1>3, <1>4, <1>5 DEF TypeOK, Start, sockets

LEMMA StopType == TypeOK /\ Stop => TypeOK'
  BY DEF TypeOK, Stop, None, sockets

LEMMA OverType ==
  ASSUME TypeOK, NEW t \in Runs, Over(t)
  PROVE  /\ pc' \in [Runs -> {"absent", "new", "send", "sleep", "done"}]
         /\ left' \in [Runs -> 0..(MaxBatch - 1)]
         /\ elapsed' \in [Runs -> 0..(Duration + 1)]
         /\ cancelled' \subseteq Runs /\ expired' \in Nat
  BY RunAssumption DEF TypeOK, Over, Runs

LEMMA EndType ==
  ASSUME TypeOK, NEW t \in Runs, End(t)
  PROVE  TypeOK'
  BY OverType DEF TypeOK, End, sockets

LEMMA SendType ==
  ASSUME TypeOK, NEW t \in Runs, NEW n \in 0..(MaxBatch - 1), Send(t, n)
  PROVE  TypeOK'
  BY DEF TypeOK, Send, sockets

LEMMA LoopType ==
  ASSUME TypeOK, NEW t \in Runs, Loop(t)
  PROVE  TypeOK'
  <1>1. CASE left[t] > 0 /\ running
    <2>1. left[t] - 1 \in 0..(MaxBatch - 1)
      BY <1>1, RunAssumption DEF TypeOK
    <2>2. QED
      BY <1>1, <2>1, SendType DEF Loop
  <1>2. CASE ~(left[t] > 0 /\ running) /\ running /\ elapsed[t] <= Duration
    <2>1. PICK n \in 1..MaxBatch : Send(t, n - 1)
      BY <1>2 DEF Loop
    <2>2. n - 1 \in 0..(MaxBatch - 1)
      BY RunAssumption
    <2>3. QED
      BY <2>1, <2>2, SendType
  <1>3. CASE ~(left[t] > 0 /\ running) /\ ~(running /\ elapsed[t] <= Duration)
    BY <1>3, EndType DEF Loop
  <1>4. QED
    BY <1>1, <1>2, <1>3

LEMMA StepType ==
  ASSUME TypeOK, NEW t \in Runs, Step(t)
  PROVE  TypeOK'
  <1>1. CASE Begin(t)
    <2>1. CASE t \in cancelled
      BY <1>1, <2>1, OverType DEF TypeOK, Begin, sockets
    <2>2. CASE t \notin cancelled
      BY <1>1, <2>2, LoopType DEF Begin
    <2>3. QED
      BY <2>1, <2>2
  <1>2. CASE Resume(t)
    BY <1>2, EndType, LoopType DEF Resume
  <1>3. CASE Reply(t)
    <2>1. CASE t \in cancelled
      <3>1. End(t)
        BY <1>3, <2>1 DEF Reply
      <3>2. QED
        BY <3>1, EndType
    <2>2. CASE t \notin cancelled
      <3>1. foreign' \in BOOLEAN
        BY <1>3, <2>2 DEF TypeOK, Reply
      <3>2. pc' \in [Runs -> {"absent", "new", "send", "sleep", "done"}]
        BY <1>3, <2>2 DEF TypeOK, Reply
      <3>3. UNCHANGED <<running, task, client, leaked, started, left, elapsed,
                        cancelled, overlaps, expired, socket, count>>
        BY <1>3, <2>2 DEF Reply, sockets
      <3>4. QED
        BY <3>1, <3>2, <3>3 DEF TypeOK
    <2>3. QED
      BY <2>1, <2>2
  <1>4. QED
    BY <1>1, <1>2, <1>3 DEF Step

LEMMA SocketType ==
  ASSUME TypeOK, NEW h \in Handlers, Knock(h) \/ Handshake(h) \/ Outlived(h) \/ Lost(h)
  PROVE  TypeOK'
  <1>1. UNCHANGED lab
    BY DEF Knock, Handshake, Accept, AcceptFail, Outlived, Lost, Close
  <1>2. count' \in Int
    BY DEF TypeOK, Knock, Handshake, Accept, AcceptFail, Outlived, Lost, Close
  <1>3. socket' \in [Handlers -> SocketState]
    <2>1. CASE Knock(h)
      <3>1. /\ [pc |-> "accept", age |-> 0, late |-> TRUE] \in SocketState
            /\ [pc |-> "accept", age |-> 0, late |-> FALSE] \in SocketState
        <4>1. 0 \in 0..(Lifetime + 1)
          BY SocketAssumption
        <4>2. QED
          BY <4>1 DEF SocketState
      <3>2. [pc |-> "accept", age |-> 0, late |-> Accepting # {}] \in SocketState
        BY <3>1, Accepting = {} \/ Accepting # {}, Zenon
      <3>3. QED
        BY <2>1, <3>2 DEF TypeOK, Knock
    <2>2. CASE Accept(h)
      <3>1. [socket[h] EXCEPT !.pc = "open"] \in SocketState
        BY DEF TypeOK, SocketState
      <3>2. QED
        BY <2>2, <3>1 DEF TypeOK, Accept
    <2>3. CASE AcceptFail(h) \/ Close(h)
      BY <2>3, ClosedType DEF TypeOK, AcceptFail, Close
    <2>4. QED
      BY <2>1, <2>2, <2>3 DEF Handshake, Outlived, Lost
  <1>4. QED
    BY <1>1, <1>2, <1>3 DEF TypeOK, lab

LEMMA TickType == TypeOK /\ Tick => TypeOK'
  <1> SUFFICES ASSUME TypeOK, Tick
               PROVE  TypeOK'
    OBVIOUS
  <1>1. elapsed' \in [Runs -> 0..(Duration + 1)]
    BY TicksType, RunAssumption DEF Tick, TypeOK
  <1>2. \A h \in Handlers : socket'[h] \in SocketState
    BY TicksType, SocketAssumption DEF Tick, TypeOK, SocketState
  <1>3. socket' \in [Handlers -> SocketState]
    BY <1>2 DEF Tick
  <1>4. QED
    BY <1>1, <1>3 DEF Tick, TypeOK

LEMMA TypeNext ==
  ASSUME TypeOK, [Next]_vars
  PROVE  TypeOK'
  <1>1. CASE Start \/ Stop \/ Tick
    BY <1>1, StartType, StopType, TickType
  <1>2. CASE \E t \in Runs : Step(t)
    BY <1>2, StepType
  <1>3. CASE \E h \in Handlers : Knock(h) \/ Handshake(h) \/ Outlived(h) \/ Lost(h)
    BY <1>3, SocketType
  <1>4. CASE Refuse \/ UNCHANGED vars
    BY <1>4 DEF Refuse, vars, lab, sockets, TypeOK
  <1>5. QED
    BY <1>1, <1>2, <1>3, <1>4 DEF Next

\* Flags, tasks, counters and sockets stay in their types (attack_sim.py:79-98,
\* attack_lab.py:39-41): no batch sends more than it drew, whatever overlaps.
THEOREM TypeCorrect == Spec => []TypeOK
  BY TypeInit, TypeNext, PTL DEF Spec

-----------------------------------------------------------------------------
(* The lab: one engine, its pool and its counters *)

One(b) == IF b THEN 1 ELSE 0

\* The cancelled tasks have not ended, and runs are started in turn.
TasksInv ==
    /\ \A t \in cancelled : Alive(t)
    /\ \A t \in Runs : t > started <=> pc[t] = "absent"
    /\ running => task \in Engines

\* A start beside a cancelled task owes an overlap until that task or the run
\* has ended, and every other engine or forgotten pool has been paid for.
Owed == One(running /\ cancelled # {})
EnginesInv == Cardinality(Engines) + Owed <= One(running) + overlaps
PoolsInv   == leaked + One((running /\ cancelled # {}) \/ (client /\ ~running))
                 <= expired + overlaps
CountsInv  == /\ overlaps = 0 => Engines \subseteq {started}
              /\ foreign => overlaps > 0

LabInv == TypeOK /\ TasksInv /\ EnginesInv /\ PoolsInv /\ CountsInv

LEMMA EnginesFinite ==
  ASSUME TypeOK
  PROVE  IsFiniteSet(Engines) /\ Cardinality(Engines) \in Nat
  <1>1. IsFiniteSet(Runs)
    BY FS_Interval, RunAssumption DEF Runs
  <1>2. Engines \subseteq Runs
    BY DEF Engines
  <1>3. QED
    BY <1>1, <1>2, FS_Subset, FS_CardinalityType

LEMMA LabInit == Init => LabInv
  <1> SUFFICES ASSUME Init PROVE LabInv
    OBVIOUS
  <1>1. TypeOK
    BY TypeInit
  <1>2. Engines = {}
    BY DEF Init, Engines, Alive
  <1>3. TasksInv
    BY <1>2 DEF Init, TasksInv, Runs
  <1>4. EnginesInv /\ PoolsInv /\ CountsInv
    BY <1>2, FS_EmptySet DEF Init, EnginesInv, PoolsInv, CountsInv, Owed, One
  <1>5. QED
    BY <1>1, <1>3, <1>4 DEF LabInv

\* What a step of the task of run t is.
LEMMA StepKinds ==
  ASSUME TypeOK, NEW t \in Runs, Step(t)
  PROVE  /\ Alive(t)
         /\ \/ running /\ \E n \in Int : Send(t, n)
            \/ End(t)
            \/ /\ t \in cancelled /\ Over(t)
               /\ UNCHANGED <<running, task, client, leaked, started, overlaps, foreign>>
            \/ /\ t \notin cancelled
               /\ pc' = [pc EXCEPT ![t] = "sleep"]
               /\ foreign' \in {foreign, foreign \/ t # started}
               /\ UNCHANGED <<running, task, client, leaked, started, cancelled, overlaps,
                              expired>>
  <1>1. Alive(t)
    BY DEF Step, Begin, Resume, Reply, Alive
  <1>2. Loop(t) => (running /\ \E n \in Int : Send(t, n)) \/ End(t)
    <2>1. left[t] - 1 \in Int /\ \A n \in 1..MaxBatch : n - 1 \in Int
      BY RunAssumption DEF TypeOK
    <2>2. QED
      BY <2>1 DEF Loop
  <1>3. QED
    BY <1>1, <1>2 DEF Step, Begin, Resume, Reply

LEMMA StartLab ==
  ASSUME LabInv, Start
  PROVE  TasksInv' /\ EnginesInv' /\ PoolsInv' /\ CountsInv'
  <1> USE DEF LabInv
  <1>1. started' = started + 1 /\ started' \in Runs /\ started \in Nat
    BY RunAssumption DEF Start, TypeOK, Runs
  <1>2. pc[started'] = "absent" /\ started' \notin cancelled
    BY <1>1 DEF TasksInv, TypeOK, Runs, Alive
  <1>3. Engines' = Engines \cup {started'} /\ started' \notin Engines
    BY <1>1, <1>2 DEF Start, TypeOK, Engines, Alive
  <1>4. Cardinality(Engines') = Cardinality(Engines) + 1
    BY <1>3, EnginesFinite, FS_AddElement
  <1>5. TasksInv'
    <2>1. \A t \in cancelled' : Alive(t)'
      BY <1>1, <1>2 DEF Start, TasksInv, TypeOK, Alive
    <2>2. \A t \in Runs : t > started' <=> pc'[t] = "absent"
      BY <1>1 DEF Start, TasksInv, TypeOK, Runs
    <2>3. QED
      BY <1>3, <2>1, <2>2 DEF TasksInv, Start
  <1>6. EnginesInv'
    BY <1>4, EnginesFinite DEF EnginesInv, Start, Owed, One, TypeOK
  <1>7. PoolsInv'
    BY DEF PoolsInv, Start, One, TypeOK
  <1>8. CountsInv'
    <2>1. overlaps' = 0 => Cardinality(Engines) = 0
      BY EnginesFinite DEF EnginesInv, Start, Owed, One, TypeOK
    <2>2. overlaps' = 0 => Engines = {}
      BY <2>1, EnginesFinite, FS_EmptySet
    <2>3. overlaps' = 0 => Engines' \subseteq {started'}
      BY <1>3, <2>2
    <2>4. foreign' => overlaps' > 0
      BY DEF CountsInv, Start, TypeOK
    <2>5. QED
      BY <2>3, <2>4 DEF CountsInv
  <1>9. QED
    BY <1>5, <1>6, <1>7, <1>8

LEMMA StopLab ==
  ASSUME LabInv, Stop
  PROVE  TasksInv' /\ EnginesInv' /\ PoolsInv' /\ CountsInv'
  <1> USE DEF LabInv
  <1>1. task \in Engines /\ task # None /\ task \in Runs
    BY DEF TasksInv, Stop, Engines, Runs, None
  <1>2. Engines' = Engines \ {task}
    BY <1>1 DEF Stop, Engines, Alive
  <1>3. Cardinality(Engines') = Cardinality(Engines) - 1
    BY <1>1, <1>2, EnginesFinite, FS_RemoveElement
  <1>4. TasksInv'
    BY <1>1 DEF TasksInv, Stop, Engines, Alive
  <1>5. EnginesInv'
    BY <1>3, EnginesFinite DEF EnginesInv, Stop, Owed, One, TypeOK
  <1>6. PoolsInv'
    BY DEF PoolsInv, Stop, One, TypeOK
  <1>7. CountsInv'
    BY <1>2 DEF CountsInv, Stop
  <1>8. QED
    BY <1>4, <1>5, <1>6, <1>7

LEMMA OverEngines ==
  ASSUME TypeOK, NEW t \in Runs, Over(t)
  PROVE  /\ Engines' = Engines \ {t}
         /\ t \in cancelled => Engines' = Engines
         /\ t \notin cancelled /\ Alive(t) => Cardinality(Engines') = Cardinality(Engines) - 1
  <1>1. Engines' = Engines \ {t}
    BY DEF Over, TypeOK, Engines, Alive
  <1>2. t \in cancelled => t \notin Engines
    BY DEF Engines
  <1>3. t \notin cancelled /\ Alive(t) => t \in Engines
    BY DEF Engines
  <1>4. t \in Engines => Cardinality(Engines \ {t}) = Cardinality(Engines) - 1
    BY EnginesFinite, FS_RemoveElement
  <1>5. t \notin Engines => Engines \ {t} = Engines
    OBVIOUS
  <1>6. QED
    BY <1>1, <1>2, <1>3, <1>4, <1>5

LEMMA EndLab ==
  ASSUME LabInv, NEW t \in Runs, Alive(t), End(t)
  PROVE  TasksInv' /\ EnginesInv' /\ PoolsInv' /\ CountsInv'
  <1> USE DEF LabInv
  <1>1. Over(t)
    BY DEF End
  <1>2. TasksInv'
    BY <1>1 DEF TasksInv, End, Over, TypeOK, Alive
  <1>3. EnginesInv'
    <2>1. CASE t \in cancelled
      BY <1>1, <2>1, OverEngines, EnginesFinite DEF EnginesInv, End, Owed, One, TypeOK
    <2>2. CASE t \notin cancelled
      BY <1>1, <2>2, OverEngines, EnginesFinite DEF EnginesInv, End, Owed, One, TypeOK
    <2>3. QED
      BY <2>1, <2>2
  <1>4. PoolsInv'
    BY <1>1 DEF PoolsInv, End, Over, One, TypeOK
  <1>5. CountsInv'
    BY <1>1, OverEngines DEF CountsInv, End
  <1>6. QED
    BY <1>2, <1>3, <1>4, <1>5

LEMMA StepLab ==
  ASSUME LabInv, NEW t \in Runs, Step(t)
  PROVE  TasksInv' /\ EnginesInv' /\ PoolsInv' /\ CountsInv'
  <1> USE DEF LabInv
  <1>0. Alive(t)
    BY StepKinds
  <1>1. CASE running /\ \E n \in Int : Send(t, n)
    <2>1. PICK n \in Int : Send(t, n)
      BY <1>1
    <2>2. Engines' = Engines
      BY <1>0, <2>1 DEF Send, TypeOK, Engines, Alive
    <2>3. TasksInv'
      BY <1>0, <2>1, <2>2 DEF TasksInv, Send, TypeOK, Alive
    <2>4. EnginesInv'
      BY <2>1, <2>2 DEF EnginesInv, Send, Owed
    <2>5. PoolsInv'
      BY <1>1, <2>1 DEF PoolsInv, Send, One
    <2>6. CountsInv'
      BY <2>1, <2>2 DEF CountsInv, Send
    <2>7. QED
      BY <2>3, <2>4, <2>5, <2>6
  <1>2. CASE End(t)
    BY <1>0, <1>2, EndLab
  <1>3. CASE /\ t \in cancelled /\ Over(t)
             /\ UNCHANGED <<running, task, client, leaked, started, overlaps, foreign>>
    <2>1. Engines' = Engines
      BY <1>3, OverEngines
    <2>2. TasksInv'
      BY <1>0, <1>3, <2>1 DEF TasksInv, Over, TypeOK, Alive
    <2>3. EnginesInv'
      BY <1>3, <2>1, EnginesFinite DEF EnginesInv, Over, Owed, One, TypeOK
    <2>4. PoolsInv'
      BY <1>3 DEF PoolsInv, Over, One, TypeOK
    <2>5. CountsInv'
      BY <1>3, <2>1 DEF CountsInv
    <2>6. QED
      BY <2>2, <2>3, <2>4, <2>5
  <1>4. CASE /\ t \notin cancelled
             /\ pc' = [pc EXCEPT ![t] = "sleep"]
             /\ foreign' \in {foreign, foreign \/ t # started}
             /\ UNCHANGED <<running, task, client, leaked, started, cancelled, overlaps,
                            expired>>
    <2>1. Engines' = Engines /\ t \in Engines
      BY <1>0, <1>4 DEF TypeOK, Engines, Alive
    <2>2. TasksInv'
      BY <1>0, <1>4, <2>1 DEF TasksInv, TypeOK, Alive
    <2>3. EnginesInv' /\ PoolsInv'
      BY <1>4, <2>1 DEF EnginesInv, PoolsInv, Owed
    <2>4. CountsInv'
      <3>1. t # started => overlaps > 0
        BY <2>1 DEF CountsInv, TypeOK
      <3>2. foreign' => foreign \/ t # started
        BY <1>4
      <3>3. QED
        BY <1>4, <2>1, <3>1, <3>2 DEF CountsInv
    <2>5. QED
      BY <2>2, <2>3, <2>4
  <1>5. QED
    BY <1>1, <1>2, <1>3, <1>4, StepKinds

LEMMA LabUnchanged ==
  ASSUME LabInv,
         UNCHANGED <<running, task, client, leaked, started, pc, cancelled, overlaps, expired,
                     foreign>>
  PROVE  TasksInv' /\ EnginesInv' /\ PoolsInv' /\ CountsInv'
  BY DEF LabInv, TasksInv, EnginesInv, PoolsInv, CountsInv, Owed, Engines, Alive

LEMMA LabAlways == Spec => []LabInv
  <1>1. LabInv /\ [Next]_vars => LabInv'
    <2> SUFFICES ASSUME LabInv, [Next]_vars
                 PROVE  LabInv'
      OBVIOUS
    <2>0. TypeOK'
      BY TypeNext DEF LabInv
    <2>1. CASE Start \/ Stop
      BY <2>0, <2>1, StartLab, StopLab DEF LabInv
    <2>2. CASE \E t \in Runs : Step(t)
      BY <2>0, <2>2, StepLab DEF LabInv
    <2>3. CASE Tick \/ Refuse \/ (\E h \in Handlers : Knock(h) \/ Handshake(h) \/ Outlived(h) \/ Lost(h)) \/ UNCHANGED vars
      <3>1. UNCHANGED <<running, task, client, leaked, started, pc, cancelled, overlaps,
                        expired, foreign>>
        BY <2>3 DEF Tick, Refuse, Knock, Handshake, Accept, AcceptFail, Outlived, Lost, Close,
                    vars, lab
      <3>2. QED
        BY <2>0, <3>1, LabUnchanged DEF LabInv
    <2>4. QED
      BY <2>1, <2>2, <2>3 DEF Next
  <1>2. QED
    BY LabInit, <1>1, PTL DEF Spec

\* The running flag stands for exactly the engines there are: whenever it is up
\* a task is there to end it, and a second engine needs a start that came before
\* a stopped task had ended (attack_sim.py:136-158, 195-200).
THEOREM FlagIsEngine == Spec => []FlagMeansEngine
  <1>1. LabInv => FlagMeansEngine
    BY EnginesFinite
       DEF LabInv, TasksInv, EnginesInv, FlagMeansEngine, EnginesBounded, RunningHasTask, Owed,
           One, TypeOK
  <1>2. QED
    BY LabAlways, <1>1, PTL

\* No pool is left behind by a run that was stopped and not overtaken
\* (attack_sim.py:146, 158-162).
THEOREM PoolsAreReleased == Spec => []PoolsReleased
  <1>1. LabInv => PoolsReleased
    BY DEF LabInv, PoolsInv, PoolsReleased, One, TypeOK
  <1>2. QED
    BY LabAlways, <1>1, PTL

\* Without an overlap no response is counted for another run
\* (attack_sim.py:145, 155-157, 249-256).
THEOREM CountsAreOwn == Spec => []CountsOwn
  <1>1. LabInv => CountsOwn
    BY DEF LabInv, CountsInv, CountsOwn
  <1>2. QED
    BY LabAlways, <1>1, PTL

-----------------------------------------------------------------------------
(* The sockets *)

\* The sockets: a closed handler keeps nothing, the counter is exact, and the
\* handlers beyond the cap are late ones.
SocketsInv ==
    /\ TypeOK
    /\ \A h \in Handlers : socket[h].pc = "closed" => socket[h] = Closed
    /\ SocketsBounded

Late  == {h \in Handlers : socket[h].late}
Taken == Sockets \cup Accepting

LEMMA HandlersFinite ==
  /\ \A S \in SUBSET Handlers : IsFiniteSet(S) /\ Cardinality(S) \in Nat
  /\ IsFiniteSet(Sockets) /\ IsFiniteSet(Taken) /\ IsFiniteSet(Late)
  /\ Cardinality(Sockets) \in Nat /\ Cardinality(Taken) \in Nat /\ Cardinality(Late) \in Nat
  <1>1. \A S \in SUBSET Handlers : IsFiniteSet(S) /\ Cardinality(S) \in Nat
    BY SocketAssumption, FS_Subset, FS_CardinalityType
  <1>2. Sockets \subseteq Handlers /\ Taken \subseteq Handlers /\ Late \subseteq Handlers
    BY DEF Sockets, Taken, Accepting, Late
  <1>3. QED
    BY <1>1, <1>2

LEMMA SocketsInit == Init => SocketsInv
  <1> SUFFICES ASSUME Init PROVE SocketsInv
    OBVIOUS
  <1>1. Sockets = {} /\ Accepting = {} /\ Late = {}
    BY DEF Init, Sockets, Accepting, Late, Closed
  <1>2. SocketsBounded
    BY <1>1, FS_EmptySet, SocketAssumption DEF Init, SocketsBounded, Late
  <1>3. QED
    BY <1>2, TypeInit DEF Init, SocketsInv, Closed

LEMMA KnockSockets ==
  ASSUME SocketsInv, NEW h \in Handlers, Knock(h)
  PROVE  SocketsBounded'
  <1> USE DEF SocketsInv
  <1>1. Sockets' = Sockets /\ count' = count /\ h \notin Taken
    BY DEF Knock, Sockets, Taken, Accepting, Closed, TypeOK
  <1>2. Taken' = Taken \cup {h}
    BY DEF Knock, Sockets, Taken, Accepting, TypeOK
  <1>3. Cardinality(Taken') = Cardinality(Taken) + 1
    BY <1>1, <1>2, HandlersFinite, FS_AddElement
  <1>4. CASE Accepting = {}
    <2>1. Taken = Sockets
      BY <1>4 DEF Taken
    <2>2. Cardinality(Taken') <= Cap
      BY <1>3, <2>1, HandlersFinite, SocketAssumption DEF SocketsBounded, Knock
    <2>3. Cardinality(Late') \in Nat
      BY HandlersFinite DEF Late
    <2>4. Cardinality(Taken') <= Cap + Cardinality(Late')
      BY <1>3, <2>2, <2>3, HandlersFinite, SocketAssumption
    <2>5. QED
      BY <1>1, <2>4 DEF SocketsBounded, Taken, Late
  <1>5. CASE Accepting # {}
    <2>1. Late' = Late \cup {h} /\ h \notin Late
      <3>1. (Accepting # {}) = TRUE
        BY <1>5
      <3>2. socket' = [socket EXCEPT ![h] = [pc |-> "accept", age |-> 0, late |-> TRUE]]
        BY <3>1 DEF Knock
      <3>3. ~socket[h].late
        BY DEF Knock, Closed
      <3>4. \A g \in Handlers : socket'[g].late <=> socket[g].late \/ g = h
        BY <3>2 DEF TypeOK, SocketState
      <3>5. QED
        BY <3>3, <3>4 DEF Late
    <2>2. Cardinality(Late') = Cardinality(Late) + 1
      BY <2>1, HandlersFinite, FS_AddElement
    <2>3. Cardinality(Taken') <= Cap + Cardinality(Late')
      BY <1>3, <2>2, HandlersFinite, SocketAssumption DEF SocketsBounded, Taken, Late
    <2>4. QED
      BY <1>1, <2>3 DEF SocketsBounded, Taken, Late
  <1>6. QED
    BY <1>4, <1>5

LEMMA AcceptSockets ==
  ASSUME SocketsInv, NEW h \in Handlers, Accept(h)
  PROVE  SocketsBounded'
  <1> USE DEF SocketsInv
  <1>1. Sockets' = Sockets \cup {h} /\ h \notin Sockets
    BY DEF Accept, Sockets, Accepting, TypeOK
  <1>2. Taken' = Taken
    BY DEF Accept, Sockets, Taken, Accepting, TypeOK
  <1>3. Late' = Late
    BY DEF Accept, Late, TypeOK
  <1>4. Cardinality(Sockets') = Cardinality(Sockets) + 1
    BY <1>1, HandlersFinite, FS_AddElement
  <1>5. QED
    BY <1>2, <1>3, <1>4, HandlersFinite DEF SocketsBounded, Accept, Taken, Late

\* A handler that ends gives back its place, and its excuse if it had one.
LEMMA GivenBack ==
  ASSUME SocketsInv, NEW h \in Handlers, h \in Taken, socket' = [socket EXCEPT ![h] = Closed]
  PROVE  Cardinality(Taken') <= Cap + Cardinality(Late')
  <1> USE DEF SocketsInv
  <1>1. Taken' = Taken \ {h}
    BY DEF Taken, Sockets, Accepting, Closed, TypeOK
  <1>2. Cardinality(Taken') = Cardinality(Taken) - 1
    BY <1>1, HandlersFinite, FS_RemoveElement
  <1>3. Late' = Late \ {h}
    BY DEF Late, Closed, TypeOK
  <1>4. Cardinality(Late') >= Cardinality(Late) - 1
    <2>1. CASE h \in Late
      <3>1. Cardinality(Late \ {h}) = Cardinality(Late) - 1
        BY <2>1, HandlersFinite, FS_RemoveElement
      <3>2. QED
        BY <1>3, <3>1, HandlersFinite
    <2>2. CASE h \notin Late
      <3>1. Late' = Late
        BY <1>3, <2>2
      <3>2. QED
        BY <3>1, HandlersFinite
    <2>3. QED
      BY <2>1, <2>2
  <1>5. Cardinality(Late') \in Nat /\ Cardinality(Taken') \in Nat
    BY <1>1, <1>3, HandlersFinite DEF Taken, Late, Sockets, Accepting
  <1>6. QED
    BY <1>2, <1>4, <1>5, HandlersFinite, SocketAssumption DEF SocketsBounded, Taken, Late

LEMMA EndSockets ==
  ASSUME SocketsInv, NEW h \in Handlers, AcceptFail(h) \/ Close(h)
  PROVE  SocketsBounded'
  <1> USE DEF SocketsInv
  <1>1. Cardinality(Taken') <= Cap + Cardinality(Late')
    BY GivenBack DEF AcceptFail, Close, Taken
  <1>2. count' = Cardinality(Sockets')
    <2>1. CASE AcceptFail(h)
      <3>1. Sockets' = Sockets
        BY <2>1 DEF AcceptFail, Sockets, Accepting, Closed, TypeOK
      <3>2. QED
        BY <2>1, <3>1 DEF AcceptFail, SocketsBounded
    <2>2. CASE Close(h)
      <3>1. Sockets' = Sockets \ {h} /\ h \in Sockets
        BY <2>2 DEF Close, Sockets, Closed, TypeOK
      <3>2. Cardinality(Sockets') = Cardinality(Sockets) - 1
        BY <3>1, HandlersFinite, FS_RemoveElement
      <3>3. QED
        BY <2>2, <3>2 DEF Close, SocketsBounded
    <2>3. QED
      BY <2>1, <2>2
  <1>3. QED
    BY <1>1, <1>2 DEF SocketsBounded, Taken, Late

LEMMA SocketsUnmoved ==
  ASSUME SocketsInv, count' = count, TypeOK',
         \A h \in Handlers : /\ socket'[h].pc = socket[h].pc
                             /\ socket'[h].late = socket[h].late
                             /\ socket[h].pc = "closed" => socket'[h] = socket[h]
  PROVE  SocketsInv'
  <1>1. Sockets' = Sockets /\ Accepting' = Accepting /\ Late' = Late
    BY DEF Sockets, Accepting, Late
  <1>2. QED
    BY <1>1 DEF SocketsInv, SocketsBounded, Late, Closed

\* The socket counter is exact, and the cap is passed by late handlers only, for
\* any number of handlers (attack_lab.py:139-170).
THEOREM SocketsAreBounded == Spec => []SocketsBounded
  <1>1. SocketsInv /\ [Next]_vars => SocketsInv'
    <2> SUFFICES ASSUME SocketsInv, [Next]_vars
                 PROVE  SocketsInv'
      OBVIOUS
    <2>0. TypeOK'
      BY TypeNext DEF SocketsInv
    <2>1. CASE \E h \in Handlers : Knock(h) \/ Handshake(h) \/ Outlived(h) \/ Lost(h)
      <3>1. PICK h \in Handlers : Knock(h) \/ Accept(h) \/ AcceptFail(h) \/ Close(h)
        BY <2>1 DEF Handshake, Outlived, Lost
      <3>2. SocketsBounded'
        BY <3>1, KnockSockets, AcceptSockets, EndSockets
      <3>3. \A g \in Handlers : socket'[g].pc = "closed" => socket'[g] = Closed'
        <4> SUFFICES ASSUME NEW g \in Handlers, socket'[g].pc = "closed"
                     PROVE  socket'[g] = Closed
          BY DEF Closed
        <4>1. CASE g # h
          BY <3>1, <4>1 DEF SocketsInv, Knock, Accept, AcceptFail, Close, TypeOK
        <4>2. CASE g = h /\ (Knock(h) \/ Accept(h))
          BY <4>2 DEF SocketsInv, Knock, Accept, TypeOK, SocketState
        <4>3. CASE g = h /\ (AcceptFail(h) \/ Close(h))
          BY <4>3 DEF SocketsInv, AcceptFail, Close, TypeOK
        <4>4. QED
          BY <3>1, <4>1, <4>2, <4>3
      <3>4. QED
        BY <2>0, <3>2, <3>3 DEF SocketsInv
    <2>2. CASE Tick
      <3>1. \A h \in Handlers : /\ socket'[h].pc = socket[h].pc
                                /\ socket'[h].late = socket[h].late
                                /\ socket[h].pc = "closed" => socket'[h] = socket[h]
        BY <2>2 DEF Tick, Sockets, SocketsInv, TypeOK, SocketState
      <3>2. QED
        BY <2>0, <2>2, <3>1, SocketsUnmoved DEF Tick
    <2>3. CASE Start \/ Stop \/ Refuse \/ (\E t \in Runs : Step(t)) \/ UNCHANGED vars
      <3>1. UNCHANGED sockets
        BY <2>3 DEF Start, Stop, Refuse, Step, Begin, Resume, Reply, Loop, Send, End, vars, sockets
      <3>2. QED
        BY <2>0, <3>1, SocketsUnmoved DEF sockets
    <2>4. QED
      BY <2>1, <2>2, <2>3 DEF Next
  <1>2. SocketsInv => SocketsBounded
    BY DEF SocketsInv
  <1>3. QED
    BY SocketsInit, <1>1, <1>2, PTL DEF Spec

=============================================================================
