------------------------------- MODULE Anomaly -------------------------------
(***************************************************************************)
(* The models of gateway/detection/ml_anomaly.py: histories and forests in *)
(* memory with a cap on users, one background worker that fits, models on  *)
(* disk that survive a crash, and the profile of behavior.py that feeds    *)
(* them.  Each action holds the lock once, or is one write to the disk.    *)
(***************************************************************************)
EXTENDS Behaviour, Sequences, FiniteSets

CONSTANTS
    Users,
    MinSamples,  \* MIN_SAMPLES
    MaxSamples,  \* MAX_SAMPLES
    RefitEvery,  \* REFIT_EVERY
    MaxTracked,  \* MAX_TRACKED_USERS
    Inputs,      \* what a request adds: rpm, recent, failed
    Races,       \* {"evict"}: a user may be evicted while his model is fitted
    MaxRequests, \* bound: profiled requests
    MaxFaults    \* bound: crashes and failed fits

ASSUME UsersAssumption   == IsFiniteSet(Users)
ASSUME SamplesAssumption == /\ MinSamples \in Nat \ {0} /\ RefitEvery \in Nat \ {0}
                            /\ MaxSamples \in Nat /\ MinSamples <= MaxSamples
ASSUME TrackedAssumption == MaxTracked \in Nat \ {0}
ASSUME InputsAssumption  == Inputs \subseteq [rpm : Nat, recent : Nat, failed : Nat]
ASSUME RacesAssumption   == Races \subseteq {"evict"}
ASSUME BoundAssumption   == MaxRequests \in Nat /\ MaxFaults \in Nat

VARIABLES
    lru,       \* the users of _history, the least recently scored first
    samples,   \* the length of each history, 0 if there is none
    models,    \* _models: the number of samples each forest was fitted on, or 0
    since,     \* _since_refit
    inflight,  \* _fit_inflight
    queue,     \* fits submitted and not begun
    work,      \* the fit under way
    disk,      \* each user's two files: the model and its signature
    base,      \* each user's stored baseline, 0 if there is no profile
    broken,    \* history: users whose last fit failed
    requests, faults \* history, for the bounds

vars == <<lru, samples, models, since, inflight, queue, work, disk, base,
          broken, requests, faults>>
memory == <<lru, samples, models, since>>

Sizes == 0 .. MaxSamples

\* data: the samples of the whole model in the file, 0 if it holds none.
\* sig: whether the signature is that of the bytes now in the file.
File   == [data : Sizes, sig : {"none", "other", "match"}]
NoFile == [data |-> 0, sig |-> "none"]

\* size: the samples in the worker's copy of the history.
Idle == [pc |-> "idle"]
Jobs == [pc : {"short", "fit", "open", "dump", "sign"}, user : Users, size : Sizes]

Elems(s) == {s[i] : i \in DOMAIN s}
Tracked  == Elems(lru)
Modelled == {u \in Users : models[u] # 0}

-----------------------------------------------------------------------------
(* A profiled request *)

\* Mutant of Victims: one user too many is kept.
VictimsLate(order) ==
    IF Len(order) > MaxTracked + 1 THEN {order[1]} ELSE {}

\* Past the cap, the least recently scored user goes.
Victims(order) == IF Len(order) > MaxTracked THEN {order[1]} ELSE {}

Place(s, u) == CHOOSE i \in DOMAIN s : s[i] = u

\* A sequence without its entry for a user, if it has one.
Without(s, u) ==
    IF u \in Elems(s)
    THEN SubSeq(s, 1, Place(s, u) - 1) \o SubSeq(s, Place(s, u) + 1, Len(s))
    ELSE s

\* _touch_user: the user moves to the end, or joins there.
Touched(u) == Append(Without(lru, u), u)

\* _schedule_fit.
Schedule(u, due) ==
    IF due /\ u \notin inflight
    THEN inflight' = inflight \cup {u} /\ queue' = Append(queue, u)
    ELSE UNCHANGED <<inflight, queue>>

\* update_behavior_profile: a first request only creates the profile.
Profile(u, in) ==
    LET b == Clamp(base[u])
    IN  base' = [base EXCEPT ![u] =
            IF @ = 0
            THEN IF in.rpm > 5 THEN 100 * in.rpm ELSE 500
            ELSE NewBase(b, in.rpm, Rule(in.rpm, in.recent, in.failed, b))]

\* score_user, in its one critical section.
Observe(u, in) ==
    LET order == Touched(u)
        out   == Victims(order)
        n     == IF samples[u] < MaxSamples THEN samples[u] + 1 ELSE MaxSamples
        due   == since[u] + 1 >= RefitEvery \/ (models[u] = 0 /\ n >= MinSamples)
    IN  /\ requests < MaxRequests /\ requests' = requests + 1
        /\ (work.pc = "fit" /\ "evict" \notin Races) => work.user \notin out
        /\ lru' = IF out = {} THEN order ELSE Tail(order)
        /\ samples' = [v \in Users |->
                          IF v = u THEN n ELSE IF v \in out THEN 0 ELSE samples[v]]
        /\ since' = [v \in Users |->
                        IF v = u THEN since[u] + 1 ELSE IF v \in out THEN 0 ELSE since[v]]
        /\ models' = [v \in Users |-> IF v \in out THEN 0 ELSE models[v]]
        /\ Schedule(u, due)
        /\ Profile(u, in)
        /\ UNCHANGED <<work, disk, broken, faults>>

-----------------------------------------------------------------------------
(* The worker *)

Begin(pc, u, n) == work' = [pc |-> pc, user |-> u, size |-> n]

Goto(pc) == Begin(pc, work.user, work.size)

\* The finally block.
Finish == work' = Idle /\ inflight' = inflight \ {work.user}

\* Mutant of Snapshot: one sample too few will do.
SnapshotShort ==
    /\ work = Idle /\ queue # <<>>
    /\ queue' = Tail(queue)
    /\ LET u == Head(queue)
       IN  Begin(IF samples[u] < MinSamples - 1 THEN "short" ELSE "fit", u, samples[u])
    /\ UNCHANGED <<memory, inflight, disk, base, broken, requests, faults>>

\* _fit takes a copy of the history.
Snapshot ==
    /\ work = Idle /\ queue # <<>>
    /\ queue' = Tail(queue)
    /\ LET u == Head(queue)
       IN  Begin(IF samples[u] < MinSamples THEN "short" ELSE "fit", u, samples[u])
    /\ UNCHANGED <<memory, inflight, disk, base, broken, requests, faults>>

\* Too short a history takes the model away; the counter keeps climbing.
Short ==
    /\ work.pc = "short"
    /\ models' = [models EXCEPT ![work.user] = 0]
    /\ Finish
    /\ UNCHANGED <<lru, samples, since, queue, disk, base, broken, requests, faults>>

\* Mutant of FitFail: the marker stays.
FitFailStuck ==
    /\ work.pc = "fit" /\ faults < MaxFaults
    /\ faults' = faults + 1
    /\ models' = [models EXCEPT ![work.user] = 0]
    /\ broken' = broken \cup {work.user}
    /\ work' = Idle
    /\ UNCHANGED <<lru, samples, since, queue, inflight, disk, base, requests>>

\* model.fit raises.
FitFail ==
    /\ work.pc = "fit" /\ faults < MaxFaults
    /\ faults' = faults + 1
    /\ models' = [models EXCEPT ![work.user] = 0]
    /\ broken' = broken \cup {work.user}
    /\ Finish
    /\ UNCHANGED <<lru, samples, since, queue, disk, base, requests>>

\* The model is stored, whether or not the user is still tracked.
Land ==
    /\ work.pc = "fit"
    /\ models' = [models EXCEPT ![work.user] = work.size]
    /\ since' = [since EXCEPT ![work.user] = 0]
    /\ broken' = broken \ {work.user}
    /\ Goto("open")
    /\ UNCHANGED <<lru, samples, inflight, queue, disk, base, requests, faults>>

\* _persist_model opens the file: what it held is gone, and the signature of an
\* earlier model no longer matches.
Open ==
    /\ work.pc = "open"
    /\ disk' = [disk EXCEPT ![work.user] =
                   [data |-> 0, sig |-> IF @.sig = "match" THEN "other" ELSE @.sig]]
    /\ Goto("dump")
    /\ UNCHANGED <<memory, inflight, queue, base, broken, requests, faults>>

Dump ==
    /\ work.pc = "dump"
    /\ disk' = [disk EXCEPT ![work.user].data = work.size]
    /\ Goto("sign")
    /\ UNCHANGED <<memory, inflight, queue, base, broken, requests, faults>>

\* The signature is of the bytes read back.
Sign ==
    /\ work.pc = "sign"
    /\ disk' = [disk EXCEPT ![work.user].sig = "match"]
    /\ Finish
    /\ UNCHANGED <<memory, queue, base, broken, requests, faults>>

\* A write fails; the error is swallowed.
PersistFail ==
    /\ work.pc \in {"open", "dump", "sign"} /\ faults < MaxFaults
    /\ faults' = faults + 1
    /\ Finish
    /\ UNCHANGED <<memory, queue, disk, base, broken, requests>>

Worker == \/ Snapshot \/ Short \/ FitFail \/ Land
          \/ Open \/ Dump \/ Sign \/ PersistFail

-----------------------------------------------------------------------------
(* A crash and the start that follows *)

\* Mutant of Trusted: that there is a signature will do.
TrustedIfSigned == {u \in Users : disk[u].sig # "none"}

\* Only a file with a matching signature is loaded.
Trusted == {u \in Users : disk[u].sig = "match"}

\* Orders in which load_persisted_models may take files, up to the cap.
Loads(S) ==
    LET n == IF Cardinality(S) < MaxTracked THEN Cardinality(S) ELSE MaxTracked
    IN  {s \in [1..n -> S] : \A i, j \in 1..n : i # j => s[i] # s[j]}

Restart ==
    /\ faults < MaxFaults
    /\ faults' = faults + 1
    /\ \E s \in Loads(Trusted) :
          /\ lru' = s
          /\ models' = [u \in Users |-> IF u \in Elems(s) THEN disk[u].data ELSE 0]
    /\ samples' = [u \in Users |-> 0]
    /\ since' = [u \in Users |-> 0]
    /\ inflight' = {} /\ queue' = <<>> /\ work' = Idle
    /\ UNCHANGED <<disk, base, broken, requests>>

\* A new SECRET_KEY: no signature matches any more.
RotateKey ==
    /\ faults < MaxFaults
    /\ faults' = faults + 1
    /\ disk' = [u \in Users |->
                   [disk[u] EXCEPT !.sig = IF @ = "match" THEN "other" ELSE @]]
    /\ lru' = <<>> /\ models' = [u \in Users |-> 0]
    /\ samples' = [u \in Users |-> 0]
    /\ since' = [u \in Users |-> 0]
    /\ inflight' = {} /\ queue' = <<>> /\ work' = Idle
    /\ UNCHANGED <<base, broken, requests>>

\* No request is being profiled.
Quiet == UNCHANGED vars

Init ==
    /\ lru = <<>>
    /\ samples = [u \in Users |-> 0]
    /\ models = [u \in Users |-> 0]
    /\ since = [u \in Users |-> 0]
    /\ inflight = {} /\ queue = <<>> /\ work = Idle
    /\ disk = [u \in Users |-> NoFile]
    /\ base = [u \in Users |-> 0]
    /\ broken = {}
    /\ requests = 0 /\ faults = 0

Next ==
    \/ \E u \in Users, in \in Inputs : Observe(u, in)
    \/ Worker \/ Restart \/ RotateKey \/ Quiet

\* The worker thread is scheduled as long as it has something to do.
Spec == Init /\ [][Next]_vars /\ WF_vars(Worker)

-----------------------------------------------------------------------------
(* Properties *)

\* Every variable holds what the dictionaries, the queue and the disk can hold.
TypeOK ==
    /\ Tracked \subseteq Users /\ Len(lru) = Cardinality(Tracked)
    /\ samples \in [Users -> Sizes]
    /\ models \in [Users -> Sizes]
    /\ since \in [Users -> Nat]
    /\ inflight \subseteq Users
    /\ queue \in Seq(Users)
    /\ work \in {Idle} \cup Jobs
    /\ disk \in [Users -> File]
    /\ base \in [Users -> Nat]
    /\ broken \subseteq Users
    /\ requests \in 0..MaxRequests /\ faults \in 0..MaxFaults

\* Memory holds a history and a model for at most MaxTracked users, and no model
\* outlives the history it was fitted on, as long as nobody is evicted while
\* his model is fitted (ml_anomaly.py:79-98, 121-127).
MemoryBounded == Len(lru) <= MaxTracked /\ Modelled \subseteq Tracked

\* Nobody is judged by a model fitted on fewer than MinSamples observations, and
\* no file a start would load holds anything else, whatever was evicted, refitted,
\* half written over an older model and its signature, or restarted in between
\* (ml_anomaly.py:183-189, 246-263, 313-335).
ModelsFitted ==
    \A u \in Users :
        /\ u \in Modelled => models[u] >= MinSamples
        /\ u \in Trusted  => disk[u].data >= MinSamples

\* A spike of the request rate is reported as one and raises the account's
\* risk, whatever the window of failures, which counts requests too, and the
\* forest say (behavior.py:144-195, logging.py:220-234).
SpikeNotMasked ==
    \A u \in {v \in Users : base[v] # 0}, rpm \in {41, 140, 400},
       failed \in {0, 6, 8, 400}, ml \in {0, 620, 950} :
        LET b == Clamp(base[u])
        IN  Spike(rpm, 5, b) => Elevates(Verdict(Rule(rpm, 5, failed, b), ml))

\* The marker that suppresses a second fit never keeps a user from being fitted
\* again, and a user whose fit is queued with enough samples gets his model,
\* unless he is evicted, the process restarts or the fit fails
\* (ml_anomaly.py:204-226).
FitsFinish ==
    \A u \in Users :
        /\ (u \in inflight) ~> (u \notin inflight)
        /\ (u \in Elems(queue) /\ samples[u] >= MinSamples)
              ~> (u \in Modelled \/ u \notin Tracked \/ u \in broken \/ samples[u] < MinSamples)

=============================================================================
