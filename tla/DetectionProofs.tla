--------------------------- MODULE DetectionProofs ---------------------------
(***************************************************************************)
(* Theorems about the models of the anomaly detector, for any users,       *)
(* sizes, requests, crashes and failed fits, and about the stored risk     *)
(* score of an account, for any range, amounts and number of requests.     *)
(***************************************************************************)
EXTENDS Anomaly, RiskScore, FiniteSetTheorems, SequenceTheorems, TLAPS

\* What the worker has in hand was fitted on enough, so whatever it stores was,
\* and a signature that matches is of a file it finished.
FittedInv ==
  /\ samples \in [Users -> Nat] /\ models \in [Users -> Nat] /\ queue \in Seq(Users)
  /\ disk \in [Users -> [data : Nat, sig : {"none", "other", "match"}]]
  /\ work \in {Idle} \cup [pc : {"short", "fit", "open", "dump", "sign"}, user : Users, size : Nat]
  /\ work.pc \in {"fit", "open", "dump", "sign"} => work.size >= MinSamples
  /\ work.pc = "sign" => disk[work.user].data >= MinSamples
  /\ ModelsFitted

LEMMA FittedInit == Init => FittedInv
  BY DEF Init, FittedInv, Idle, NoFile, ModelsFitted, Modelled, Trusted

\* The worker has a user as long as it is at work.
LEMMA Working ==
  ASSUME FittedInv, work.pc # "idle"
  PROVE  /\ work \in [pc : {"short", "fit", "open", "dump", "sign"}, user : Users, size : Nat]
         /\ work.user \in Users /\ work.size \in Nat
  BY DEF FittedInv, Idle

LEMMA ObserveFitted ==
  ASSUME FittedInv, NEW u \in Users, NEW in \in Inputs, Observe(u, in)
  PROVE  FittedInv'
  <1> DEFINE out == Victims(Touched(u))
             n   == IF samples[u] < MaxSamples THEN samples[u] + 1 ELSE MaxSamples
  <1>1. n \in Nat
    BY SamplesAssumption DEF FittedInv
  <1>2. /\ samples' = [v \in Users |-> IF v = u THEN n ELSE IF v \in out THEN 0 ELSE samples[v]]
        /\ models' = [v \in Users |-> IF v \in out THEN 0 ELSE models[v]]
        /\ UNCHANGED <<work, disk>>
    BY DEF Observe
  <1>3. queue' \in Seq(Users)
    <2>1. queue' = Append(queue, u) \/ queue' = queue
      BY DEF Observe, Schedule
    <2>2. queue \in Seq(Users)
      BY DEF FittedInv
    <2>3. Append(queue, u) \in Seq(Users)
      BY <2>2
    <2>4. QED
      BY <2>1, <2>2, <2>3
  <1> HIDE DEF out, n
  <1>4. samples' \in [Users -> Nat] /\ models' \in [Users -> Nat]
    BY <1>1, <1>2 DEF FittedInv
  <1>5. ModelsFitted'
    BY <1>2 DEF FittedInv, ModelsFitted, Modelled, Trusted
  <1>6. QED
    BY <1>2, <1>3, <1>4, <1>5 DEF FittedInv

LEMMA SnapshotFitted ==
  ASSUME FittedInv, Snapshot
  PROVE  FittedInv'
  <1> DEFINE u == Head(queue)
  <1>1. u \in Users /\ queue' \in Seq(Users) /\ samples[u] \in Nat
    BY DEF Snapshot, FittedInv
  <1>2. /\ work' = [pc   |-> IF samples[u] < MinSamples THEN "short" ELSE "fit",
                    user |-> u, size |-> samples[u]]
        /\ UNCHANGED <<samples, disk, models>>
    BY DEF Snapshot, Begin, memory
  <1> HIDE DEF u
  <1>3. work' \in [pc : {"short", "fit", "open", "dump", "sign"}, user : Users, size : Nat]
    BY <1>1, <1>2
  <1>4. work'.pc \in {"fit", "open", "dump", "sign"} => work'.size >= MinSamples
    <2>1. CASE samples[u] < MinSamples
      BY <1>2, <2>1
    <2>2. CASE ~(samples[u] < MinSamples)
      BY <1>1, <1>2, <2>2, SamplesAssumption
    <2>3. QED
      BY <2>1, <2>2
  <1>5. work'.pc # "sign"
    BY <1>2
  <1>6. ModelsFitted'
    BY <1>2 DEF FittedInv, ModelsFitted, Modelled, Trusted
  <1>7. QED
    BY <1>1, <1>2, <1>3, <1>4, <1>5, <1>6 DEF FittedInv

LEMMA WorkerFitted ==
  ASSUME FittedInv, Worker
  PROVE  FittedInv'
  <1>1. CASE Snapshot
    BY <1>1, SnapshotFitted
  <1>2. CASE Short \/ FitFail \/ PersistFail
    <2>1. /\ UNCHANGED <<samples, queue, disk>> /\ work' = Idle
          /\ models' = models \/ models' = [models EXCEPT ![work.user] = 0]
      BY <1>2 DEF Short, FitFail, PersistFail, Finish, memory
    <2>2. work.user \in Users
      BY <1>2, Working DEF Short, FitFail, PersistFail
    <2>3. models' \in [Users -> Nat]
      BY <2>1, <2>2 DEF FittedInv
    <2>4. ModelsFitted'
      BY <2>1, <2>2 DEF FittedInv, ModelsFitted, Modelled, Trusted
    <2>5. QED
      BY <2>1, <2>3, <2>4 DEF FittedInv, Idle
  <1>3. CASE Land
    <2>1. work.user \in Users /\ work.size \in Nat /\ work.size >= MinSamples
      BY <1>3, Working DEF Land, FittedInv
    <2>2. /\ work' = [pc |-> "open", user |-> work.user, size |-> work.size]
          /\ models' = [models EXCEPT ![work.user] = work.size]
          /\ UNCHANGED <<samples, disk, queue>>
      BY <1>3 DEF Land, Begin, Goto
    <2>3. ModelsFitted'
      BY <2>1, <2>2 DEF FittedInv, ModelsFitted, Modelled, Trusted
    <2>4. QED
      BY <2>1, <2>2, <2>3 DEF FittedInv
  <1>4. CASE Open
    <2>1. work.user \in Users /\ work.size \in Nat /\ work.size >= MinSamples
      BY <1>4, Working DEF Open, FittedInv
    <2>2. PICK sig \in {"none", "other"} :
             disk' = [disk EXCEPT ![work.user] = [data |-> 0, sig |-> sig]]
      BY <1>4, <2>1 DEF Open, FittedInv
    <2>3. /\ work' = [pc |-> "dump", user |-> work.user, size |-> work.size]
          /\ UNCHANGED <<samples, models, queue>>
      BY <1>4 DEF Open, Begin, Goto, memory
    <2>4. disk' \in [Users -> [data : Nat, sig : {"none", "other", "match"}]]
      BY <2>2 DEF FittedInv
    <2>5. ModelsFitted'
      BY <2>1, <2>2, <2>3 DEF FittedInv, ModelsFitted, Modelled, Trusted
    <2>6. QED
      BY <2>1, <2>3, <2>4, <2>5 DEF FittedInv
  <1>5. CASE Dump
    <2>1. work.user \in Users /\ work.size \in Nat /\ work.size >= MinSamples
      BY <1>5, Working DEF Dump, FittedInv
    <2>2. /\ work' = [pc |-> "sign", user |-> work.user, size |-> work.size]
          /\ disk' = [disk EXCEPT ![work.user].data = work.size]
          /\ UNCHANGED <<samples, models, queue>>
      BY <1>5 DEF Dump, Begin, Goto, memory
    <2>3. /\ disk' \in [Users -> [data : Nat, sig : {"none", "other", "match"}]]
          /\ disk'[work.user].data = work.size
          /\ \A u \in Users : disk'[u].sig = disk[u].sig
                              /\ (disk'[u].data = disk[u].data \/ disk'[u].data = work.size)
      BY <2>1, <2>2 DEF FittedInv
    <2>4. ModelsFitted'
      BY <2>1, <2>2, <2>3 DEF FittedInv, ModelsFitted, Modelled, Trusted
    <2>5. QED
      BY <2>1, <2>2, <2>3, <2>4 DEF FittedInv
  <1>6. CASE Sign
    <2>1. work.user \in Users /\ disk[work.user].data >= MinSamples
      BY <1>6, Working DEF Sign, FittedInv
    <2>2. /\ work' = Idle /\ disk' = [disk EXCEPT ![work.user].sig = "match"]
          /\ UNCHANGED <<samples, models, queue>>
      BY <1>6 DEF Sign, Finish, memory
    <2>3. /\ disk' \in [Users -> [data : Nat, sig : {"none", "other", "match"}]]
          /\ \A u \in Users : disk'[u].data = disk[u].data
                              /\ (disk'[u].sig = disk[u].sig \/ u = work.user)
      BY <2>1, <2>2 DEF FittedInv
    <2>4. ModelsFitted'
      BY <2>1, <2>2, <2>3 DEF FittedInv, ModelsFitted, Modelled, Trusted
    <2>5. QED
      BY <2>2, <2>3, <2>4 DEF FittedInv, Idle
  <1>7. QED
    BY <1>1, <1>2, <1>3, <1>4, <1>5, <1>6 DEF Worker

LEMMA RestartFitted ==
  ASSUME FittedInv, Restart \/ RotateKey
  PROVE  FittedInv'
  <1>1. samples' = [u \in Users |-> 0] /\ queue' = << >> /\ work' = Idle
    BY DEF Restart, RotateKey
  <1>2. CASE Restart
    <2>1. PICK s \in Loads(Trusted) :
             models' = [u \in Users |-> IF u \in Elems(s) THEN disk[u].data ELSE 0]
      BY <1>2 DEF Restart
    <2>2. Elems(s) \subseteq Trusted
      BY <2>1 DEF Loads, Elems
    <2>3. UNCHANGED disk
      BY <1>2 DEF Restart
    <2>4. models' \in [Users -> Nat]
      BY <2>1 DEF FittedInv
    <2>5. ModelsFitted'
      BY <2>1, <2>2, <2>3 DEF FittedInv, ModelsFitted, Modelled, Trusted
    <2>6. QED
      BY <1>1, <2>3, <2>4, <2>5 DEF FittedInv, Idle
  <1>3. CASE RotateKey
    <2>1. /\ disk' = [u \in Users |->
                         [disk[u] EXCEPT !.sig = IF @ = "match" THEN "other" ELSE @]]
          /\ models' = [u \in Users |-> 0]
      BY <1>3 DEF RotateKey
    <2>2. /\ disk' \in [Users -> [data : Nat, sig : {"none", "other", "match"}]]
          /\ \A u \in Users : disk'[u].sig # "match"
      BY <2>1 DEF FittedInv
    <2>3. ModelsFitted'
      BY <2>1, <2>2 DEF ModelsFitted, Modelled, Trusted
    <2>4. QED
      BY <1>1, <2>1, <2>2, <2>3 DEF FittedInv, Idle
  <1>4. QED
    BY <1>2, <1>3

LEMMA FittedNext ==
  ASSUME FittedInv, [Next]_vars
  PROVE  FittedInv'
  <1>1. CASE Quiet \/ UNCHANGED vars
    BY <1>1 DEF Quiet, vars, FittedInv, ModelsFitted, Modelled, Trusted
  <1>2. QED
    BY <1>1, ObserveFitted, WorkerFitted, RestartFitted DEF Next

\* No model in memory was fitted on fewer than MinSamples observations, and no
\* file that a start would load holds anything else: a refit on too little takes
\* the model away, and a write over an older file leaves its signature without a
\* match until the new one is whole, whatever is evicted during a fit, fails or
\* crashes between two writes (ml_anomaly.py:179-202, 246-256, 313-335).
THEOREM ModelsAreFitted == Spec => []ModelsFitted
  <1>1. FittedInv => ModelsFitted
    BY DEF FittedInv
  <1>2. QED
    BY <1>1, FittedInit, FittedNext, PTL DEF Spec

-----------------------------------------------------------------------------
(* Memory *)

Distinct(s) == \A i, j \in 1 .. Len(s) : s[i] = s[j] => i = j

LEMMA ElemsAre ==
  ASSUME NEW s \in Seq(Users), NEW x
  PROVE  x \in Elems(s) <=> \E j \in 1 .. Len(s) : s[j] = x
  BY DEF Elems

\* Taking an entry out leaves the others, in their order.
LEMMA WithoutOne ==
  ASSUME NEW s \in Seq(Users), Distinct(s), NEW u
  PROVE  /\ Without(s, u) \in Seq(Users)
         /\ Len(Without(s, u)) <= Len(s)
         /\ Distinct(Without(s, u))
         /\ Elems(Without(s, u)) = Elems(s) \ {u}
  <1>1. CASE u \notin Elems(s)
    BY <1>1 DEF Without
  <1>2. CASE u \in Elems(s)
    <2> DEFINE i == Place(s, u)
               a == SubSeq(s, 1, i - 1)
               b == SubSeq(s, i + 1, Len(s))
               w == a \o b
    <2>1. i \in 1 .. Len(s) /\ s[i] = u /\ Len(s) \in Nat
      BY <1>2 DEF Elems, Place
    <2> HIDE DEF i
    <2>2. /\ a \in Seq(Users) /\ Len(a) = i - 1
          /\ \A j \in 1 .. i - 1 : a[j] = s[j]
      BY <2>1
    <2>3. /\ b \in Seq(Users) /\ Len(b) = Len(s) - i
          /\ \A j \in 1 .. Len(s) - i : b[j] = s[i + j]
      BY <2>1
    <2> HIDE DEF a, b
    <2>4. /\ w \in Seq(Users) /\ Len(w) = Len(s) - 1
          /\ \A j \in 1 .. i - 1 : w[j] = s[j]
          /\ \A j \in i .. Len(s) - 1 : w[j] = s[j + 1]
      <3>1. w \in Seq(Users) /\ Len(w) = Len(a) + Len(b)
        BY <2>2, <2>3
      <3>2. \A j \in 1 .. Len(w) : w[j] = IF j <= Len(a) THEN a[j] ELSE b[j - Len(a)]
        BY <2>2, <2>3, ConcatProperties
      <3>3. ASSUME NEW j \in 1 .. i - 1
            PROVE  w[j] = s[j]
        BY <2>1, <2>2, <2>3, <3>1, <3>2
      <3>4. ASSUME NEW j \in i .. Len(s) - 1
            PROVE  w[j] = s[j + 1]
        <4>1. j \in 1 .. Len(w) /\ ~(j <= Len(a)) /\ j - Len(a) \in 1 .. Len(s) - i
              /\ i + (j - Len(a)) = j + 1
          BY <2>1, <2>2, <2>3, <3>1
        <4>2. QED
          BY <2>3, <3>2, <4>1
      <3>5. QED
        BY <2>1, <2>2, <2>3, <3>1, <3>3, <3>4
    <2> HIDE DEF w
    <2>5. \A j \in 1 .. Len(w) : \E k \in 1 .. Len(s) :
             k # i /\ w[j] = s[k] /\ k = IF j < i THEN j ELSE j + 1
      <3> SUFFICES ASSUME NEW j \in 1 .. Len(w)
                   PROVE  \E k \in 1 .. Len(s) :
                             k # i /\ w[j] = s[k] /\ k = IF j < i THEN j ELSE j + 1
        OBVIOUS
      <3>1. CASE j < i
        BY <2>1, <2>4, <3>1
      <3>2. CASE ~(j < i)
        <4>1. j + 1 \in 1 .. Len(s) /\ j + 1 # i /\ j \in i .. Len(s) - 1
          BY <2>1, <2>4, <3>2
        <4>2. QED
          BY <2>4, <3>2, <4>1
      <3>3. QED
        BY <3>1, <3>2
    <2>6. \A k \in 1 .. Len(s) : k # i => \E j \in 1 .. Len(w) : w[j] = s[k]
      <3> SUFFICES ASSUME NEW k \in 1 .. Len(s), k # i
                   PROVE  \E j \in 1 .. Len(w) : w[j] = s[k]
        OBVIOUS
      <3>1. CASE k < i
        BY <2>1, <2>4, <3>1
      <3>2. CASE ~(k < i)
        <4>1. k - 1 \in i .. Len(s) - 1 /\ k - 1 \in 1 .. Len(w) /\ (k - 1) + 1 = k
          BY <2>1, <2>4, <3>2
        <4>2. w[k - 1] = s[k]
          BY <2>4, <4>1
        <4>3. QED
          BY <4>1, <4>2
      <3>3. QED
        BY <3>1, <3>2
    <2>7. Distinct(w)
      <3> SUFFICES ASSUME NEW j \in 1 .. Len(w), NEW k \in 1 .. Len(w), w[j] = w[k]
                   PROVE  j = k
        BY DEF Distinct
      <3>1. PICK m \in 1 .. Len(s) : w[j] = s[m] /\ m = IF j < i THEN j ELSE j + 1
        BY <2>5
      <3>2. PICK n \in 1 .. Len(s) : w[k] = s[n] /\ n = IF k < i THEN k ELSE k + 1
        BY <2>5
      <3>3. m = n
        BY <3>1, <3>2 DEF Distinct
      <3>4. QED
        BY <2>1, <3>1, <3>2, <3>3
    <2>8. Elems(w) = Elems(s) \ {u}
      <3>1. \A j \in 1 .. Len(w) : w[j] \in Elems(s) /\ w[j] # u
        BY <2>1, <2>5 DEF Distinct, Elems
      <3>2. \A k \in 1 .. Len(s) : s[k] # u => \E j \in 1 .. Len(w) : w[j] = s[k]
        BY <2>1, <2>6
      <3>3. w \in Seq(Users)
        BY <2>4
      <3>4. ASSUME NEW x
            PROVE  x \in Elems(w) <=> x \in Elems(s) \ {u}
        <4>1. x \in Elems(w) => x \in Elems(s) \ {u}
          BY <3>1, <3>3, ElemsAre
        <4>2. x \in Elems(s) \ {u} => x \in Elems(w)
          BY <3>2, <3>3, ElemsAre
        <4>3. QED
          BY <4>1, <4>2
      <3>5. QED
        BY <3>4
    <2>9. w = Without(s, u)
      BY <1>2 DEF w, a, b, i, Without
    <2>10. Len(w) <= Len(s)
      BY <2>1, <2>4
    <2>11. QED
      BY <2>4, <2>7, <2>8, <2>9, <2>10
  <1>3. QED
    BY <1>1, <1>2

LEMMA AppendedOne ==
  ASSUME NEW s \in Seq(Users), Distinct(s), NEW u \in Users, u \notin Elems(s)
  PROVE  /\ Append(s, u) \in Seq(Users)
         /\ Len(Append(s, u)) = Len(s) + 1
         /\ Append(s, u)[Len(s) + 1] = u
         /\ Distinct(Append(s, u))
         /\ Elems(Append(s, u)) = Elems(s) \cup {u}
  <1> DEFINE w == Append(s, u)
  <1>1. /\ w \in Seq(Users) /\ Len(w) = Len(s) + 1 /\ Len(s) \in Nat
        /\ w[Len(s) + 1] = u /\ \A j \in 1 .. Len(s) : w[j] = s[j]
    OBVIOUS
  <1>2. DOMAIN w = 1 .. Len(w) /\ DOMAIN s = 1 .. Len(s)
    BY <1>1
  <1> HIDE DEF w
  <1>3. \A j \in 1 .. Len(s) : s[j] # u
    BY <1>2 DEF Elems
  <1>4. \A j \in 1 .. Len(w) : j \in 1 .. Len(s) \/ j = Len(s) + 1
    BY <1>1
  <1>5. Distinct(w)
    BY <1>1, <1>3, <1>4 DEF Distinct
  <1>6. \A j \in 1 .. Len(w) : w[j] \in Elems(s) \cup {u}
    BY <1>1, <1>2, <1>4 DEF Elems
  <1>7. \A j \in 1 .. Len(s) : j \in 1 .. Len(w) /\ w[j] = s[j]
    BY <1>1
  <1>8. Len(s) + 1 \in 1 .. Len(w)
    BY <1>1
  <1>9. Elems(w) = Elems(s) \cup {u}
    <2>1. Elems(w) \subseteq Elems(s) \cup {u}
      BY <1>2, <1>6 DEF Elems
    <2>2. Elems(s) \subseteq Elems(w)
      BY <1>2, <1>7 DEF Elems
    <2>3. u \in Elems(w)
      BY <1>1, <1>2, <1>8 DEF Elems
    <2>4. QED
      BY <2>1, <2>2, <2>3
  <1>10. QED
    BY <1>1, <1>5, <1>9 DEF w

LEMMA WithoutFirst ==
  ASSUME NEW s \in Seq(Users), Distinct(s), Len(s) > 0
  PROVE  /\ Tail(s) \in Seq(Users)
         /\ Len(Tail(s)) = Len(s) - 1
         /\ Distinct(Tail(s))
         /\ Elems(Tail(s)) = Elems(s) \ {s[1]}
  <1> DEFINE w == Tail(s)
  <1>1. /\ w \in Seq(Users) /\ Len(w) = Len(s) - 1 /\ Len(s) \in Nat
        /\ \A j \in 1 .. Len(w) : j + 1 \in 1 .. Len(s) /\ w[j] = s[j + 1]
    OBVIOUS
  <1>2. DOMAIN w = 1 .. Len(w) /\ DOMAIN s = 1 .. Len(s) /\ 1 \in 1 .. Len(s)
    BY <1>1
  <1> HIDE DEF w
  <1>3. Distinct(w)
    <2> SUFFICES ASSUME NEW j \in 1 .. Len(w), NEW k \in 1 .. Len(w), w[j] = w[k]
                 PROVE  j = k
      BY DEF Distinct
    <2>1. j + 1 = k + 1
      BY <1>1 DEF Distinct
    <2>2. QED
      BY <1>1, <2>1
  <1>4. \A j \in 1 .. Len(w) : w[j] \in Elems(s) /\ w[j] # s[1]
    <2> SUFFICES ASSUME NEW j \in 1 .. Len(w)
                 PROVE  w[j] \in Elems(s) /\ w[j] # s[1]
      OBVIOUS
    <2>1. j + 1 \in 1 .. Len(s) /\ w[j] = s[j + 1] /\ j + 1 # 1
      BY <1>1
    <2>2. QED
      BY <1>2, <2>1 DEF Distinct, Elems
  <1>5. \A k \in 1 .. Len(s) : k # 1 => \E j \in 1 .. Len(w) : w[j] = s[k]
    <2> SUFFICES ASSUME NEW k \in 1 .. Len(s), k # 1
                 PROVE  \E j \in 1 .. Len(w) : w[j] = s[k]
      OBVIOUS
    <2>1. k - 1 \in 1 .. Len(w) /\ (k - 1) + 1 = k
      BY <1>1
    <2>2. w[k - 1] = s[k]
      BY <1>1, <2>1
    <2>3. QED
      BY <2>1, <2>2
  <1>6. Elems(w) = Elems(s) \ {s[1]}
    <2>1. ASSUME NEW x
          PROVE  x \in Elems(w) <=> x \in Elems(s) \ {s[1]}
      <3>1. x \in Elems(w) => x \in Elems(s) \ {s[1]}
        BY <1>1, <1>4, ElemsAre
      <3>2. x \in Elems(s) \ {s[1]} => x \in Elems(w)
        <4> SUFFICES ASSUME x \in Elems(s), x # s[1]
                     PROVE  x \in Elems(w)
          OBVIOUS
        <4>1. PICK k \in 1 .. Len(s) : s[k] = x
          BY ElemsAre
        <4>2. PICK j \in 1 .. Len(w) : w[j] = s[k]
          BY <1>5, <4>1
        <4>3. QED
          BY <1>1, <4>1, <4>2, ElemsAre
      <3>3. QED
        BY <3>1, <3>2
    <2>2. QED
      BY <2>1
  <1>7. QED
    BY <1>1, <1>3, <1>6 DEF w

\* A user is listed once, and no more users than the cap.
LruInv == lru \in Seq(Users) /\ Distinct(lru) /\ Len(lru) <= MaxTracked

TypeInv ==
    /\ LruInv
    /\ samples \in [Users -> Sizes]
    /\ models \in [Users -> Sizes]
    /\ since \in [Users -> Nat]
    /\ inflight \subseteq Users
    /\ queue \in Seq(Users)
    /\ work \in {Idle} \cup Jobs
    /\ disk \in [Users -> File]
    /\ base \in [Users -> Nat]
    /\ broken \subseteq Users
    /\ requests \in 0 .. MaxRequests /\ faults \in 0 .. MaxFaults

\* Whatever is remembered of a user, or is being made for him, is of a user who
\* is tracked.
MemInv ==
    /\ TypeInv
    /\ Modelled \subseteq Tracked
    /\ \A u \in Users : samples[u] > 0 => u \in Tracked
    /\ work.pc = "fit" => work.user \in Tracked

\* A request puts its user last, and who drops out is another.
LEMMA ObservedOrder ==
  ASSUME LruInv, NEW u \in Users
  PROVE  LET order == Touched(u)
             out   == Victims(order)
             rest  == IF out = {} THEN order ELSE Tail(order)
         IN  /\ out \subseteq Users /\ u \notin out
             /\ rest \in Seq(Users) /\ Distinct(rest) /\ Len(rest) <= MaxTracked
             /\ Elems(rest) = (Tracked \cup {u}) \ out
  <1> DEFINE before == Without(lru, u)
             order  == Touched(u)
             out    == Victims(order)
             rest   == IF out = {} THEN order ELSE Tail(order)
  <1>1. /\ before \in Seq(Users) /\ Len(before) <= Len(lru) /\ Distinct(before)
        /\ Elems(before) = Tracked \ {u}
    BY WithoutOne DEF LruInv, Tracked
  <1>2. /\ Len(before) \in Nat /\ Len(lru) \in Nat /\ MaxTracked \in Nat \ {0}
        /\ Len(lru) <= MaxTracked /\ u \notin Elems(before)
    BY <1>1, TrackedAssumption DEF LruInv
  <1> HIDE DEF before
  <1>3. /\ order \in Seq(Users) /\ Distinct(order) /\ Len(order) = Len(before) + 1
        /\ order[Len(before) + 1] = u
        /\ Elems(order) = Elems(before) \cup {u}
    BY <1>1, <1>2, AppendedOne DEF before, Touched
  <1>4. Elems(order) = Tracked \cup {u}
    BY <1>1, <1>3
  <1> HIDE DEF order
  <1>5. CASE Len(order) > MaxTracked
    <2>1. out = {order[1]} /\ rest = Tail(order)
      BY <1>5 DEF Victims
    <2>2. Len(order) > 1 /\ Len(order) - 1 <= MaxTracked
      BY <1>1, <1>2, <1>3, <1>5
    <2>3. order[1] \in Users /\ order[1] # u
      <3>1. 1 \in 1 .. Len(order) /\ Len(order) \in 1 .. Len(order)
            /\ Len(before) + 1 = Len(order) /\ 1 # Len(order)
        BY <1>2, <1>3, <2>2
      <3>2. order[1] # order[Len(order)]
        BY <1>3, <3>1 DEF Distinct
      <3>3. order[1] \in Users
        BY <1>3, <3>1
      <3>4. QED
        BY <1>3, <3>1, <3>2, <3>3
    <2>4. /\ rest \in Seq(Users) /\ Distinct(rest) /\ Len(rest) = Len(order) - 1
          /\ Elems(rest) = Elems(order) \ {order[1]}
      <3>1. Len(order) > 0
        BY <1>2, <1>3, <2>2
      <3>2. /\ Tail(order) \in Seq(Users) /\ Distinct(Tail(order))
            /\ Len(Tail(order)) = Len(order) - 1
            /\ Elems(Tail(order)) = Elems(order) \ {order[1]}
        BY <1>3, <3>1, WithoutFirst
      <3>3. QED
        BY <2>1, <3>2
    <2>5. QED
      BY <1>4, <2>1, <2>2, <2>3, <2>4 DEF order
  <1>6. CASE ~(Len(order) > MaxTracked)
    <2>1. out = {} /\ rest = order
      BY <1>6 DEF Victims
    <2>2. Len(order) <= MaxTracked
      BY <1>2, <1>3, <1>6
    <2>3. QED
      BY <1>3, <1>4, <2>1, <2>2 DEF order
  <1>7. QED
    BY <1>5, <1>6

LEMMA DivIsNat ==
  ASSUME NEW a \in Nat
  PROVE  a \div 100 \in Nat
  OBVIOUS

LEMMA ClampBounds ==
  ASSUME NEW b \in Nat
  PROVE  Clamp(b) \in 100 .. 1000
  BY DEF Clamp

LEMMA ProfileTyped ==
  ASSUME TypeInv, NEW u \in Users, NEW in \in Inputs, Profile(u, in)
  PROVE  base' \in [Users -> Nat]
  <1>1. in.rpm \in Nat /\ base[u] \in Nat /\ base \in [Users -> Nat]
    BY InputsAssumption DEF TypeInv
  <1> DEFINE b    == Clamp(base[u])
             rule == Rule(in.rpm, in.recent, in.failed, b)
             first == IF in.rpm > 5 THEN 100 * in.rpm ELSE 500
             next == NewBase(b, in.rpm, rule)
  <1>2. b \in Nat
    <2>1. b \in 100 .. 1000
      BY <1>1, ClampBounds
    <2> HIDE DEF b
    <2>2. QED
      BY <2>1
  <1> HIDE DEF b, rule
  <1>3. next \in Nat
    <2>1. 99 * b + 100 * in.rpm \in Nat
      BY <1>1, <1>2
    <2>2. (99 * b + 100 * in.rpm) \div 100 \in Nat
      BY <2>1, DivIsNat
    <2>3. QED
      BY <1>2, <2>2 DEF NewBase
  <1>4. first \in Nat
    BY <1>1
  <1>5. base' = [base EXCEPT ![u] = IF @ = 0 THEN first ELSE next]
    BY DEF Profile, b, rule
  <1> HIDE DEF first, next
  <1>6. QED
    BY <1>1, <1>3, <1>4, <1>5

LEMMA ObserveMemory ==
  ASSUME TypeInv, NEW u \in Users, NEW in \in Inputs, Observe(u, in)
  PROVE  /\ TypeInv'
         /\ MemInv /\ "evict" \notin Races => MemInv'
  <1> DEFINE order == Touched(u)
             out   == Victims(order)
             rest  == IF out = {} THEN order ELSE Tail(order)
             n     == IF samples[u] < MaxSamples THEN samples[u] + 1 ELSE MaxSamples
  <1>1. /\ out \subseteq Users /\ u \notin out
        /\ rest \in Seq(Users) /\ Distinct(rest) /\ Len(rest) <= MaxTracked
        /\ Elems(rest) = (Tracked \cup {u}) \ out
    BY ObservedOrder DEF TypeInv
  <1>2. /\ requests < MaxRequests /\ requests' = requests + 1
        /\ (work.pc = "fit" /\ "evict" \notin Races) => work.user \notin out
        /\ lru' = rest
        /\ samples' = [v \in Users |->
                          IF v = u THEN n ELSE IF v \in out THEN 0 ELSE samples[v]]
        /\ since' = [v \in Users |->
                        IF v = u THEN since[u] + 1 ELSE IF v \in out THEN 0 ELSE since[v]]
        /\ models' = [v \in Users |-> IF v \in out THEN 0 ELSE models[v]]
        /\ Profile(u, in)
        /\ UNCHANGED <<work, disk, broken, faults>>
    BY DEF Observe
  <1>3. /\ queue' = Append(queue, u) \/ queue' = queue
        /\ inflight' = inflight \cup {u} \/ inflight' = inflight
    BY DEF Observe, Schedule
  <1>4. queue' \in Seq(Users)
    <2>1. queue \in Seq(Users)
      BY DEF TypeInv
    <2>2. Append(queue, u) \in Seq(Users)
      BY <2>1
    <2>3. QED
      BY <1>3, <2>1, <2>2
  <1>5. base' \in [Users -> Nat]
    BY <1>2, ProfileTyped
  <1>6. n \in Sizes
    BY SamplesAssumption DEF TypeInv, Sizes
  <1>7. requests' \in 0 .. MaxRequests
    BY <1>2, BoundAssumption DEF TypeInv
  <1> HIDE DEF out, rest, n
  <1>8. samples' \in [Users -> Sizes] /\ models' \in [Users -> Sizes]
    <2>1. 0 \in Sizes
      BY SamplesAssumption DEF Sizes
    <2>2. QED
      BY <1>2, <1>6, <2>1 DEF TypeInv
  <1>9. since' \in [Users -> Nat]
    BY <1>2 DEF TypeInv
  <1>10. LruInv'
    BY <1>1, <1>2 DEF LruInv, Distinct
  <1>11. TypeInv'
    BY <1>2, <1>3, <1>4, <1>5, <1>7, <1>8, <1>9, <1>10 DEF TypeInv
  <1>12. ASSUME MemInv, "evict" \notin Races
         PROVE  MemInv'
    <2>1. Tracked' = (Tracked \cup {u}) \ out
      BY <1>1, <1>2 DEF Tracked
    <2>2. Modelled' \subseteq Tracked'
      BY <1>2, <1>12, <2>1 DEF MemInv, Modelled
    <2>3. ASSUME NEW v \in Users, samples'[v] > 0
          PROVE  v \in Tracked'
      <3>1. CASE v = u
        BY <1>1, <2>1, <3>1
      <3>2. CASE v # u
        <4>1. v \notin out /\ samples'[v] = samples[v]
          BY <1>2, <2>3, <3>2
        <4>2. QED
          BY <1>12, <2>1, <2>3, <4>1 DEF MemInv
      <3>3. QED
        BY <3>1, <3>2
    <2>4. work'.pc = "fit" => work'.user \in Tracked'
      BY <1>2, <1>12, <2>1 DEF MemInv
    <2>5. QED
      BY <1>11, <2>2, <2>3, <2>4 DEF MemInv
  <1>13. QED
    BY <1>11, <1>12

LEMMA AtWork ==
  ASSUME TypeInv, work.pc # "idle"
  PROVE  work \in Jobs /\ work.user \in Users /\ work.size \in Sizes
  BY DEF TypeInv, Idle, Jobs

LEMMA WorkerMemory ==
  ASSUME TypeInv, Worker
  PROVE  /\ TypeInv'
         /\ MemInv => MemInv'
  <1>1. ASSUME UNCHANGED <<lru, samples, base, requests>>,
               models' \in [Users -> Sizes], since' \in [Users -> Nat], inflight' \subseteq Users,
               queue' \in Seq(Users), work' \in {Idle} \cup Jobs,
               disk' \in [Users -> File], broken' \subseteq Users, faults' \in 0 .. MaxFaults
        PROVE  TypeInv'
    BY <1>1 DEF TypeInv, LruInv
  <1>2. ASSUME MemInv, TypeInv', UNCHANGED <<lru, samples>>,
               \A u \in Users : models'[u] # 0 => u \in Tracked,
               work'.pc = "fit" => work'.user \in Tracked
        PROVE  MemInv'
    BY <1>2 DEF MemInv, Tracked, Modelled
  <1>3. /\ Idle.pc # "fit"
        /\ 0 \in Sizes /\ \A n \in Sizes : n \in Nat
        /\ \A u \in Users, p \in {"short", "fit", "open", "dump", "sign"}, n \in Sizes :
              [pc |-> p, user |-> u, size |-> n] \in Jobs
    BY SamplesAssumption DEF Idle, Jobs, Sizes
  <1>4. CASE Snapshot
    <2>1. queue' \in Seq(Users) /\ Head(queue) \in Users
      BY <1>4 DEF Snapshot, TypeInv
    <2>2. PICK u \in Users : u = Head(queue)
      BY <2>1
    <2>3. /\ work' = [pc   |-> IF samples[u] < MinSamples THEN "short" ELSE "fit",
                      user |-> u, size |-> samples[u]]
          /\ UNCHANGED <<lru, samples, models, since, inflight, disk, base, broken,
                         requests, faults>>
      BY <1>4, <2>2 DEF Snapshot, Begin, memory
    <2>4. work' \in Jobs
      BY <1>3, <2>3 DEF TypeInv
    <2>5. TypeInv'
      BY <1>1, <2>1, <2>3, <2>4 DEF TypeInv
    <2>6. ASSUME MemInv
          PROVE  MemInv'
      <3>1. work'.pc = "fit" => work'.user \in Tracked
        <4>1. CASE samples[u] < MinSamples
          BY <2>3, <4>1
        <4>2. CASE ~(samples[u] < MinSamples)
          <5>1. samples[u] > 0
            BY <4>2, SamplesAssumption DEF TypeInv, Sizes
          <5>2. QED
            BY <2>3, <2>6, <5>1 DEF MemInv
        <4>3. QED
          BY <4>1, <4>2
      <3>2. QED
        BY <1>2, <2>3, <2>5, <2>6, <3>1 DEF MemInv, Modelled
    <2>7. QED
      BY <2>5, <2>6
  <1>5. CASE Short \/ FitFail
    <2>1. /\ work' = Idle /\ models' = [models EXCEPT ![work.user] = 0]
          /\ inflight' \subseteq inflight
          /\ UNCHANGED <<lru, samples, since, queue, disk, base, requests>>
          /\ broken' = broken \/ broken' = broken \cup {work.user}
          /\ faults' = faults \/ (faults < MaxFaults /\ faults' = faults + 1)
          /\ work.user \in Users
      BY <1>5, AtWork DEF Short, FitFail, Finish
    <2>2. faults' \in 0 .. MaxFaults
      BY <2>1, BoundAssumption DEF TypeInv
    <2>3. models' \in [Users -> Sizes]
      BY <1>3, <2>1 DEF TypeInv
    <2>4. TypeInv'
      BY <1>1, <2>1, <2>2, <2>3 DEF TypeInv
    <2>5. MemInv => MemInv'
      BY <1>2, <1>3, <2>1, <2>4 DEF MemInv, TypeInv, Modelled
    <2>6. QED
      BY <2>4, <2>5
  <1>6. CASE Land
    <2>1. /\ work' = [pc |-> "open", user |-> work.user, size |-> work.size]
          /\ models' = [models EXCEPT ![work.user] = work.size]
          /\ since' = [since EXCEPT ![work.user] = 0] /\ broken' = broken \ {work.user}
          /\ UNCHANGED <<lru, samples, inflight, queue, disk, base, requests, faults>>
          /\ work.user \in Users /\ work.size \in Sizes /\ work.pc = "fit"
      BY <1>6, AtWork DEF Land, Begin, Goto
    <2>2. work' \in Jobs /\ work'.pc = "open" /\ since' \in [Users -> Nat]
          /\ models' \in [Users -> Sizes]
      BY <1>3, <2>1 DEF TypeInv
    <2>3. TypeInv'
      BY <1>1, <2>1, <2>2 DEF TypeInv
    <2>4. MemInv => MemInv'
      BY <1>2, <2>1, <2>2, <2>3 DEF MemInv, TypeInv, Modelled
    <2>5. QED
      BY <2>3, <2>4
  <1>7. CASE Open \/ Dump
    <2>1. /\ UNCHANGED <<lru, samples, models, since, inflight, queue, base, broken,
                         requests, faults>>
          /\ work.user \in Users /\ work.size \in Sizes
      BY <1>7, AtWork DEF Open, Dump, memory
    <2>2. work' \in {Idle} \cup Jobs /\ work'.pc # "fit"
      <3>1. \/ work' = [pc |-> "dump", user |-> work.user, size |-> work.size]
            \/ work' = [pc |-> "sign", user |-> work.user, size |-> work.size]
        BY <1>7 DEF Open, Dump, Begin, Goto
      <3>2. QED
        BY <1>3, <2>1, <3>1
    <2>3. disk' \in [Users -> File]
      <3>1. disk[work.user] \in File
        BY <2>1 DEF TypeInv
      <3>2. CASE Open
        <4>1. [data |-> 0, sig |-> IF disk[work.user].sig = "match" THEN "other"
                                   ELSE disk[work.user].sig] \in File
          BY <1>3, <3>1 DEF File
        <4>2. QED
          BY <3>2, <4>1 DEF Open, TypeInv
      <3>3. CASE Dump
        <4>1. [disk[work.user] EXCEPT !.data = work.size] \in File
          BY <2>1, <3>1 DEF File
        <4>2. QED
          BY <3>3, <4>1 DEF Dump, TypeInv
      <3>4. QED
        BY <1>7, <3>2, <3>3
    <2>4. TypeInv'
      BY <1>1, <2>1, <2>2, <2>3 DEF TypeInv
    <2>5. MemInv => MemInv'
      BY <1>2, <2>1, <2>2, <2>4 DEF MemInv, Modelled
    <2>6. QED
      BY <2>4, <2>5
  <1>8. CASE Sign \/ PersistFail
    <2>1. /\ UNCHANGED <<lru, samples, models, since, queue, base, broken, requests>>
          /\ work' = Idle /\ inflight' \subseteq inflight
          /\ disk' = [disk EXCEPT ![work.user].sig = "match"] \/ disk' = disk
          /\ faults' = faults \/ (faults < MaxFaults /\ faults' = faults + 1)
          /\ work.user \in Users
      BY <1>8, AtWork DEF Sign, PersistFail, Finish, memory
    <2>2. disk' \in [Users -> File]
      <3>1. [disk[work.user] EXCEPT !.sig = "match"] \in File
        BY <2>1 DEF TypeInv, File
      <3>2. QED
        BY <2>1, <3>1 DEF TypeInv
    <2>3. faults' \in 0 .. MaxFaults
      BY <2>1, BoundAssumption DEF TypeInv
    <2>4. TypeInv'
      BY <1>1, <2>1, <2>2, <2>3 DEF TypeInv
    <2>5. MemInv => MemInv'
      BY <1>2, <1>3, <2>1, <2>4 DEF MemInv, Modelled
    <2>6. QED
      BY <2>4, <2>5
  <1>9. QED
    BY <1>4, <1>5, <1>6, <1>7, <1>8 DEF Worker

\* A start loads models of distinct users, up to the cap.
LEMMA RestartMemory ==
  ASSUME TypeInv, Restart \/ RotateKey
  PROVE  TypeInv' /\ MemInv'
  <1>1. /\ samples' = [u \in Users |-> 0] /\ since' = [u \in Users |-> 0]
        /\ inflight' = {} /\ queue' = <<>> /\ work' = Idle
        /\ UNCHANGED <<base, broken, requests>>
        /\ faults < MaxFaults /\ faults' = faults + 1
    BY DEF Restart, RotateKey
  <1>2. disk' \in [Users -> File]
    <2>1. \A u \in Users : [disk[u] EXCEPT !.sig = IF @ = "match" THEN "other" ELSE @] \in File
      BY DEF TypeInv, File
    <2>2. QED
      BY <2>1 DEF Restart, RotateKey, TypeInv
  <1>3. LruInv' /\ Modelled' \subseteq Tracked' /\ models' \in [Users -> Sizes]
    <2>1. CASE Restart
      <3> DEFINE m == Cardinality(Trusted)
                 n == IF m < MaxTracked THEN m ELSE MaxTracked
      <3>1. m \in Nat
        <4>1. Trusted \subseteq Users
          BY DEF Trusted
        <4>2. QED
          BY <4>1, UsersAssumption, FS_Subset, FS_CardinalityType
      <3>2. n \in Nat /\ n <= MaxTracked
        BY <3>1, TrackedAssumption
      <3>3. PICK s \in Loads(Trusted) :
               /\ lru' = s
               /\ models' = [u \in Users |-> IF u \in Elems(s) THEN disk[u].data ELSE 0]
        BY <2>1 DEF Restart
      <3>4. /\ s \in [1 .. n -> Trusted]
            /\ \A i, j \in 1 .. n : i # j => s[i] # s[j]
        BY <3>3 DEF Loads
      <3> HIDE DEF n
      <3>5. s \in [1 .. n -> Users]
        BY <3>4 DEF Trusted
      <3>6. s \in Seq(Users) /\ Len(s) = n
        BY <3>2, <3>5
      <3>7. Distinct(s)
        BY <3>4, <3>6 DEF Distinct
      <3>8. Modelled' \subseteq Elems(s)
        BY <3>3 DEF Modelled
      <3>9. models' \in [Users -> Sizes]
        <4>1. 0 \in Sizes /\ \A u \in Users : disk[u].data \in Sizes
          BY SamplesAssumption DEF TypeInv, File, Sizes
        <4>2. QED
          BY <3>3, <4>1
      <3>10. QED
        BY <3>2, <3>3, <3>6, <3>7, <3>8, <3>9 DEF LruInv, Distinct, Tracked
    <2>2. CASE RotateKey
      <3>1. lru' = <<>> /\ models' = [u \in Users |-> 0]
        BY <2>2 DEF RotateKey
      <3>2. LruInv'
        BY <3>1, TrackedAssumption DEF LruInv, Distinct
      <3>3. Modelled' = {} /\ models' \in [Users -> Sizes]
        BY <3>1, SamplesAssumption DEF Modelled, Sizes
      <3>4. QED
        BY <3>1, <3>2, <3>3
    <2>3. QED
      BY <2>1, <2>2
  <1>4. faults' \in 0 .. MaxFaults
    BY <1>1, BoundAssumption DEF TypeInv
  <1>5. samples' \in [Users -> Sizes] /\ since' \in [Users -> Nat]
    BY <1>1, SamplesAssumption DEF Sizes
  <1>6. TypeInv'
    BY <1>1, <1>2, <1>3, <1>4, <1>5 DEF TypeInv
  <1>7. /\ \A u \in Users : ~(samples'[u] > 0)
        /\ work'.pc # "fit"
    BY <1>1 DEF Idle
  <1>8. QED
    BY <1>3, <1>6, <1>7 DEF MemInv

LEMMA MemoryInit == Init => MemInv
  <1> SUFFICES ASSUME Init PROVE MemInv
    OBVIOUS
  <1>1. LruInv
    BY TrackedAssumption DEF Init, LruInv, Distinct
  <1>2. /\ samples \in [Users -> Sizes] /\ models \in [Users -> Sizes]
        /\ disk \in [Users -> File]
    BY SamplesAssumption DEF Init, Sizes, File, NoFile
  <1>3. requests \in 0 .. MaxRequests /\ faults \in 0 .. MaxFaults
    BY BoundAssumption DEF Init
  <1>4. TypeInv
    BY <1>1, <1>2, <1>3 DEF Init, TypeInv
  <1>5. Modelled = {} /\ (\A u \in Users : ~(samples[u] > 0)) /\ work.pc # "fit"
    BY DEF Init, Idle, Modelled
  <1>6. QED
    BY <1>4, <1>5 DEF MemInv

LEMMA MemoryNext ==
  ASSUME TypeInv, [Next]_vars
  PROVE  /\ TypeInv'
         /\ MemInv /\ "evict" \notin Races => MemInv'
  <1>1. CASE Quiet \/ UNCHANGED vars
    <2>1. TypeInv'
      BY <1>1 DEF Quiet, vars, TypeInv, LruInv, Distinct
    <2>2. MemInv => MemInv'
      BY <1>1, <2>1 DEF Quiet, vars, MemInv, Tracked, Elems, Modelled
    <2>3. QED
      BY <2>1, <2>2
  <1>2. QED
    BY <1>1, ObserveMemory, WorkerMemory, RestartMemory DEF Next

\* A list without duplicates has as many users as entries.
LEMMA DistinctSize ==
  ASSUME NEW s \in Seq(Users), Distinct(s)
  PROVE  Len(s) = Cardinality(Elems(s))
  <1>1. Len(s) \in Nat /\ DOMAIN s = 1 .. Len(s)
    OBVIOUS
  <1>2. IsFiniteSet(1 .. Len(s)) /\ Cardinality(1 .. Len(s)) = Len(s)
    BY <1>1, FS_Interval
  <1>3. s \in [1 .. Len(s) -> Elems(s)]
    BY <1>1 DEF Elems
  <1>4. s \in Bijection(1 .. Len(s), Elems(s))
    <2>1. \A x \in Elems(s) : \E i \in 1 .. Len(s) : s[i] = x
      BY ElemsAre
    <2>2. QED
      BY <1>3, <2>1 DEF Distinct, Bijection, Injection, Surjection, IsInjective
  <1>5. Cardinality(1 .. Len(s)) = Cardinality(Elems(s))
    BY <1>2, <1>4, FS_Bijection DEF ExistsBijection
  <1>6. QED
    BY <1>2, <1>5

\* The dictionaries, the queue and the files hold what they may, and the order of
\* eviction lists every tracked user once (ml_anomaly.py:95-128, 284-335).
THEOREM AnomalyTypeCorrect == Spec => []TypeOK
  <1>1. TypeInv => TypeOK
    <2> SUFFICES ASSUME TypeInv PROVE TypeOK
      OBVIOUS
    <2>1. lru \in Seq(Users) /\ Len(lru) = Cardinality(Tracked)
      BY DistinctSize DEF TypeInv, LruInv, Tracked
    <2>2. Tracked \subseteq Users
      BY <2>1, ElemsAre DEF Tracked
    <2>3. QED
      BY <2>1, <2>2 DEF TypeInv, TypeOK
  <1>2. Init => TypeInv
    BY MemoryInit DEF MemInv
  <1>3. TypeInv /\ [Next]_vars => TypeInv'
    BY MemoryNext
  <1>4. QED
    BY <1>1, <1>2, <1>3, PTL DEF Spec

\* No more users than the cap have a history, and no model is kept of a user who
\* has none: through requests, fits, failures, crashes and starts, as long as
\* nobody is evicted while his model is fitted (ml_anomaly.py:79-98, 120-128).
THEOREM MemoryIsBounded ==
  ASSUME "evict" \notin Races
  PROVE  Spec => []MemoryBounded
  <1>1. MemInv => MemoryBounded
    BY DEF MemInv, TypeInv, LruInv, MemoryBounded
  <1>2. MemInv /\ [Next]_vars => MemInv'
    BY MemoryNext DEF MemInv
  <1>3. QED
    BY <1>1, <1>2, MemoryInit, PTL DEF Spec

-----------------------------------------------------------------------------
(* A spike is reported *)

\* Whatever the failures of the window and the forest say, a spike is what is
\* reported: a request rate that is a spike for a clamped baseline has the
\* highest risk there is.
LEMMA SpikeStands ==
  ASSUME NEW base0 \in Nat, NEW rpm \in Nat, NEW recent \in Nat, NEW f \in Nat,
         NEW ml \in Nat, ml <= 950, Spike(rpm, recent, Clamp(base0))
  PROVE  Elevates(Verdict(Rule(rpm, recent, f, Clamp(base0)), ml))
  <1>1. PICK b \in 100 .. 1000 : b = Clamp(base0)
    BY ClampBounds
  <1>2. 100 * rpm > 4000 /\ Spike(rpm, recent, b)
    <2>1. Spike(rpm, recent, b)
      BY <1>1
    <2>2. Threshold(b) = 4000
      BY DEF Threshold
    <2>3. QED
      BY <2>1, <2>2 DEF Spike
  <1>3. SpikeRisk(rpm, b) = 950
    <2>1. (10000 * rpm) \div b \in Int /\ 400 <= (10000 * rpm) \div b
      <3> DEFINE q == (10000 * rpm) \div b
                 r == (10000 * rpm) % b
      <3>1. 10000 * rpm \in Nat /\ b \in Nat \ {0}
        OBVIOUS
      <3>2. q \in Int /\ r \in 0 .. b - 1 /\ 10000 * rpm = b * q + r
        BY <3>1
      <3> HIDE DEF q, r
      <3>3. 10000 * rpm >= 410000
        BY <1>2
      <3>4. ASSUME q <= 399
            PROVE  FALSE
        <4>1. b * q <= b * 399
          BY <3>1, <3>2, <3>4
        <4>2. QED
          BY <3>2, <3>3, <4>1
      <3>5. q >= 400
        BY <3>2, <3>4
      <3>6. QED
        BY <3>2, <3>5 DEF q
    <2>2. QED
      BY <2>1 DEF SpikeRisk
  <1>4. ~(FailureRisk(f) > SpikeRisk(rpm, b))
    <2>1. FailureRisk(f) <= 900 /\ FailureRisk(f) \in Nat
      BY DEF FailureRisk
    <2>2. QED
      BY <1>3, <2>1
  <1>5. Rule(rpm, recent, f, b) = [type |-> "behavior_anomaly", risk |-> 950]
    BY <1>2, <1>3, <1>4 DEF Rule
  <1>6. Verdict(Rule(rpm, recent, f, b), ml) = [type |-> "behavior_anomaly", risk |-> 950]
    BY <1>5 DEF Verdict
  <1>7. QED
    BY <1>1, <1>6 DEF Elevates

\* Whatever has become of an account's baseline, a flood of its requests raises its
\* risk (behavior.py:135-195, logging.py:220-234).
THEOREM SpikeIsNotMasked == Spec => []SpikeNotMasked
  <1>1. TypeInv => SpikeNotMasked
    <2> SUFFICES ASSUME TypeInv, NEW u \in Users, NEW rpm \in {41, 140, 400},
                        NEW failed \in {0, 6, 8, 400}, NEW ml \in {0, 620, 950},
                        Spike(rpm, 5, Clamp(base[u]))
                 PROVE  Elevates(Verdict(Rule(rpm, 5, failed, Clamp(base[u])), ml))
      BY DEF SpikeNotMasked
    <2>1. base[u] \in Nat /\ rpm \in Nat /\ failed \in Nat /\ ml \in Nat /\ ml <= 950
      BY DEF TypeInv
    <2>2. QED
      BY <2>1, SpikeStands
  <1>2. Init => TypeInv
    BY MemoryInit DEF MemInv
  <1>3. TypeInv /\ [Next]_vars => TypeInv'
    BY MemoryNext
  <1>4. QED
    BY <1>1, <1>2, <1>3, PTL DEF Spec

-----------------------------------------------------------------------------
(* Halving adds up *)

LEMMA PowerCard ==
  ASSUME NEW n \in Nat
  PROVE  /\ IsFiniteSet(SUBSET (1 .. n))
         /\ Cardinality(SUBSET (1 .. n)) = 2 ^ n
  <1>1. IsFiniteSet(1 .. n) /\ Cardinality(1 .. n) = n
    BY FS_Interval
  <1>2. QED
    BY <1>1, FS_SUBSET

LEMMA PowerPositive ==
  ASSUME NEW n \in Nat
  PROVE  2 ^ n \in Nat \ {0}
  <1>1. Cardinality(SUBSET (1 .. n)) \in Nat
    BY PowerCard, FS_CardinalityType
  <1>2. Cardinality(SUBSET (1 .. n)) # 0
    <2>1. SUBSET (1 .. n) # {}
      OBVIOUS
    <2>2. IsFiniteSet(SUBSET (1 .. n))
      BY PowerCard
    <2>3. QED
      BY <2>1, <2>2, FS_EmptySet, Zenon
  <1>3. QED
    BY <1>1, <1>2, PowerCard

LEMMA PowerZero == 2 ^ 0 = 1
  <1>1. 1 .. 0 = {}
    OBVIOUS
  <1>2. SUBSET {} = {{}}
    OBVIOUS
  <1>3. Cardinality({{}}) = 1
    BY FS_Singleton
  <1>4. QED
    BY <1>1, <1>2, <1>3, PowerCard

\* A subset of 1 .. m + n is one of 1 .. m and one of the rest.
LEMMA PowerSum ==
  ASSUME NEW m \in Nat, NEW n \in Nat
  PROVE  2 ^ (m + n) = 2 ^ m * 2 ^ n
  <1> DEFINE A == 1 .. m
             B == m + 1 .. m + n
             C == 1 .. m + n
             P == (SUBSET A) \X (SUBSET B)
             f == [x \in P |-> x[1] \cup x[2]]
  <1>1. IsFiniteSet(A) /\ Cardinality(A) = m
    BY FS_Interval
  <1>2. IsFiniteSet(B) /\ Cardinality(B) = n
    BY FS_Interval
  <1>3. IsFiniteSet(C) /\ Cardinality(C) = m + n
    <2>1. m + n \in Nat
      OBVIOUS
    <2>2. /\ IsFiniteSet(1 .. m + n)
          /\ Cardinality(1 .. m + n) = IF 1 > m + n THEN 0 ELSE m + n - 1 + 1
      BY <2>1, FS_Interval
    <2>3. QED
      BY <2>1, <2>2
  <1>4. C = A \cup B /\ A \cap B = {}
    OBVIOUS
  <1> HIDE DEF A, B, C
  <1>5. f \in Bijection(P, SUBSET C)
    <2>1. f \in [P -> SUBSET C]
      BY <1>4
    <2>2. ASSUME NEW x \in P, NEW y \in P, f[x] = f[y]
          PROVE  x = y
      <3>1. x = <<x[1], x[2]>> /\ y = <<y[1], y[2]>>
        OBVIOUS
      <3>2. x[1] \subseteq A /\ x[2] \subseteq B /\ y[1] \subseteq A /\ y[2] \subseteq B
        OBVIOUS
      <3>3. x[1] \cup x[2] = y[1] \cup y[2]
        BY <2>2
      <3>4. x[1] = y[1] /\ x[2] = y[2]
        BY <1>4, <3>2, <3>3
      <3>5. QED
        BY <3>1, <3>4
    <2>3. ASSUME NEW Z \in SUBSET C
          PROVE  \E x \in P : f[x] = Z
      <3>1. <<Z \cap A, Z \cap B>> \in P
        OBVIOUS
      <3>2. f[<<Z \cap A, Z \cap B>>] = Z
        BY <1>4, <3>1
      <3>3. QED
        BY <3>1, <3>2
    <2>4. QED
      BY <2>1, <2>2, <2>3 DEF Bijection, Injection, Surjection, IsInjective
  <1>6. IsFiniteSet(SUBSET A) /\ Cardinality(SUBSET A) = 2 ^ m
    BY <1>1, FS_SUBSET
  <1>7. IsFiniteSet(SUBSET B) /\ Cardinality(SUBSET B) = 2 ^ n
    BY <1>2, FS_SUBSET
  <1>8. Cardinality(SUBSET C) = 2 ^ (m + n)
    BY <1>3, FS_SUBSET
  <1>9. IsFiniteSet(P) /\ Cardinality(P) = 2 ^ m * 2 ^ n
    BY <1>6, <1>7, FS_Product
  <1>10. ExistsBijection(P, SUBSET C)
    BY <1>5 DEF ExistsBijection
  <1>11. Cardinality(SUBSET C) = Cardinality(P)
    BY <1>9, <1>10, FS_Bijection
  <1>12. QED
    BY <1>8, <1>9, <1>11

LEMMA DivTwice ==
  ASSUME NEW a \in Nat, NEW m \in Nat \ {0}, NEW n \in Nat \ {0}
  PROVE  (a \div m) \div n = a \div (m * n)
  OBVIOUS

\* Halving in two stretches of time is halving in one.
LEMMA HalvedTwice ==
  ASSUME NEW a \in Nat, NEW m \in Nat, NEW n \in Nat
  PROVE  (a \div 2 ^ m) \div 2 ^ n = a \div 2 ^ (m + n)
  <1> DEFINE p == 2 ^ m
             q == 2 ^ n
  <1>1. p \in Nat \ {0} /\ q \in Nat \ {0}
    BY PowerPositive
  <1>2. 2 ^ (m + n) = p * q
    BY PowerSum
  <1> HIDE DEF p, q
  <1>3. (a \div p) \div q = a \div (p * q)
    BY <1>1, DivTwice
  <1>4. QED
    BY <1>2, <1>3 DEF p, q

LEMMA HalvedType ==
  ASSUME NEW a \in Nat, NEW n \in Nat
  PROVE  a \div 2 ^ n \in 0 .. a
  <1> DEFINE p == 2 ^ n
  <1>1. p \in Nat \ {0}
    BY PowerPositive
  <1> HIDE DEF p
  <1>2. a \div p \in 0 .. a
    BY <1>1
  <1>3. QED
    BY <1>2 DEF p

-----------------------------------------------------------------------------
(* The stored score *)

\* The types, and no anchor lies in the future of who reads it.
AgeInv ==
    /\ ScoreTypeOK
    /\ user.at <= now
    /\ \A c \in Requests :
          req[c].op # "none" => req[c].snap.at <= req[c].at /\ req[c].at <= now

LEMMA HandlerHolds ==
  ASSUME AgeInv, NEW c \in Requests, req[c].op # "none"
  PROVE  /\ req[c].op \in {"elevate", "decay", "reset"}
         /\ req[c].snap \in UserRow /\ req[c].at \in Nat /\ req[c].amount \in Nat
         /\ req[c].snap.score \in Score /\ req[c].snap.at \in Nat
         /\ req[c].at - req[c].snap.at \in Nat
         /\ now - req[c].snap.at \in Nat
  <1>1. req[c] \in [op : {"elevate", "decay", "reset"}, snap : UserRow, at : Nat,
                    amount : Amounts \cup {0}]
    BY DEF AgeInv, ScoreTypeOK, Handlers, IdleHandler, Handler
  <1>2. req[c].amount \in Nat
    <2>1. req[c].amount \in Amounts \cup {0}
      BY <1>1
    <2>2. QED
      BY <2>1, AmountsAssumption, 0 \in Nat
  <1>3. req[c].snap.at <= req[c].at /\ req[c].at <= now /\ now \in Nat
    BY DEF AgeInv, ScoreTypeOK
  <1>4. /\ req[c].op \in {"elevate", "decay", "reset"}
        /\ req[c].snap \in UserRow /\ req[c].at \in Nat
    BY <1>1
  <1>5. req[c].snap.score \in Score /\ req[c].snap.at \in Nat
    BY <1>4 DEF UserRow
  <1>6. req[c].at - req[c].snap.at \in Nat /\ now - req[c].snap.at \in Nat
    BY <1>3, <1>4, <1>5
  <1>7. QED
    BY <1>2, <1>4, <1>5, <1>6

LEMMA RaisedType ==
  ASSUME AgeInv, NEW c \in Requests, req[c].op # "none"
  PROVE  /\ Raised(req[c]) \in Score
         /\ Decayed(req[c].snap, now) \in Score
  <1> DEFINE r == req[c]
  <1>1. /\ r.snap.score \in Score /\ r.amount \in Nat
        /\ r.at - r.snap.at \in Nat /\ now - r.snap.at \in Nat
    BY HandlerHolds
  <1>2. r.snap.score \in Nat /\ r.snap.score <= Top /\ Top \in Nat
    BY <1>1, TopAssumption DEF Score
  <1>3. /\ Decayed(r.snap, r.at) \in 0 .. r.snap.score
        /\ Decayed(r.snap, now) \in 0 .. r.snap.score
    BY <1>1, <1>2, HalvedType DEF Decayed
  <1>4. QED
    BY <1>1, <1>2, <1>3 DEF Raised, Score

LEMMA ScoreDone ==
  ASSUME AgeInv, NEW c \in Requests, Done(c)
  PROVE  /\ req' \in [Requests -> Handlers]
         /\ req'[c] = IdleHandler
         /\ \A d \in Requests : req'[d].op # "none" => d # c /\ req'[d] = req[d]
  BY DEF Done, AgeInv, ScoreTypeOK, Handlers, IdleHandler, Handler

LEMMA AgeStep == AgeInv /\ [ScoreNext]_scoreVars => AgeInv'
  <1> SUFFICES ASSUME AgeInv, [ScoreNext]_scoreVars
               PROVE  AgeInv'
    OBVIOUS
  <1>0. now \in Nat /\ user \in UserRow /\ user.at \in Nat /\ user.score \in Score
        /\ user.at <= now
    BY DEF AgeInv, ScoreTypeOK, UserRow
  <1>1. ASSUME NEW c \in Requests, NEW op \in {"elevate", "decay", "reset"},
               NEW amount \in Amounts \cup {0}, Start(c, op, amount)
        PROVE  AgeInv'
    <2> DEFINE h == [op |-> op, snap |-> user, at |-> now, amount |-> amount]
    <2>1. h \in Handlers
      BY <1>0 DEF Handlers
    <2>2. req' = [req EXCEPT ![c] = h] /\ UNCHANGED <<now, user, peak>>
      BY <1>1 DEF Start, Handler
    <2>3. req' \in [Requests -> Handlers]
      BY <2>1, <2>2 DEF AgeInv, ScoreTypeOK
    <2>4. ASSUME NEW d \in Requests, req'[d].op # "none"
          PROVE  req'[d].snap.at <= req'[d].at /\ req'[d].at <= now
      BY <1>0, <2>2, <2>4 DEF AgeInv, ScoreTypeOK
    <2>5. QED
      BY <2>2, <2>3, <2>4 DEF AgeInv, ScoreTypeOK
  <1>2. ASSUME NEW c \in Requests, Done(c), UNCHANGED now, user' \in UserRow,
               user'.at <= now, peak' \in [score : Score, at : Nat]
        PROVE  AgeInv'
    BY <1>2, ScoreDone DEF AgeInv, ScoreTypeOK
  <1>3. ASSUME NEW c \in Requests, Elevate(c)
        PROVE  AgeInv'
    <2> DEFINE r == req[c]
    <2>1. req[c].op # "none"
      BY <1>3 DEF Elevate
    <2>2. user' = [score |-> Written(r, Raised(r)), at |-> r.at]
      BY <1>3 DEF Elevate
    <2>3. r.at \in Nat /\ r.at <= now
      BY <2>1, HandlerHolds DEF AgeInv
    <2>4. user' \in UserRow /\ user'.at <= now
      BY <1>0, <2>1, <2>2, <2>3, RaisedType DEF Written, UserRow
    <2>5. peak' \in [score : Score, at : Nat]
      BY <1>3, <2>1, <2>3, RaisedType DEF Elevate
    <2>6. QED
      BY <1>2, <1>3, <2>4, <2>5 DEF Elevate
  <1>4. ASSUME NEW c \in Requests, Decay(c)
        PROVE  AgeInv'
    <2>1. Decayed(req[c].snap, now) \in Score
      BY <1>4, RaisedType DEF Decay
    <2>2. user' \in UserRow /\ user'.at <= now
      <3>1. CASE user' = user
        BY <1>0, <3>1
      <3>2. CASE user' = [user EXCEPT !.score = Decayed(req[c].snap, now), !.at = now]
        <4>1. /\ user'.score = Decayed(req[c].snap, now) /\ user'.at = now
              /\ user' = [score |-> user'.score, at |-> user'.at]
          BY <1>0, <3>2 DEF UserRow
        <4>2. QED
          BY <1>0, <2>1, <4>1 DEF UserRow
      <3>3. QED
        BY <1>4, <3>1, <3>2 DEF Decay
    <2>3. QED
      BY <1>2, <1>4, <2>2 DEF Decay, AgeInv, ScoreTypeOK
  <1>5. ASSUME NEW c \in Requests, Reset(c)
        PROVE  AgeInv'
    <2>1. 0 \in Score
      BY TopAssumption DEF Score
    <2>2. user' \in UserRow /\ user'.at <= now
      <3>1. Written(req[c], 0) \in Score
        BY <1>0, <2>1 DEF Written, UserRow
      <3>2. user' = [score |-> Written(req[c], 0), at |-> now]
        BY <1>5 DEF Reset
      <3>3. QED
        BY <1>0, <3>1, <3>2 DEF UserRow
    <2>3. peak' \in [score : Score, at : Nat]
      BY <1>0, <1>5, <2>1 DEF Reset
    <2>4. QED
      BY <1>2, <1>5, <2>2, <2>3 DEF Reset
  <1>6. ASSUME NEW c \in Requests, Abort(c)
        PROVE  AgeInv'
    BY <1>0, <1>2, <1>6 DEF Abort, AgeInv, ScoreTypeOK
  <1>7. CASE Tick
    <2>1. \A c \in Requests : req[c].op # "none" => req[c].at \in Nat
      BY HandlerHolds
    <2>2. QED
      BY <1>0, <1>7, <2>1 DEF Tick, AgeInv, ScoreTypeOK
  <1>8. CASE UNCHANGED scoreVars
    BY <1>8 DEF scoreVars, AgeInv, ScoreTypeOK
  <1>9. QED
    BY <1>1, <1>3, <1>4, <1>5, <1>6, <1>7, <1>8 DEF ScoreNext

LEMMA AgeInit == ScoreInit => AgeInv
  BY TopAssumption
  DEF ScoreInit, AgeInv, ScoreTypeOK, NewUser, UserRow, Score, Handlers, IdleHandler, Handler

\* Whatever overlaps, no sum of events leaves the range of the score and no
\* anchor is in the future.
THEOREM ScoreTypeCorrect == ScoreSpec => []ScoreTypeOK
  <1>1. AgeInv => ScoreTypeOK
    BY DEF AgeInv
  <1>2. QED
    BY <1>1, AgeInit, AgeStep, PTL DEF ScoreSpec

\* With no other handler beside an elevation or a reset, those work from the row
\* as it is, and decays from an earlier point of the same curve.
CurveHandler(r) ==
    /\ r.op \in {"elevate", "reset"} => r.snap = user
    /\ r.op = "decay" => /\ r.snap.score = Decayed(peak, r.snap.at)
                         /\ peak.at <= r.snap.at

CurveInv ==
    /\ AgeInv
    /\ OnCurve
    /\ peak.at <= user.at
    /\ \A c \in Requests : CurveHandler(req[c])
    /\ \A c, d \in Requests :
          (c # d /\ req[c].op # "none" /\ req[d].op # "none")
             => req[c].op = "decay" /\ req[d].op = "decay"

LEMMA CurveInit == ScoreInit => CurveInv
  <1> SUFFICES ASSUME ScoreInit PROVE CurveInv
    OBVIOUS
  <1>1. 0 \div 2 ^ (0 - 0) = 0
    BY HalvedType
  <1>2. OnCurve
    BY <1>1 DEF ScoreInit, OnCurve, Decayed, NewUser
  <1>3. \A c \in Requests : req[c].op = "none"
    BY DEF ScoreInit, IdleHandler, Handler
  <1>4. QED
    BY <1>2, <1>3, AgeInit DEF CurveInv, CurveHandler, ScoreInit, NewUser

\* An event that sets the score finishes: its row is the new point of the curve.
LEMMA CurveEvent ==
  ASSUME CurveInv, AgeInv', NEW c \in Requests, req[c].op \in {"elevate", "reset"},
         Done(c), peak' = [score |-> user'.score, at |-> user'.at]
  PROVE  CurveInv'
  <1>1. \A d \in Requests : req'[d].op = "none"
    <2>1. ASSUME NEW d \in Requests, d # c
          PROVE  req'[d].op = "none"
      BY <2>1, ScoreDone DEF CurveInv
    <2>2. req'[c].op = "none"
      BY ScoreDone DEF CurveInv, IdleHandler, Handler
    <2>3. QED
      BY <2>1, <2>2
  <1>2. user'.at \in Nat /\ user'.score \in Nat
    BY TopAssumption DEF AgeInv, ScoreTypeOK, UserRow, Score
  <1>3. user'.score \div 2 ^ (user'.at - user'.at) = user'.score
    <2>1. user'.at - user'.at = 0
      BY <1>2
    <2>2. user'.score \div 1 = user'.score
      BY <1>2
    <2>3. QED
      BY <2>1, <2>2, PowerZero
  <1>4. OnCurve'
    BY <1>3 DEF OnCurve, Decayed
  <1>5. QED
    BY <1>1, <1>2, <1>4 DEF CurveInv, CurveHandler

LEMMA CurveStep ==
  ASSUME "score" \notin Overlaps, CurveInv, [ScoreNext]_scoreVars
  PROVE  CurveInv'
  <1>0. AgeInv'
    BY AgeStep DEF CurveInv
  <1>1. /\ now \in Nat /\ user.at \in Nat /\ peak.at \in Nat /\ user.score \in Score
        /\ peak.score \in Nat /\ peak.at <= user.at /\ user.at <= now
    BY TopAssumption DEF CurveInv, AgeInv, ScoreTypeOK, UserRow, Score
  <1>2. ASSUME NEW c \in Requests, NEW op \in {"elevate", "decay", "reset"}, NEW amount,
               Start(c, op, amount)
        PROVE  CurveInv'
    <2>1. /\ req' = [req EXCEPT ![c] = [op |-> op, snap |-> user, at |-> now,
                                        amount |-> amount]]
          /\ UNCHANGED <<now, user, peak>>
      BY <1>2 DEF Start, Handler
    <2>2. \A d \in Requests \ {c} : req'[d] = req[d]
      BY <2>1 DEF CurveInv, AgeInv, ScoreTypeOK
    <2>3. req'[c].op = op /\ req'[c].snap = user
      BY <2>1 DEF CurveInv, AgeInv, ScoreTypeOK
    <2>4. CurveHandler(req[c])'
      BY <1>1, <2>1, <2>3 DEF CurveHandler, CurveInv, OnCurve, Decayed
    <2>5. \A d \in Requests \ {c} : CurveHandler(req[d])'
      BY <2>1, <2>2 DEF CurveHandler, CurveInv, Decayed
    <2>6. \A d \in Requests \ {c} : req[d].op = "none" \/ (op = "decay" /\ req[d].op = "decay")
      BY <1>2 DEF Start, MayRead
    <2>7. \A d, e \in Requests :
             (d # e /\ req'[d].op # "none" /\ req'[e].op # "none")
                => req'[d].op = "decay" /\ req'[e].op = "decay"
      BY <2>2, <2>3, <2>6 DEF CurveInv
    <2>8. OnCurve' /\ peak'.at <= user'.at
      BY <2>1 DEF CurveInv, OnCurve, Decayed
    <2>9. QED
      BY <1>0, <2>4, <2>5, <2>7, <2>8 DEF CurveInv
  <1>3. ASSUME NEW c \in Requests, Elevate(c)
        PROVE  CurveInv'
    <2> DEFINE r == req[c]
    <2>1. r.op = "elevate" /\ r.snap = user /\ Done(c)
      BY <1>1, <1>3 DEF Elevate, CurveInv, CurveHandler
    <2>2. user' = [score |-> Written(r, Raised(r)), at |-> r.at]
      BY <1>3 DEF Elevate
    <2>3. Written(r, Raised(r)) = Raised(r)
      BY <2>1 DEF Written
    <2>4. peak' = [score |-> user'.score, at |-> user'.at]
      BY <1>3, <2>2, <2>3 DEF Elevate
    <2>5. QED
      BY <1>0, <2>1, <2>4, CurveEvent
  <1>4. ASSUME NEW c \in Requests, Reset(c)
        PROVE  CurveInv'
    <2>1. req[c].op = "reset" /\ req[c].snap = user /\ Done(c)
      BY <1>4 DEF Reset, CurveInv, CurveHandler
    <2>2. user'.score = 0 /\ user'.at = now
      BY <1>1, <1>4, <2>1 DEF Reset, Written
    <2>3. peak' = [score |-> 0, at |-> now]
      BY <1>4 DEF Reset
    <2>4. QED
      BY <1>0, <2>1, <2>2, <2>3, CurveEvent
  <1>5. ASSUME NEW c \in Requests, Done(c), UNCHANGED <<user, peak>>
        PROVE  CurveInv'
    <2>1. \A d \in Requests : req'[d].op # "none" => req'[d] = req[d] /\ d # c
      BY <1>5, ScoreDone DEF CurveInv
    <2>2. \A d \in Requests : CurveHandler(req[d])'
      BY <1>5, <2>1 DEF CurveHandler, CurveInv, Decayed
    <2>3. QED
      BY <1>0, <1>5, <2>1, <2>2 DEF CurveInv, OnCurve, Decayed
  <1>6. ASSUME NEW c \in Requests, Decay(c)
        PROVE  CurveInv'
    <2> DEFINE r     == req[c]
               score == Decayed(r.snap, now)
    <2>1. r.op = "decay" /\ Done(c) /\ UNCHANGED <<now, peak>>
      BY <1>6 DEF Decay
    <2>2. CASE score = r.snap.score
      BY <1>5, <1>6, <2>1, <2>2 DEF Decay
    <2>3. CASE score # r.snap.score
      <3>1. user' = [user EXCEPT !.score = score, !.at = now]
        BY <1>6, <2>3 DEF Decay
      <3>2. user'.score = score /\ user'.at = now
        BY <3>1 DEF CurveInv, AgeInv, ScoreTypeOK, UserRow
      <3>3. score = Decayed(peak, now)
        <4>1. r.snap.score = peak.score \div 2 ^ (r.snap.at - peak.at) /\ peak.at <= r.snap.at
          BY <2>1 DEF CurveInv, CurveHandler, Decayed
        <4>2. r.snap.at \in Nat /\ now - r.snap.at \in Nat
          BY <2>1, HandlerHolds DEF CurveInv
        <4>3. r.snap.at - peak.at \in Nat
          BY <1>1, <4>1, <4>2
        <4>4. (r.snap.at - peak.at) + (now - r.snap.at) = now - peak.at
          BY <1>1, <4>2
        <4>5. (peak.score \div 2 ^ (r.snap.at - peak.at)) \div 2 ^ (now - r.snap.at)
                = peak.score \div 2 ^ (now - peak.at)
          <5>1. peak.score \in Nat
            BY <1>1
          <5>2. (peak.score \div 2 ^ (r.snap.at - peak.at)) \div 2 ^ (now - r.snap.at)
                  = peak.score \div 2 ^ ((r.snap.at - peak.at) + (now - r.snap.at))
            BY <5>1, <4>2, <4>3, HalvedTwice
          <5>3. QED
            BY <5>2, <4>4
        <4>6. QED
          BY <4>1, <4>5 DEF Decayed
      <3>4. OnCurve' /\ peak'.at <= user'.at
        BY <1>1, <2>1, <3>2, <3>3 DEF OnCurve, Decayed, CurveInv
      <3>5. \A d \in Requests : req'[d].op # "none" => req'[d] = req[d] /\ d # c
        BY <2>1, ScoreDone DEF CurveInv
      <3>6. \A d \in Requests : req'[d].op # "none" => req'[d].op = "decay"
        BY <2>1, <3>5 DEF CurveInv
      <3>7. \A d \in Requests : CurveHandler(req[d])'
        BY <2>1, <3>5, <3>6 DEF CurveHandler, CurveInv, Decayed
      <3>8. QED
        BY <1>0, <3>4, <3>6, <3>7 DEF CurveInv
    <2>4. QED
      BY <2>2, <2>3
  <1>7. CASE Tick
    BY <1>0, <1>7 DEF Tick, CurveInv, CurveHandler, OnCurve, Decayed
  <1>8. CASE UNCHANGED scoreVars
    BY <1>0, <1>8 DEF scoreVars, CurveInv, CurveHandler, OnCurve, Decayed
  <1>9. QED
    BY <1>2, <1>3, <1>4, <1>5, <1>6, <1>7, <1>8 DEF ScoreNext, Abort

\* If an elevation or a reset of the account overlaps nothing, then however many
\* requests write decays back, the stored score is the one of the last event,
\* halved for every half-life since.
THEOREM ScoreOnCurve ==
  ASSUME "score" \notin Overlaps
  PROVE  ScoreSpec => []OnCurve
  <1>1. CurveInv => OnCurve
    BY DEF CurveInv
  <1>2. QED
    BY <1>1, CurveInit, CurveStep, PTL DEF ScoreSpec

=============================================================================
