---------------------------- MODULE WindowProofs ----------------------------
(***************************************************************************)
(* Theorems about what counts in sliding windows: the rate limiter, for    *)
(* any workers, buckets, limits and outages, and the brute-force guard of  *)
(* API keys, for any requests in flight, limit, window and block.          *)
(***************************************************************************)
EXTENDS RateLimiter, KeyGuard, FiniteSetTheorems, FunctionTheorems, SequenceTheorems, TLAPS

-----------------------------------------------------------------------------
(* Counting, and windows *)

\* What maps into a finite set without collisions is no larger.
LEMMA NoCollisions ==
  ASSUME NEW S, NEW T, NEW F \in [S -> T], IsFiniteSet(T),
         \A x, y \in S : F[x] = F[y] => x = y
  PROVE  IsFiniteSet(S) /\ Cardinality(S) <= Cardinality(T)
  <1>1. F \in Injection(S, T)
    BY DEF Injection, IsInjective
  <1>2. QED
    BY <1>1, FS_Injection

LEMMA RangeSize ==
  ASSUME NEW n \in Nat
  PROVE  IsFiniteSet(1 .. n) /\ Cardinality(1 .. n) = n
  <1>1. /\ IsFiniteSet(1 .. n)
        /\ Cardinality(1 .. n) = IF 1 > n THEN 0 ELSE n - 1 + 1
    BY FS_Interval
  <1>2. QED
    BY <1>1

LEMMA StaleIsFinite ==
  ASSUME NEW q \in Seq(Nat), NEW cut \in Int
  PROVE  /\ IsFiniteSet(Stale(q, cut))
         /\ Cardinality(Stale(q, cut)) \in Nat
         /\ Cardinality(Stale(q, cut)) <= Len(q)
  <1>1. Stale(q, cut) \subseteq 1 .. Len(q)
    BY DEF Stale
  <1>2. IsFiniteSet(1 .. Len(q)) /\ Cardinality(1 .. Len(q)) = Len(q)
    <2>1. Len(q) \in Nat
      OBVIOUS
    <2>2. QED
      BY <2>1, RangeSize
  <1>3. QED
    BY <1>1, <1>2, FS_Subset, FS_CardinalityType

\* What is dropped is a prefix, so what is left is a suffix.
LEMMA FreshIsSuffix ==
  ASSUME NEW q \in Seq(Nat), NEW cut \in Int
  PROVE  LET k == Cardinality(Stale(q, cut))
         IN  /\ Fresh(q, cut) \in Seq(Nat)
             /\ k \in 0 .. Len(q) /\ Len(q) \in Nat
             /\ Len(Fresh(q, cut)) = Len(q) - k
             /\ \A i \in 1 .. Len(q) - k : Fresh(q, cut)[i] = q[i + k]
  <1> DEFINE k == Cardinality(Stale(q, cut))
  <1>1. k \in 0 .. Len(q) /\ Len(q) \in Nat
    BY StaleIsFinite
  <1> HIDE DEF k
  <1>2. Fresh(q, cut) = SubSeq(q, k + 1, Len(q))
    BY DEF Fresh, k
  <1>3. \A i \in (k + 1) .. Len(q) : q[i] \in Nat
    BY <1>1
  <1>4. /\ Fresh(q, cut) \in Seq(Nat)
        /\ Len(Fresh(q, cut)) = Len(q) - k
        /\ \A i \in 1 .. Len(q) - k : Fresh(q, cut)[i] = q[i + k]
    BY <1>1, <1>2, <1>3, SubSeqProperties
  <1>5. QED
    BY <1>1, <1>4 DEF k

LEMMA FreshIsShorter ==
  ASSUME NEW q \in Seq(Nat), NEW cut \in Int
  PROVE  Len(Fresh(q, cut)) \in Nat /\ Len(q) \in Nat /\ Len(Fresh(q, cut)) <= Len(q)
  <1>1. Len(Fresh(q, cut)) = Len(q) - Cardinality(Stale(q, cut))
    BY FreshIsSuffix
  <1>2. /\ Cardinality(Stale(q, cut)) \in Nat
        /\ Cardinality(Stale(q, cut)) <= Len(q)
    BY StaleIsFinite
  <1>3. Len(q) \in Nat
    OBVIOUS
  <1>4. QED
    BY <1>1, <1>2, <1>3

LEMMA StaleIsPrefix ==
  ASSUME NEW q \in Seq(Nat), NEW cut \in Int
  PROVE  /\ Stale(q, cut) = 1 .. Cardinality(Stale(q, cut))
         /\ \A i \in 1 .. Cardinality(Stale(q, cut)) : i \in 1 .. Len(q) /\ q[i] < cut
  <1> DEFINE S == Stale(q, cut)
             k == Cardinality(S)
  <1>1. IsFiniteSet(S) /\ k \in Nat
    BY StaleIsFinite
  <1>2. ASSUME NEW i \in S
        PROVE  i \in 1 .. k
    <2>1. i \in Nat \ {0} /\ 1 .. i \subseteq S
      BY DEF Stale
    <2>2. Cardinality(1 .. i) = i
      BY <2>1, RangeSize
    <2>3. i <= k
      BY <1>1, <2>1, <2>2, FS_Subset
    <2>4. QED
      BY <1>1, <2>1, <2>3
  <1>3. IsFiniteSet(1 .. k) /\ Cardinality(1 .. k) = k
    BY <1>1, RangeSize
  <1>4. S \in SUBSET (1 .. k)
    BY <1>2
  <1>5. S = 1 .. k
    BY <1>3, <1>4, FS_Subset
  <1>6. \A i \in S : i \in 1 .. Len(q) /\ q[i] < cut
    BY DEF Stale
  <1>7. QED
    BY <1>5, <1>6

\* Where a window starts, nothing is stale.
LEMMA FreshHead ==
  ASSUME NEW q \in Seq(Nat), NEW cut \in Int, Len(Fresh(q, cut)) > 0
  PROVE  Fresh(q, cut)[1] >= cut
  <1> DEFINE k == Cardinality(Stale(q, cut))
  <1>1. /\ k \in 0 .. Len(q) /\ Len(q) \in Nat
        /\ Len(Fresh(q, cut)) = Len(q) - k
        /\ \A i \in 1 .. Len(q) - k : Fresh(q, cut)[i] = q[i + k]
    BY FreshIsSuffix
  <1>2. Stale(q, cut) = 1 .. k /\ \A j \in 1 .. k : q[j] < cut
    BY StaleIsPrefix
  <1> HIDE DEF k
  <1>3. k + 1 \in 1 .. Len(q) /\ Fresh(q, cut)[1] = q[k + 1] /\ q[k + 1] \in Nat
    BY <1>1
  <1>4. k + 1 \notin Stale(q, cut)
    BY <1>1, <1>2
  <1>5. ASSUME q[k + 1] < cut
        PROVE  FALSE
    <2>1. \A j \in 1 .. k + 1 : q[j] < cut
      BY <1>1, <1>2, <1>5
    <2>2. k + 1 \in Stale(q, cut)
      BY <1>3, <2>1 DEF Stale
    <2>3. QED
      BY <1>4, <2>2
  <1>6. ~(q[k + 1] < cut)
    BY <1>5
  <1>7. QED
    BY <1>3, <1>6

\* What is not older than the cutoff is kept.
LEMMA FreshKeeps ==
  ASSUME NEW q \in Seq(Nat), NEW cut \in Int, NEW i \in 1 .. Len(q), q[i] >= cut
  PROVE  LET k == Cardinality(Stale(q, cut))
         IN  i - k \in 1 .. Len(Fresh(q, cut)) /\ Fresh(q, cut)[i - k] = q[i]
  <1> DEFINE k == Cardinality(Stale(q, cut))
  <1>1. /\ k \in 0 .. Len(q) /\ Len(q) \in Nat
        /\ Len(Fresh(q, cut)) = Len(q) - k
        /\ \A j \in 1 .. Len(q) - k : Fresh(q, cut)[j] = q[j + k]
    BY FreshIsSuffix
  <1>2. Stale(q, cut) = 1 .. k
    BY StaleIsPrefix
  <1>3. q[i] \in Nat
    OBVIOUS
  <1>4. i \notin Stale(q, cut)
    BY <1>3 DEF Stale
  <1> HIDE DEF k
  <1>5. i - k \in 1 .. Len(q) - k /\ (i - k) + k = i
    BY <1>1, <1>2, <1>4
  <1>6. i - k \in 1 .. Len(Fresh(q, cut)) /\ Fresh(q, cut)[i - k] = q[i]
    BY <1>1, <1>5
  <1>7. QED
    BY <1>6 DEF k

\* A window whose oldest entry is in time loses nothing.
LEMMA FreshWhole ==
  ASSUME NEW q \in Seq(Nat), NEW cut \in Int, Len(q) = 0 \/ q[1] >= cut
  PROVE  Fresh(q, cut) = q
  <1>1. Stale(q, cut) = {}
    BY DEF Stale
  <1>2. Cardinality(Stale(q, cut)) = 0
    BY <1>1, FS_EmptySet
  <1>3. QED
    BY <1>2 DEF Fresh

\* A window whose oldest entry is too old loses it.
LEMMA FreshLoses ==
  ASSUME NEW q \in Seq(Nat), NEW cut \in Int, Len(q) > 0, q[1] < cut
  PROVE  Len(Fresh(q, cut)) < Len(q)
  <1>1. 1 \in Stale(q, cut)
    BY DEF Stale
  <1>2. Cardinality(Stale(q, cut)) # 0
    BY <1>1, StaleIsFinite, FS_EmptySet
  <1>3. QED
    <2>1. /\ Len(Fresh(q, cut)) = Len(q) - Cardinality(Stale(q, cut))
          /\ Cardinality(Stale(q, cut)) \in 0 .. Len(q) /\ Len(q) \in Nat
      BY FreshIsSuffix
    <2>2. QED
      BY <1>2, <2>1

\* Dropping twice is dropping once.
LEMMA FreshTwice ==
  ASSUME NEW q \in Seq(Nat), NEW cut \in Int, NEW later \in Int, cut <= later
  PROVE  Fresh(Fresh(q, cut), later) = Fresh(q, later)
  <1> DEFINE p == Fresh(q, cut)
             k == Cardinality(Stale(q, cut))
             m == Cardinality(Stale(q, later))
             l == Cardinality(Stale(p, later))
  <1>1. /\ k \in 0 .. Len(q) /\ Len(q) \in Nat /\ p \in Seq(Nat)
        /\ Len(p) = Len(q) - k
        /\ \A i \in 1 .. Len(q) - k : p[i] = q[i + k]
    BY FreshIsSuffix
  <1>2. /\ Stale(q, cut) = 1 .. k /\ Stale(q, later) = 1 .. m
        /\ \A i \in 1 .. k : i \in 1 .. Len(q) /\ q[i] < cut
    BY StaleIsPrefix
  <1>3. Stale(p, later) = 1 .. l /\ l \in Nat /\ m \in Nat
    BY <1>1, StaleIsPrefix, StaleIsFinite
  <1>4. \A i \in 1 .. Len(q) : q[i] \in Nat
    BY <1>1
  <1> HIDE DEF p, k, m, l
  <1>5. \A i \in 1 .. k : q[i] < later
    BY <1>2, <1>4
  <1>6. \A i \in 1 .. Len(p) : i \in Stale(p, later) <=> i + k \in Stale(q, later)
    <2> SUFFICES ASSUME NEW i \in 1 .. Len(p)
                 PROVE  i \in Stale(p, later) <=> i + k \in Stale(q, later)
      OBVIOUS
    <2>1. i + k \in 1 .. Len(q)
      BY <1>1
    <2>2. ASSUME i \in Stale(p, later), NEW j \in 1 .. i + k
          PROVE  q[j] < later
      <3>1. CASE j <= k
        BY <1>1, <1>5, <2>2, <3>1
      <3>2. CASE j > k
        <4>1. j - k \in 1 .. i /\ j - k \in 1 .. Len(q) - k /\ (j - k) + k = j
          BY <1>1, <2>2, <3>2
        <4>2. p[j - k] < later
          BY <2>2, <4>1 DEF Stale
        <4>3. QED
          BY <1>1, <4>1, <4>2
      <3>3. QED
        BY <1>1, <3>1, <3>2
    <2>3. ASSUME i + k \in Stale(q, later), NEW j \in 1 .. i
          PROVE  p[j] < later
      <3>1. j + k \in 1 .. i + k /\ j \in 1 .. Len(q) - k
        BY <1>1, <2>3
      <3>2. q[j + k] < later
        BY <2>3, <3>1 DEF Stale
      <3>3. QED
        BY <1>1, <3>1, <3>2
    <2>4. QED
      BY <2>1, <2>2, <2>3 DEF Stale
  <1>7. m = l + k
    <2>1. k \in 0 .. m
      <3>1. 1 .. k \subseteq 1 .. m
        <4>1. \A i \in 1 .. k : i \in 1 .. Len(q) /\ 1 .. i \subseteq 1 .. k
          BY <1>1, <1>2
        <4>2. 1 .. k \subseteq Stale(q, later)
          <5> SUFFICES ASSUME NEW i \in 1 .. k PROVE i \in Stale(q, later)
            OBVIOUS
          <5>1. \A j \in 1 .. i : q[j] < later
            BY <1>5, <4>1
          <5>2. QED
            BY <4>1, <5>1 DEF Stale
        <4>3. QED
          BY <1>2, <4>2
      <3>2. CASE k = 0
        BY <1>3, <3>2
      <3>3. CASE k > 0
        <4>1. k \in 1 .. k
          BY <1>1, <3>3
        <4>2. k \in 1 .. m
          BY <3>1, <4>1
        <4>3. QED
          BY <1>3, <4>2
      <3>4. QED
        BY <1>1, <3>2, <3>3
    <2>2. l <= m - k
      <3>1. CASE l = 0
        BY <1>1, <1>3, <2>1, <3>1
      <3>2. CASE l > 0
        <4>1. l \in Stale(p, later)
          BY <1>3, <3>2
        <4>2. l \in 1 .. Len(p)
          BY <4>1 DEF Stale
        <4>3. l + k \in 1 .. m
          BY <1>2, <1>6, <4>1, <4>2
        <4>4. QED
          BY <1>1, <1>3, <4>3
      <3>3. QED
        BY <1>3, <3>1, <3>2
    <2>3. m - k <= l
      <3>1. CASE m = k
        BY <1>1, <1>3, <3>1
      <3>2. CASE m > k
        <4>1. m \in Stale(q, later)
          BY <1>1, <1>2, <1>3, <3>2
        <4>2. m \in 1 .. Len(q)
          BY <4>1 DEF Stale
        <4>3. m - k \in 1 .. Len(p) /\ (m - k) + k = m
          BY <1>1, <1>3, <3>2, <4>2
        <4>4. m - k \in 1 .. l
          BY <1>3, <1>6, <4>1, <4>3
        <4>5. QED
          BY <1>1, <1>3, <4>4
      <3>3. QED
        BY <1>1, <1>3, <2>1, <3>1, <3>2
    <2>4. QED
      BY <1>1, <1>3, <2>1, <2>2, <2>3
  <1> DEFINE a == Fresh(p, later)
             b == Fresh(q, later)
  <1>8. /\ a \in Seq(Nat) /\ Len(a) = Len(p) - l
        /\ \A i \in 1 .. Len(p) - l : a[i] = p[i + l]
        /\ l \in 0 .. Len(p)
    BY <1>1, FreshIsSuffix DEF l
  <1>9. /\ b \in Seq(Nat) /\ Len(b) = Len(q) - m
        /\ \A i \in 1 .. Len(q) - m : b[i] = q[i + m]
    BY FreshIsSuffix DEF m
  <1> HIDE DEF a, b
  <1>10. Len(a) = Len(b) /\ Len(a) \in Nat
    BY <1>1, <1>3, <1>7, <1>8, <1>9
  <1>11. ASSUME NEW i \in 1 .. Len(a)
         PROVE  a[i] = b[i]
    <2>1. i \in 1 .. Len(p) - l /\ i + l \in 1 .. Len(q) - k /\ i \in 1 .. Len(q) - m
          /\ (i + l) + k = i + m
      BY <1>1, <1>3, <1>7, <1>8, <1>9, <1>10
    <2>2. QED
      BY <1>1, <1>8, <1>9, <2>1
  <1>12. a = b
    BY <1>8, <1>9, <1>10, <1>11, SeqEqual
  <1>13. QED
    BY <1>12 DEF a, b, p


-----------------------------------------------------------------------------
(* The rate limiter *)

\* A store has windows of buckets, and one more than the cap at most: the one of
\* the request that was let in last.
StoreInv ==
  /\ store = [w \in Workers |-> store[w]]
  /\ \A w \in Workers : DOMAIN store[w] \subseteq Buckets
  /\ StoreBounded
  /\ now \in Nat /\ req \in [Workers -> {Idle} \cup Deciding]

\* What eviction leaves is within the cap.
LEMMA SurvivorsFit ==
  ASSUME NEW s, DOMAIN s \subseteq Buckets, NEW K \in Survivors(s)
  PROVE  K \subseteq Buckets /\ IsFiniteSet(K) /\ Cardinality(K) <= MaxKeys
  <1> DEFINE active == {b \in DOMAIN s : ~IdleKey(s, b)}
  <1>1. IsFiniteSet(active) /\ Cardinality(active) \in Nat
    BY WorkersAssumption, FS_Subset, FS_CardinalityType
  <1>2. CASE Cardinality(DOMAIN s) <= MaxKeys
    <2>1. K = DOMAIN s
      BY <1>2 DEF Survivors
    <2>2. QED
      BY <1>2, <2>1, WorkersAssumption, FS_Subset
  <1>3. CASE ~(Cardinality(DOMAIN s) <= MaxKeys)
    <2>1. /\ K \subseteq active
          /\ Cardinality(K) = IF Cardinality(active) < MaxKeys THEN Cardinality(active)
                                                               ELSE MaxKeys
      BY <1>3 DEF Survivors
    <2>2. K \subseteq Buckets /\ IsFiniteSet(K)
      BY <2>1, WorkersAssumption, FS_Subset
    <2>3. Cardinality(K) <= MaxKeys
      BY <1>1, <2>1, WindowAssumption
    <2>4. QED
      BY <2>2, <2>3
  <1>4. QED
    BY <1>2, <1>3

LEMMA MemoryFits ==
  ASSUME StoreInv, NEW w \in Workers, NEW b \in Buckets, Memory(w, b)
  PROVE  /\ store' = [v \in Workers |-> store'[v]]
         /\ \A v \in Workers : /\ DOMAIN store'[v] \subseteq Buckets
                               /\ Cardinality(DOMAIN store'[v]) <= MaxKeys + 1
  <1> DEFINE old(K) == IF b \in K THEN Fresh(store[w][b], now - Window) ELSE <<>>
             new(K) == IF Len(old(K)) < Limit[b] THEN Append(old(K), now) ELSE old(K)
  <1>1. PICK K \in Survivors(store[w]) :
           store' = [store EXCEPT ![w] =
                        [k \in K \cup {b} |-> IF k = b THEN new(K) ELSE store[w][k]]]
    BY Zenon DEF Memory
  <1> HIDE DEF new
  <1>2. K \subseteq Buckets /\ IsFiniteSet(K) /\ Cardinality(K) <= MaxKeys
    BY SurvivorsFit DEF StoreInv
  <1>3. DOMAIN store'[w] = K \cup {b} /\ \A v \in Workers \ {w} : store'[v] = store[v]
    BY <1>1 DEF StoreInv
  <1>4. Cardinality(K \cup {b}) <= MaxKeys + 1
    <2>1. Cardinality(K \cup {b}) = IF b \in K THEN Cardinality(K) ELSE Cardinality(K) + 1
      BY <1>2, FS_AddElement
    <2>2. Cardinality(K) \in Nat
      BY <1>2, FS_CardinalityType
    <2>3. QED
      BY <1>2, <2>1, <2>2, WindowAssumption
  <1>5. store' = [v \in Workers |-> store'[v]]
    BY <1>1 DEF StoreInv
  <1>6. QED
    BY <1>2, <1>3, <1>4, <1>5 DEF StoreInv, StoreBounded

LEMMA StoreNext ==
  ASSUME StoreInv, [Next]_vars
  PROVE  StoreInv'
  <1>1. ASSUME UNCHANGED store, now' \in Nat, req' \in [Workers -> {Idle} \cup Deciding]
        PROVE  StoreInv'
    BY <1>1 DEF StoreInv, StoreBounded
  <1>2. ASSUME NEW w \in Workers, NEW b \in Buckets, Memory(w, b),
               req' \in [Workers -> {Idle} \cup Deciding]
        PROVE  StoreInv'
    <2>1. UNCHANGED now
      BY <1>2 DEF Memory
    <2>2. QED
      BY <1>2, <2>1, MemoryFits DEF StoreInv, StoreBounded
  <1>3. ASSUME NEW w \in Workers, NEW b \in Buckets, Dispatch(w, b)
        PROVE  StoreInv'
    <2>1. [pc |-> "pipe", bucket |-> b, at |-> now] \in Deciding
      BY DEF StoreInv, Deciding
    <2>2. CASE redis = "none"
      BY <1>2, <1>3, <2>2 DEF Dispatch, StoreInv
    <2>3. CASE redis # "none"
      BY <1>1, <1>3, <2>1, <2>3 DEF Dispatch, StoreInv
    <2>4. QED
      BY <2>2, <2>3
  <1>4. ASSUME NEW w \in Workers, Pipe(w) \/ Drop(w)
        PROVE  StoreInv'
    <2>1. req[w] \in Deciding
      BY <1>4 DEF Pipe, Drop, StoreInv, Idle, Deciding
    <2>2. UNCHANGED <<store, now>>
      BY <1>4 DEF Pipe, Drop
    <2>3. \/ req' = [req EXCEPT ![w].pc = "drop"]
          \/ req' = [req EXCEPT ![w] = Idle]
      BY <1>4 DEF Pipe, Drop
    <2>4. [req[w] EXCEPT !.pc = "drop"] \in Deciding
      BY <2>1 DEF Deciding
    <2>5. req' \in [Workers -> {Idle} \cup Deciding]
      BY <2>3, <2>4 DEF StoreInv
    <2>6. QED
      BY <1>1, <2>2, <2>5 DEF StoreInv
  <1>5. ASSUME NEW w \in Workers, FallBack(w)
        PROVE  StoreInv'
    <2>1. req[w] \in Deciding
      BY <1>5 DEF FallBack, StoreInv, Idle, Deciding
    <2>2. req[w].bucket \in Buckets
      BY <2>1 DEF Deciding
    <2>3. req' \in [Workers -> {Idle} \cup Deciding]
      BY <1>5 DEF FallBack, StoreInv
    <2>4. QED
      BY <1>2, <1>5, <2>2, <2>3 DEF FallBack
  <1>6. CASE Outage \/ Recovery \/ Tick
    <2>1. now' \in Nat /\ UNCHANGED <<store, req>>
      BY <1>6 DEF Outage, Recovery, Tick, StoreInv
    <2>2. QED
      BY <1>1, <2>1 DEF StoreInv
  <1>7. CASE Exempt \/ UNCHANGED vars
    BY <1>1, <1>7 DEF Exempt, vars, StoreInv
  <1>8. QED
    BY <1>3, <1>4, <1>5, <1>6, <1>7 DEF Next

LEMMA StoreInit == Init => StoreInv
  <1> SUFFICES ASSUME Init PROVE StoreInv
    OBVIOUS
  <1>1. \A w \in Workers : DOMAIN store[w] = {}
    BY DEF Init
  <1>2. Cardinality({}) = 0
    BY FS_EmptySet
  <1>3. StoreBounded
    <2>1. ASSUME NEW w \in Workers
          PROVE  Cardinality(DOMAIN store[w]) <= MaxKeys + 1
      <3>1. Cardinality(DOMAIN store[w]) = 0
        BY <1>1, <1>2
      <3>2. QED
        BY <3>1, WindowAssumption
    <2>2. QED
      BY <2>1 DEF StoreBounded
  <1>4. QED
    BY <1>1, <1>3 DEF Init, StoreInv

\* However many addresses call, and however active they are, a worker keeps a
\* bounded number of windows: the eviction takes active ones too, and counts
\* before the request adds its own (rate_limit.py:154-169).
THEOREM StoreStaysBounded == Spec => []StoreBounded
  <1>1. StoreInv => StoreBounded
    BY DEF StoreInv
  <1>2. QED
    BY <1>1, StoreInit, StoreNext, PTL DEF Spec

-----------------------------------------------------------------------------
(* The fallback stores *)

\* A store's windows are within their limits, and what it has admitted in the
\* window since it last forgot a bucket is what it remembers of it.
MemoryHolds(v, k) ==
    /\ k \in DOMAIN store[v] => store[v][k] \in Seq(Nat) /\ Len(store[v][k]) <= Limit[k]
    /\ served[v][k] = IF k \in DOMAIN store[v] THEN Fresh(store[v][k], now - Window) ELSE <<>>

MemoryInv ==
    /\ StoreInv
    /\ redis \in {"none", "up", "down"}
    /\ zset \in [Buckets -> SUBSET Nat]
    /\ served \in [Stores -> [Buckets -> Seq(Nat)]]
    /\ stuck \subseteq Buckets
    /\ asked \in 0 .. MaxRequests
    /\ \A v \in Workers, k \in Buckets : MemoryHolds(v, k)

LEMMA MemoryIsTyped == MemoryInv => TypeOK
  BY DEF MemoryInv, StoreInv, MemoryHolds, TypeOK

LEMMA SurvivorsAmong ==
  ASSUME NEW s, NEW K \in Survivors(s)
  PROVE  K \subseteq DOMAIN s
  BY DEF Survivors

\* What a decision from a store does to it and to the history when the buckets K
\* survive the eviction: the bucket's window is cut, and the request joins it if
\* there is room.
Decided(w, b, K) ==
    LET old == IF b \in K THEN Fresh(store[w][b], now - Window) ELSE <<>>
        new == IF Len(old) < Limit[b] THEN Append(old, now) ELSE old
        kept(k) == IF k \in DOMAIN store[w] \ K THEN <<>> ELSE served[w][k]
    IN  /\ DOMAIN store'[w] = K \cup {b}
        /\ store'[w][b] = new
        /\ \A k \in K \ {b} : store'[w][k] = store[w][k]
        /\ \A v \in Workers \ {w} : store'[v] = store[v]
        /\ \A k \in Buckets \ {b} : served'[w][k] = kept(k)
        /\ served'[w][b] = IF Len(old) < Limit[b] THEN Append(kept(b), now) ELSE kept(b)
        /\ served' = [t \in Stores |-> served'[t]]
        /\ served'[w] = [k \in Buckets |-> served'[w][k]]
        /\ \A t \in Stores \ {w} : served'[t] = served[t]

LEMMA MemoryParts ==
  ASSUME MemoryInv, NEW w \in Workers, NEW b \in Buckets, Memory(w, b)
  PROVE  \E K \in Survivors(store[w]) : Decided(w, b, K)
  <1> DEFINE old(K) == IF b \in K THEN Fresh(store[w][b], now - Window) ELSE <<>>
             ok(K)  == Len(old(K)) < Limit[b]
             new(K) == IF ok(K) THEN Append(old(K), now) ELSE old(K)
             kept(K) == Forget(w, DOMAIN store[w] \ K)
             held(K, k) == IF k \in DOMAIN store[w] \ K THEN <<>> ELSE served[w][k]
  <1>1. PICK K \in Survivors(store[w]) :
           /\ store' = [store EXCEPT ![w] =
                           [k \in K \cup {b} |-> IF k = b THEN new(K) ELSE store[w][k]]]
           /\ served' = IF ok(K) THEN [kept(K) EXCEPT ![w][b] = Append(@, now)] ELSE kept(K)
    BY Zenon DEF Memory
  <1>2. w \in Stores
    BY DEF Stores
  <1>3. kept(K) = [served EXCEPT ![w] = [k \in Buckets |-> held(K, k)]]
    BY <1>2 DEF Forget, MemoryInv
  <1> HIDE DEF new, ok, kept
  <1>4. /\ kept(K) = [t \in Stores |-> kept(K)[t]]
        /\ kept(K)[w] = [k \in Buckets |-> held(K, k)]
        /\ \A t \in Stores \ {w} : kept(K)[t] = served[t]
    BY <1>2, <1>3 DEF MemoryInv
  <1> HIDE DEF held
  <1>5. /\ served' = [t \in Stores |-> served'[t]]
        /\ served'[w] = [k \in Buckets |-> served'[w][k]]
        /\ \A t \in Stores \ {w} : served'[t] = served[t]
        /\ \A k \in Buckets \ {b} : served'[w][k] = held(K, k)
        /\ served'[w][b] = IF ok(K) THEN Append(held(K, b), now) ELSE held(K, b)
    <2>1. CASE ok(K)
      <3>1. served' = [kept(K) EXCEPT ![w][b] = Append(@, now)]
        BY <1>1, <2>1
      <3>2. served' = [kept(K) EXCEPT ![w] = [kept(K)[w] EXCEPT ![b] = Append(kept(K)[w][b], now)]]
        BY <1>2, <1>4, <3>1
      <3>3. /\ served'[w] = [kept(K)[w] EXCEPT ![b] = Append(kept(K)[w][b], now)]
            /\ served' = [t \in Stores |-> served'[t]]
            /\ \A t \in Stores \ {w} : served'[t] = served[t]
        BY <1>2, <1>4, <3>2
      <3>4. QED
        BY <1>4, <2>1, <3>3
    <2>2. CASE ~ok(K)
      BY <1>1, <1>2, <1>4, <2>2
    <2>3. QED
      BY <2>1, <2>2
  <1>6. /\ DOMAIN store'[w] = K \cup {b}
        /\ store'[w][b] = new(K)
        /\ \A k \in K \ {b} : store'[w][k] = store[w][k]
        /\ \A v \in Workers \ {w} : store'[v] = store[v]
    BY <1>1 DEF MemoryInv, StoreInv
  <1>7. QED
    BY <1>5, <1>6 DEF Decided, new, ok, held

\* The request's own bucket.
LEMMA BucketHolds ==
  ASSUME MemoryInv, NEW w \in Workers, NEW b \in Buckets, Memory(w, b)
  PROVE  MemoryHolds(w, b)' /\ served'[w][b] \in Seq(Nat)
  <1>1. PICK K \in Survivors(store[w]) : Decided(w, b, K)
    BY MemoryParts
  <1> DEFINE old == IF b \in K THEN Fresh(store[w][b], now - Window) ELSE <<>>
             new == IF Len(old) < Limit[b] THEN Append(old, now) ELSE old
  <1>2. K \subseteq DOMAIN store[w]
    BY SurvivorsAmong
  <1>3. /\ b \in DOMAIN store[w] => store[w][b] \in Seq(Nat) /\ Len(store[w][b]) <= Limit[b]
        /\ served[w][b] = IF b \in DOMAIN store[w] THEN Fresh(store[w][b], now - Window)
                                                   ELSE <<>>
    BY DEF MemoryInv, MemoryHolds
  <1>4. now \in Nat /\ Window \in Nat /\ now - Window \in Int /\ Limit[b] \in Nat /\ Limit[b] > 0
    BY WindowAssumption, LimitAssumption DEF MemoryInv, StoreInv
  <1>5. /\ old \in Seq(Nat) /\ Len(old) \in Nat /\ Len(old) <= Limit[b]
        /\ Len(old) > 0 => old[1] >= now - Window
    <2>1. CASE b \in K
      <3>1. store[w][b] \in Seq(Nat) /\ Len(store[w][b]) <= Limit[b]
        BY <1>2, <1>3, <2>1
      <3>2. old = Fresh(store[w][b], now - Window)
        BY <2>1
      <3>3. old \in Seq(Nat) /\ (Len(old) > 0 => old[1] >= now - Window)
        BY <1>4, <3>1, <3>2, FreshIsSuffix, FreshHead
      <3>4. Len(old) \in Nat /\ Len(store[w][b]) \in Nat /\ Len(old) <= Len(store[w][b])
        BY <1>4, <3>1, <3>2, FreshIsShorter
      <3>5. QED
        BY <1>4, <3>1, <3>3, <3>4
    <2>2. CASE b \notin K
      BY <1>4, <2>2
    <2>3. QED
      BY <2>1, <2>2
  <1>6. (IF b \in DOMAIN store[w] \ K THEN <<>> ELSE served[w][b]) = old
    BY <1>2, <1>3
  <1>7. /\ store'[w][b] = new /\ served'[w][b] = new /\ b \in DOMAIN store'[w]
    BY <1>1, <1>6 DEF Decided
  <1> HIDE DEF old
  <1>8. /\ new \in Seq(Nat) /\ Len(new) <= Limit[b]
        /\ Len(new) > 0 => new[1] >= now - Window
    <2>1. CASE Len(old) < Limit[b]
      <3>1. new = Append(old, now)
        BY <2>1
      <3>2. CASE Len(old) = 0
        BY <1>4, <1>5, <3>1, <3>2
      <3>3. CASE Len(old) > 0
        BY <1>4, <1>5, <2>1, <3>1, <3>3
      <3>4. QED
        BY <1>5, <3>2, <3>3
    <2>2. CASE ~(Len(old) < Limit[b])
      BY <1>5, <2>2
    <2>3. QED
      BY <2>1, <2>2
  <1> HIDE DEF new
  <1>9. Fresh(new, now - Window) = new
    <2>1. Len(new) \in Nat
      BY <1>8
    <2>2. Len(new) = 0 \/ new[1] >= now - Window
      BY <1>8, <2>1
    <2>3. QED
      BY <1>4, <1>8, <2>2, FreshWhole
  <1>10. now' = now
    BY DEF Memory
  <1>11. QED
    BY <1>7, <1>8, <1>9, <1>10 DEF MemoryHolds

LEMMA MemoryStep ==
  ASSUME MemoryInv, NEW w \in Workers, NEW b \in Buckets, Memory(w, b)
  PROVE  /\ served' \in [Stores -> [Buckets -> Seq(Nat)]]
         /\ \A t \in Stores \ {w} : served'[t] = served[t]
         /\ \A v \in Workers, k \in Buckets : MemoryHolds(v, k)'
  <1>0. PICK K \in Survivors(store[w]) : Decided(w, b, K)
    BY MemoryParts
  <1>1. /\ DOMAIN store'[w] = K \cup {b}
        /\ \A k \in K \ {b} : store'[w][k] = store[w][k]
        /\ \A v \in Workers \ {w} : store'[v] = store[v]
        /\ \A k \in Buckets \ {b} :
              served'[w][k] = IF k \in DOMAIN store[w] \ K THEN <<>> ELSE served[w][k]
        /\ served' = [t \in Stores |-> served'[t]]
        /\ served'[w] = [k \in Buckets |-> served'[w][k]]
        /\ \A t \in Stores \ {w} : served'[t] = served[t]
    BY <1>0 DEF Decided
  <1>2. K \subseteq DOMAIN store[w] /\ now' = now /\ w \in Stores /\ Workers \subseteq Stores
    BY SurvivorsAmong DEF Memory, Stores
  <1>3. \A t \in Stores \ {w} : served'[t] \in [Buckets -> Seq(Nat)]
    BY <1>1 DEF MemoryInv
  <1>4. \A k \in Buckets : served'[w][k] \in Seq(Nat)
    <2>1. \A k \in Buckets : served[w][k] \in Seq(Nat)
      BY <1>2 DEF MemoryInv
    <2>2. ASSUME NEW k \in Buckets \ {b}
          PROVE  served'[w][k] \in Seq(Nat)
      <3>1. served'[w][k] = IF k \in DOMAIN store[w] \ K THEN <<>> ELSE served[w][k]
        BY <1>1
      <3>2. served[w][k] \in Seq(Nat)
        BY <2>1
      <3>3. CASE k \in DOMAIN store[w] \ K
        BY <3>1, <3>3
      <3>4. CASE k \notin DOMAIN store[w] \ K
        BY <3>1, <3>2, <3>4
      <3>5. QED
        BY <3>3, <3>4
    <2>3. QED
      BY <2>2, BucketHolds
  <1>5. served' \in [Stores -> [Buckets -> Seq(Nat)]]
    <2>1. served'[w] \in [Buckets -> Seq(Nat)]
      BY <1>1, <1>4
    <2>2. \A t \in Stores : served'[t] \in [Buckets -> Seq(Nat)]
      BY <1>3, <2>1
    <2>3. QED
      BY <1>1, <2>2
  <1>6. ASSUME NEW v \in Workers, NEW k \in Buckets
        PROVE  MemoryHolds(v, k)'
    <2>1. CASE v # w
      <3>1. store'[v] = store[v] /\ served'[v] = served[v] /\ MemoryHolds(v, k)
        BY <1>1, <1>2, <2>1 DEF MemoryInv
      <3>2. QED
        BY <1>2, <3>1 DEF MemoryHolds
    <2>2. CASE v = w /\ k = b
      BY <2>2, BucketHolds
    <2>3. CASE v = w /\ k # b
      <3>1. /\ k \in DOMAIN store[w] => /\ store[w][k] \in Seq(Nat)
                                        /\ Len(store[w][k]) <= Limit[k]
            /\ served[w][k] = IF k \in DOMAIN store[w] THEN Fresh(store[w][k], now - Window)
                                                       ELSE <<>>
        BY DEF MemoryInv, MemoryHolds
      <3>2. CASE k \in K
        BY <1>1, <1>2, <2>3, <3>1, <3>2 DEF MemoryHolds
      <3>3. CASE k \notin K
        BY <1>1, <1>2, <2>3, <3>1, <3>3 DEF MemoryHolds
      <3>4. QED
        BY <3>2, <3>3
    <2>4. QED
      BY <2>1, <2>2, <2>3
  <1>7. QED
    BY <1>1, <1>5, <1>6

\* What a step leaves of the stores as it was is still held.
LEMMA MemoryKept ==
  ASSUME MemoryInv, UNCHANGED <<store, now>>,
         \A w \in Workers : served'[w] = served[w]
  PROVE  \A v \in Workers, k \in Buckets : MemoryHolds(v, k)'
  BY DEF MemoryInv, MemoryHolds

\* When time passes, a history and the window it is that of lose the same.
LEMMA MemoryAges ==
  ASSUME MemoryInv, Tick
  PROVE  /\ served' \in [Stores -> [Buckets -> Seq(Nat)]]
         /\ \A v \in Workers, k \in Buckets : MemoryHolds(v, k)'
  <1>1. /\ now' = now + 1 /\ now \in Nat /\ store' = store
        /\ served' = [t \in Stores |-> [k \in Buckets |-> Fresh(served[t][k], now + 1 - Window)]]
    BY DEF Tick, MemoryInv, StoreInv
  <1>2. Window \in Nat /\ now - Window \in Int /\ now + 1 - Window \in Int
        /\ now - Window <= now + 1 - Window
    BY <1>1, WindowAssumption
  <1>3. \A t \in Stores, k \in Buckets : served[t][k] \in Seq(Nat)
    BY DEF MemoryInv
  <1>4. \A t \in Stores, k \in Buckets : Fresh(served[t][k], now + 1 - Window) \in Seq(Nat)
    BY <1>2, <1>3, FreshIsSuffix
  <1>5. served' \in [Stores -> [Buckets -> Seq(Nat)]]
    BY <1>1, <1>4
  <1>6. ASSUME NEW v \in Workers, NEW k \in Buckets
        PROVE  MemoryHolds(v, k)'
    <2>1. v \in Stores
      BY DEF Stores
    <2>2. served'[v][k] = Fresh(served[v][k], now + 1 - Window)
      BY <1>1, <2>1
    <2>3. MemoryHolds(v, k)
      BY DEF MemoryInv
    <2>4. CASE k \in DOMAIN store[v]
      <3>1. /\ store[v][k] \in Seq(Nat)
            /\ served[v][k] = Fresh(store[v][k], now - Window)
        BY <2>3, <2>4 DEF MemoryHolds
      <3>2. served'[v][k] = Fresh(store[v][k], now + 1 - Window)
        BY <1>2, <2>2, <3>1, FreshTwice
      <3>3. Len(store[v][k]) <= Limit[k]
        BY <2>3, <2>4 DEF MemoryHolds
      <3>4. store' = store /\ now' - Window = now + 1 - Window
        BY <1>1, <1>2
      <3>5. served'[v][k] = Fresh(store'[v][k], now' - Window)
        BY <3>2, <3>4, Zenon
      <3>6. QED
        BY <2>4, <3>1, <3>3, <3>4, <3>5 DEF MemoryHolds
    <2>5. CASE k \notin DOMAIN store[v]
      <3>1. served[v][k] = <<>>
        BY <2>3, <2>5 DEF MemoryHolds
      <3>2. Fresh(<<>>, now + 1 - Window) = <<>>
        <4>1. <<>> \in Seq(Nat) /\ Len(<<>>) = 0
          OBVIOUS
        <4>2. QED
          BY <1>2, <4>1, FreshWhole
      <3>3. served'[v][k] = <<>>
        BY <2>2, <3>1, <3>2
      <3>4. QED
        BY <1>1, <2>5, <3>3 DEF MemoryHolds
    <2>6. QED
      BY <2>4, <2>5
  <1>7. QED
    BY <1>5, <1>6

LEMMA MemoryNext ==
  ASSUME MemoryInv, [Next]_vars
  PROVE  MemoryInv'
  <1>1. StoreInv'
    BY StoreNext DEF MemoryInv
  <1>2. \A w \in Workers : w \in Stores /\ w # "redis"
    BY WorkersAssumption DEF Stores
  <1>3. ASSUME UNCHANGED <<zset, served, store, now>>, stuck' \subseteq Buckets,
               redis' \in {"none", "up", "down"}, asked' \in 0 .. MaxRequests
        PROVE  MemoryInv'
    BY <1>1, <1>3, MemoryKept DEF MemoryInv
  <1>4. ASSUME NEW w \in Workers, NEW b \in Buckets, Memory(w, b), stuck' \subseteq Buckets,
               asked' \in 0 .. MaxRequests
        PROVE  MemoryInv'
    <2>1. /\ served' \in [Stores -> [Buckets -> Seq(Nat)]]
          /\ \A v \in Workers, k \in Buckets : MemoryHolds(v, k)'
      BY <1>4, MemoryStep
    <2>2. UNCHANGED <<now, redis, zset>>
      BY <1>4 DEF Memory
    <2>3. QED
      BY <1>1, <1>4, <2>1, <2>2 DEF MemoryInv
  <1>5. ASSUME NEW w \in Workers, NEW b \in Buckets, Dispatch(w, b)
        PROVE  MemoryInv'
    <2>1. asked' \in 0 .. MaxRequests /\ UNCHANGED stuck
      BY <1>5, BoundAssumption DEF Dispatch, MemoryInv
    <2>2. CASE redis = "none"
      BY <1>4, <1>5, <2>1, <2>2 DEF Dispatch, MemoryInv
    <2>3. CASE redis # "none"
      BY <1>3, <1>5, <2>1, <2>3 DEF Dispatch, MemoryInv
    <2>4. QED
      BY <2>2, <2>3
  <1>6. ASSUME NEW w \in Workers, Pipe(w)
        PROVE  MemoryInv'
    <2> DEFINE b  == req[w].bucket
               at == req[w].at
               cut == {t \in zset[b] : t > at - Window}
    <2>1. b \in Buckets /\ at \in Nat
      BY <1>6 DEF Pipe, MemoryInv, StoreInv, Idle, Deciding
    <2>2. /\ zset' = [zset EXCEPT ![b] = cut \cup {at}]
          /\ \/ served' = served
             \/ served' = [served EXCEPT !["redis"][b] = Append(@, at)]
          /\ UNCHANGED <<now, redis, store, stuck, asked>>
      BY <1>6 DEF Pipe
    <2> HIDE DEF b, at
    <2>3. zset' \in [Buckets -> SUBSET Nat]
      BY <2>1, <2>2 DEF MemoryInv
    <2>4. "redis" \in Stores
      BY DEF Stores
    <2>5. /\ served' \in [Stores -> [Buckets -> Seq(Nat)]]
          /\ \A v \in Workers : served'[v] = served[v]
      <3>1. CASE served' = served
        BY <3>1 DEF MemoryInv
      <3>2. CASE served' = [served EXCEPT !["redis"][b] = Append(@, at)]
        <4>1. Append(served["redis"][b], at) \in Seq(Nat)
          BY <2>1, <2>4 DEF MemoryInv
        <4>2. [served["redis"] EXCEPT ![b] = Append(served["redis"][b], at)]
                 \in [Buckets -> Seq(Nat)]
          BY <2>1, <2>4, <4>1 DEF MemoryInv
        <4>3. served' = [served EXCEPT !["redis"] =
                           [served["redis"] EXCEPT ![b] = Append(served["redis"][b], at)]]
          BY <3>2
        <4>4. QED
          BY <1>2, <2>4, <4>2, <4>3 DEF MemoryInv
      <3>3. QED
        BY <2>2, <3>1, <3>2
    <2>6. \A v \in Workers, k \in Buckets : MemoryHolds(v, k)'
      BY <2>2, <2>5, MemoryKept
    <2>7. QED
      BY <1>1, <2>2, <2>3, <2>5, <2>6 DEF MemoryInv
  <1>7. ASSUME NEW w \in Workers, Drop(w)
        PROVE  MemoryInv'
    <2>1. req[w].bucket \in Buckets
      BY <1>7 DEF Drop, MemoryInv, StoreInv, Idle, Deciding
    <2>2. zset' \in [Buckets -> SUBSET Nat]
      BY <1>7, <2>1 DEF Drop, MemoryInv
    <2>3. UNCHANGED <<now, redis, store, served, stuck, asked>>
      BY <1>7 DEF Drop
    <2>4. \A v \in Workers, k \in Buckets : MemoryHolds(v, k)'
      BY <2>3, MemoryKept
    <2>5. QED
      BY <1>1, <2>2, <2>3, <2>4 DEF MemoryInv
  <1>8. ASSUME NEW w \in Workers, FallBack(w)
        PROVE  MemoryInv'
    <2>1. req[w].bucket \in Buckets
      BY <1>8 DEF FallBack, MemoryInv, StoreInv, Idle, Deciding
    <2>2. stuck' \subseteq Buckets /\ asked' = asked /\ asked \in 0 .. MaxRequests
      BY <1>8, <2>1 DEF FallBack, MemoryInv
    <2>3. Memory(w, req[w].bucket)
      BY <1>8 DEF FallBack
    <2>4. QED
      BY <1>4, <2>1, <2>2, <2>3
  <1>9. CASE Outage \/ Recovery \/ Exempt \/ UNCHANGED vars
    BY <1>3, <1>9 DEF Outage, Recovery, Exempt, vars, MemoryInv
  <1>10. CASE Tick
    BY <1>1, <1>10, MemoryAges DEF Tick, MemoryInv
  <1>11. QED
    BY <1>5, <1>6, <1>7, <1>8, <1>9, <1>10 DEF Next

LEMMA MemoryInit == Init => MemoryInv
  <1> SUFFICES ASSUME Init PROVE MemoryInv
    OBVIOUS
  <1>1. StoreInv
    BY StoreInit
  <1>2. \A v \in Workers, k \in Buckets : MemoryHolds(v, k)
    BY DEF Init, MemoryHolds, Stores
  <1>3. asked \in 0 .. MaxRequests
    BY BoundAssumption DEF Init
  <1>4. QED
    BY <1>1, <1>2, <1>3 DEF Init, MemoryInv

\* The windows of every store hold timestamps whatever the interleaving of round
\* trips, outages and evictions (rate_limit.py:98-189).
THEOREM LimiterTypeCorrect == Spec => []TypeOK
  BY MemoryInit, MemoryNext, MemoryIsTyped, PTL DEF Spec

\* A client refused by a fallback store is admitted if it comes back when
\* Retry-After says: the full window then loses its oldest entry, and a window is
\* never fuller than its limit (rate_limit.py:180-189).
THEOREM RetryIsHonest == Spec => []RetryHonest
  <1>1. MemoryInv => RetryHonest
    <2> SUFFICES ASSUME MemoryInv, NEW w \in Workers, NEW b \in DOMAIN store[w],
                        Len(Fresh(store[w][b], now - Window)) >= Limit[b]
                 PROVE  LET q == Fresh(store[w][b], now - Window)
                        IN  Len(Fresh(q, now + RetryAfter(q, now) - Window)) < Limit[b]
      BY DEF RetryHonest
    <2> DEFINE q == Fresh(store[w][b], now - Window)
    <2>1. b \in Buckets /\ now \in Nat /\ MemoryHolds(w, b)
      BY DEF MemoryInv, StoreInv
    <2>2. store[w][b] \in Seq(Nat) /\ Len(store[w][b]) <= Limit[b]
      BY <2>1 DEF MemoryHolds
    <2>3. Limit[b] \in Nat \ {0} /\ Window \in Nat /\ now - Window \in Int
      BY <2>1, LimitAssumption, WindowAssumption
    <2>4. q \in Seq(Nat) /\ Len(q) \in Nat /\ Len(store[w][b]) \in Nat
          /\ Len(q) <= Len(store[w][b])
      BY <2>2, <2>3, FreshIsSuffix, FreshIsShorter
    <2>5. Len(q) >= Limit[b]
      OBVIOUS
    <2> HIDE DEF q
    <2>6. Len(q) = Limit[b] /\ Len(q) > 0
      BY <2>2, <2>3, <2>4, <2>5
    <2>7. q[1] \in Nat
      BY <2>4, <2>6
    <2>8. now + RetryAfter(q, now) - Window = q[1] + 1
      BY <2>1, <2>3, <2>7 DEF RetryAfter
    <2>9. Len(Fresh(q, q[1] + 1)) < Len(q)
      BY <2>4, <2>6, <2>7, FreshLoses
    <2>10. Len(Fresh(q, now + RetryAfter(q, now) - Window)) < Limit[b]
      BY <2>6, <2>8, <2>9
    <2>11. QED
      BY <2>10 DEF q
  <1>2. QED
    BY <1>1, MemoryInit, MemoryNext, PTL DEF Spec

-----------------------------------------------------------------------------
(* The shared set *)

Admitted(b) == served["redis"][b]

Dropping(w, b) == req[w].pc = "drop" /\ req[w].bucket = b

\* A bucket's set holds its admissions of the window, and beyond them only what
\* requests under way, or cut short, have put there.
BucketInv(b) ==
    /\ IsFiniteSet(zset[b]) /\ zset[b] \subseteq 0 .. now
    /\ \A i \in 1 .. Len(Admitted(b)) : Admitted(b)[i] <= now
    /\ \A i, j \in 1 .. Len(Admitted(b)) : Admitted(b)[i] = Admitted(b)[j] => i = j
    /\ \A i \in Recent(Admitted(b)) : Admitted(b)[i] \in zset[b]
    /\ b \notin stuck =>
          \A t \in zset[b] : t > now - Window =>
             \/ \E i \in 1 .. Len(Admitted(b)) : Admitted(b)[i] = t
             \/ \E w \in Workers : Dropping(w, b) /\ req[w].at = t
    /\ Cardinality(Recent(Admitted(b))) <= Limit[b]

\* A request under way has a timestamp of its own.
PendingInv(w) ==
    req[w] # Idle =>
       /\ req[w].at <= now
       /\ \A i \in 1 .. Len(Admitted(req[w].bucket)) :
             Admitted(req[w].bucket)[i] # req[w].at
       /\ \A v \in Workers \ {w} :
             req[v] # Idle => req[v].bucket # req[w].bucket \/ req[v].at # req[w].at

RedisInv ==
    /\ MemoryInv
    /\ \A b \in Buckets : BucketInv(b)
    /\ \A w \in Workers : PendingInv(w)

LEMMA PendingTyped ==
  ASSUME MemoryInv, NEW w \in Workers, req[w] # Idle
  PROVE  req[w].pc \in {"pipe", "drop"} /\ req[w].bucket \in Buckets /\ req[w].at \in Nat
  BY DEF MemoryInv, StoreInv, Deciding

LEMMA AdmittedTyped ==
  ASSUME MemoryInv, NEW b \in Buckets
  PROVE  /\ Admitted(b) \in Seq(Nat) /\ Len(Admitted(b)) \in Nat
         /\ \A i \in 1 .. Len(Admitted(b)) : Admitted(b)[i] \in Nat
         /\ now \in Nat /\ Window \in Nat /\ Window > 0 /\ Limit[b] \in Nat
         /\ IsFiniteSet(Recent(Admitted(b))) /\ Cardinality(Recent(Admitted(b))) \in Nat
  <1>1. Admitted(b) \in Seq(Nat) /\ Len(Admitted(b)) \in Nat
    BY DEF MemoryInv, Stores, Admitted
  <1>2. \A i \in 1 .. Len(Admitted(b)) : Admitted(b)[i] \in Nat
    BY <1>1
  <1>3. IsFiniteSet(1 .. Len(Admitted(b)))
    BY <1>1, RangeSize
  <1>4. Recent(Admitted(b)) \subseteq 1 .. Len(Admitted(b))
    BY DEF Recent
  <1>5. IsFiniteSet(Recent(Admitted(b))) /\ Cardinality(Recent(Admitted(b))) \in Nat
    BY <1>3, <1>4, FS_Subset, FS_CardinalityType
  <1>6. now \in Nat /\ Window \in Nat /\ Window > 0 /\ Limit[b] \in Nat
    BY WindowAssumption, LimitAssumption DEF MemoryInv, StoreInv
  <1>7. QED
    BY <1>1, <1>2, <1>5, <1>6

\* A step that leaves a bucket's set and history alone, and drops nothing on the
\* way, leaves the bucket as it should be.
LEMMA BucketKept ==
  ASSUME NEW b \in Buckets, BucketInv(b), now' = now,
         zset'[b] = zset[b], Admitted(b)' = Admitted(b),
         b \in stuck => b \in stuck',
         b \notin stuck' => \A v \in Workers : Dropping(v, b) => req'[v] = req[v]
  PROVE  BucketInv(b)'
  BY DEF BucketInv, Dropping, Recent

\* A request that was under way and still is keeps its own timestamp if the
\* history of its bucket does not grow.
LEMMA PendingKept ==
  ASSUME MemoryInv, now' = now, NEW w \in Workers, PendingInv(w),
         req'[w] # Idle => req[w] # Idle /\ req'[w].bucket = req[w].bucket
                                         /\ req'[w].at = req[w].at,
         \A b \in Buckets : Admitted(b)' = Admitted(b),
         \A v \in Workers \ {w} :
            req'[v] # Idle => req[v] # Idle /\ req'[v].bucket = req[v].bucket
                                            /\ req'[v].at = req[v].at
  PROVE  PendingInv(w)'
  BY PendingTyped DEF PendingInv

\* What the pipeline makes of the bucket it is for: the members in the window, and
\* the request's own.
Piped(w, b, at) ==
    LET cut == {t \in zset[b] : t > at - Window}
    IN  /\ req[w].pc = "pipe" /\ req[w].bucket = b /\ req[w].at = at
        /\ at <= now /\ \A i \in 1 .. Len(Admitted(b)) : Admitted(b)[i] # at
        /\ now' = now /\ stuck' = stuck
        /\ zset'[b] = cut \cup {at}
        /\ \A k \in Buckets \ {b} : zset'[k] = zset[k] /\ Admitted(k)' = Admitted(k)
        /\ \A v \in Workers \ {w} : req'[v] = req[v]
        /\ \/ /\ Cardinality(cut) >= Limit[b]
              /\ req'[w] = [req[w] EXCEPT !.pc = "drop"]
              /\ Admitted(b)' = Admitted(b)
           \/ /\ Cardinality(cut) < Limit[b]
              /\ req'[w] = Idle
              /\ Admitted(b)' = Append(Admitted(b), at)

LEMMA PipeParts ==
  ASSUME RedisInv, NEW w \in Workers, Pipe(w)
  PROVE  \E b \in Buckets, at \in Nat : Piped(w, b, at)
  <1>1. MemoryInv /\ req[w] # Idle /\ req[w].pc = "pipe"
    BY DEF Pipe, RedisInv, Idle
  <1>2. PICK b \in Buckets, at \in Nat : b = req[w].bucket /\ at = req[w].at
    BY <1>1, PendingTyped
  <1> DEFINE cut == {t \in zset[b] : t > at - Window}
  <1>3. at <= now /\ \A i \in 1 .. Len(Admitted(b)) : Admitted(b)[i] # at
    BY <1>1, <1>2 DEF RedisInv, PendingInv
  <1>4. /\ zset \in [Buckets -> SUBSET Nat] /\ served \in [Stores -> [Buckets -> Seq(Nat)]]
        /\ req \in [Workers -> {Idle} \cup Deciding] /\ "redis" \in Stores
    BY <1>1 DEF MemoryInv, StoreInv, Stores
  <1>5. /\ zset' = [zset EXCEPT ![b] = cut \cup {at}]
        /\ now' = now /\ stuck' = stuck
        /\ IF Cardinality(cut) >= Limit[b]
           THEN req' = [req EXCEPT ![w].pc = "drop"] /\ UNCHANGED served
           ELSE req' = [req EXCEPT ![w] = Idle]
                /\ served' = [served EXCEPT !["redis"][b] = Append(@, at)]
    BY <1>2 DEF Pipe
  <1>6. Cardinality(cut) \in Nat /\ Limit[b] \in Nat
    <2>1. IsFiniteSet(zset[b])
      BY <1>2 DEF RedisInv, BucketInv
    <2>2. cut \subseteq zset[b]
      OBVIOUS
    <2>3. QED
      BY <1>2, <2>1, <2>2, FS_Subset, FS_CardinalityType, LimitAssumption
  <1> HIDE DEF cut
  <1>7. zset'[b] = cut \cup {at} /\ \A k \in Buckets \ {b} : zset'[k] = zset[k]
    BY <1>2, <1>4, <1>5
  <1>8. CASE Cardinality(cut) >= Limit[b]
    <2>1. req' = [req EXCEPT ![w].pc = "drop"] /\ served' = served
      BY <1>5, <1>8
    <2>2. req'[w] = [req[w] EXCEPT !.pc = "drop"] /\ \A v \in Workers \ {w} : req'[v] = req[v]
      BY <1>4, <2>1
    <2>3. \A k \in Buckets : Admitted(k)' = Admitted(k)
      BY <2>1 DEF Admitted
    <2>4. Piped(w, b, at)
      BY <1>1, <1>2, <1>3, <1>5, <1>7, <1>8, <2>2, <2>3 DEF Piped, cut
    <2>5. QED
      BY <2>4
  <1>9. CASE ~(Cardinality(cut) >= Limit[b])
    <2>1. /\ req' = [req EXCEPT ![w] = Idle]
          /\ served' = [served EXCEPT !["redis"][b] = Append(@, at)]
      BY <1>5, <1>9
    <2>2. req'[w] = Idle /\ \A v \in Workers \ {w} : req'[v] = req[v]
      BY <1>4, <2>1
    <2>3. Admitted(b)' = Append(Admitted(b), at)
      BY <1>2, <1>4, <2>1 DEF Admitted
    <2>4. \A k \in Buckets \ {b} : Admitted(k)' = Admitted(k)
      BY <1>2, <1>4, <2>1 DEF Admitted
    <2>5. Cardinality(cut) < Limit[b]
      BY <1>6, <1>9
    <2>6. Piped(w, b, at)
      BY <1>1, <1>2, <1>3, <1>5, <1>7, <2>2, <2>3, <2>4, <2>5 DEF Piped, cut
    <2>7. QED
      BY <2>6
  <1>10. QED
    BY <1>8, <1>9

\* The set the pipeline leaves is finite and of the past, and has the admissions
\* of the window: the cut is at the request's own time, never past the present's.
LEMMA PipedSet ==
  ASSUME RedisInv, NEW w \in Workers, NEW b \in Buckets, NEW at \in Nat, Piped(w, b, at)
  PROVE  LET cut == {t \in zset[b] : t > at - Window}
         IN  /\ IsFiniteSet(cut) /\ Cardinality(cut) \in Nat
             /\ IsFiniteSet(zset'[b]) /\ zset'[b] \subseteq 0 .. now
             /\ \A i \in Recent(Admitted(b)) : Admitted(b)[i] \in cut
             /\ Cardinality(Recent(Admitted(b))) <= Cardinality(cut)
  <1> DEFINE cut == {t \in zset[b] : t > at - Window}
             A  == Admitted(b)
  <1>1. /\ at <= now
        /\ zset'[b] = cut \cup {at}
    BY DEF Piped
  <1>2. /\ IsFiniteSet(zset[b]) /\ zset[b] \subseteq 0 .. now
        /\ \A i, j \in 1 .. Len(A) : A[i] = A[j] => i = j
        /\ \A i \in Recent(A) : A[i] \in zset[b]
    BY <1>1 DEF RedisInv, BucketInv
  <1>3. /\ now \in Nat /\ Window \in Nat /\ Len(A) \in Nat
        /\ \A i \in 1 .. Len(A) : A[i] \in Nat
    BY <1>1, AdmittedTyped DEF RedisInv
  <1>4. cut \subseteq zset[b] /\ \A t \in zset[b] : t > at - Window => t \in cut
    OBVIOUS
  <1> HIDE DEF cut, A
  <1>5. IsFiniteSet(cut) /\ Cardinality(cut) \in Nat
    BY <1>2, <1>4, FS_Subset, FS_CardinalityType
  <1>6. IsFiniteSet(zset'[b])
    BY <1>1, <1>5, FS_AddElement
  <1>7. zset'[b] \subseteq 0 .. now
    BY <1>1, <1>2, <1>3, <1>4
  <1>8. ASSUME NEW i \in Recent(A)
        PROVE  A[i] \in cut
    <2>1. i \in 1 .. Len(A) /\ A[i] > now - Window
      BY DEF Recent
    <2>2. A[i] > at - Window
      BY <1>1, <1>3, <2>1
    <2>3. QED
      BY <1>2, <1>4, <2>2
  <1>9. Cardinality(Recent(A)) <= Cardinality(cut)
    <2> DEFINE F == [i \in Recent(A) |-> A[i]]
    <2>1. F \in [Recent(A) -> cut]
      BY <1>8
    <2>2. \A i, j \in Recent(A) : F[i] = F[j] => i = j
      BY <1>2 DEF Recent
    <2>3. QED
      BY <1>5, <2>1, <2>2, NoCollisions
  <1>10. QED
    BY <1>5, <1>6, <1>7, <1>8, <1>9 DEF cut, A

\* A refused request's member is in the set until it drops it.
LEMMA RefusedBucket ==
  ASSUME RedisInv, NEW w \in Workers, NEW b \in Buckets, NEW at \in Nat, Piped(w, b, at),
         req'[w] = [req[w] EXCEPT !.pc = "drop"], Admitted(b)' = Admitted(b)
  PROVE  BucketInv(b)'
  <1> DEFINE cut == {t \in zset[b] : t > at - Window}
             A   == Admitted(b)
  <1>1. /\ IsFiniteSet(zset'[b]) /\ zset'[b] \subseteq 0 .. now
        /\ \A i \in Recent(A) : A[i] \in cut
    BY PipedSet
  <1>2. /\ req[w].pc = "pipe" /\ req[w].bucket = b /\ req[w].at = at
        /\ now' = now /\ stuck' = stuck /\ zset'[b] = cut \cup {at}
        /\ \A v \in Workers \ {w} : req'[v] = req[v]
    BY DEF Piped
  <1>3. BucketInv(b)
    BY DEF RedisInv
  <1>4. Dropping(w, b)' /\ req'[w].at = at
    <2>1. req[w] \in Deciding
      BY <1>2 DEF RedisInv, MemoryInv, StoreInv, Idle
    <2>2. QED
      BY <1>2, <2>1 DEF Dropping, Deciding
  <1>5. ASSUME b \notin stuck, NEW t \in zset'[b], t > now - Window
        PROVE  \/ \E i \in 1 .. Len(A) : A[i] = t
               \/ \E v \in Workers : Dropping(v, b)' /\ req'[v].at = t
    <2>1. CASE t = at
      BY <1>4, <2>1
    <2>2. CASE t \in zset[b]
      <3>1. CASE \E i \in 1 .. Len(A) : A[i] = t
        BY <3>1
      <3>2. CASE \E v \in Workers : Dropping(v, b) /\ req[v].at = t
        <4>1. PICK v \in Workers : Dropping(v, b) /\ req[v].at = t
          BY <3>2
        <4>2. v # w /\ req'[v] = req[v]
          BY <1>2, <4>1 DEF Dropping
        <4>3. Dropping(v, b)' /\ req'[v].at = t
          BY <4>1, <4>2 DEF Dropping
        <4>4. QED
          BY <4>3
      <3>3. QED
        BY <1>3, <1>5, <2>2, <3>1, <3>2 DEF BucketInv
    <2>3. QED
      BY <1>2, <2>1, <2>2
  <1>6. /\ \A i \in Recent(A) : A[i] \in zset'[b]
        /\ now' = now /\ stuck' = stuck /\ Admitted(b)' = A
    BY <1>1, <1>2
  <1> HIDE DEF A, cut
  <1>7. Recent(A)' = {i \in 1 .. Len(A') : A'[i] > now' - Window}
    BY DEF Recent
  <1>8. QED
    BY <1>1, <1>3, <1>5, <1>6 DEF BucketInv, Recent, A

\* An admitted request is one more in the window, which had room.
LEMMA AdmittedBucket ==
  ASSUME RedisInv, NEW w \in Workers, NEW b \in Buckets, NEW at \in Nat, Piped(w, b, at),
         Cardinality({t \in zset[b] : t > at - Window}) < Limit[b],
         Admitted(b)' = Append(Admitted(b), at)
  PROVE  BucketInv(b)'
  <1> DEFINE cut == {t \in zset[b] : t > at - Window}
             A   == Admitted(b)
             B   == Append(A, at)
             new == {i \in 1 .. Len(B) : B[i] > now - Window}
  <1>1. /\ IsFiniteSet(zset'[b]) /\ zset'[b] \subseteq 0 .. now
        /\ \A i \in Recent(A) : A[i] \in cut
        /\ Cardinality(Recent(A)) <= Cardinality(cut)
        /\ Cardinality(cut) \in Nat
    BY PipedSet
  <1>2. /\ req[w].pc = "pipe" /\ req[w].bucket = b /\ req[w].at = at /\ at <= now
        /\ now' = now /\ stuck' = stuck /\ zset'[b] = cut \cup {at}
        /\ \A v \in Workers \ {w} : req'[v] = req[v]
        /\ \A i \in 1 .. Len(A) : A[i] # at
    BY DEF Piped
  <1>3. BucketInv(b)
    BY DEF RedisInv
  <1>4. /\ A \in Seq(Nat) /\ Len(A) \in Nat /\ now \in Nat /\ Window \in Nat /\ Limit[b] \in Nat
        /\ IsFiniteSet(Recent(A)) /\ Cardinality(Recent(A)) \in Nat
    BY AdmittedTyped DEF RedisInv
  <1>5. Cardinality(cut) < Limit[b] /\ B = Admitted(b)'
    OBVIOUS
  <1>6. /\ \A i \in 1 .. Len(A) : A[i] <= now
        /\ \A i, j \in 1 .. Len(A) : A[i] = A[j] => i = j
        /\ Recent(A) = {i \in 1 .. Len(A) : A[i] > now - Window}
        /\ b \notin stuck =>
             \A t \in zset[b] : t > now - Window =>
                \/ \E i \in 1 .. Len(A) : A[i] = t
                \/ \E v \in Workers : Dropping(v, b) /\ req[v].at = t
    BY <1>3 DEF BucketInv, Recent
  <1>7. \A t \in cut : t \in zset[b]
    OBVIOUS
  <1> HIDE DEF cut, A
  <1>8. /\ Len(B) = Len(A) + 1 /\ B[Len(A) + 1] = at
        /\ \A i \in 1 .. Len(A) : B[i] = A[i]
    BY <1>4
  <1> HIDE DEF B
  <1>9. \A i \in 1 .. Len(B) : i \in 1 .. Len(A) \/ i = Len(A) + 1
    BY <1>4, <1>8
  <1>10. \A i \in 1 .. Len(B) : B[i] <= now
    BY <1>2, <1>6, <1>8, <1>9
  <1>11. \A i, j \in 1 .. Len(B) : B[i] = B[j] => i = j
    BY <1>2, <1>6, <1>8, <1>9
  <1>12. \A i \in new : B[i] \in zset'[b]
    <2> SUFFICES ASSUME NEW i \in new PROVE B[i] \in zset'[b]
      OBVIOUS
    <2>1. CASE i = Len(A) + 1
      BY <1>2, <1>8, <2>1
    <2>2. CASE i \in 1 .. Len(A)
      <3>1. i \in Recent(A)
        BY <1>6, <1>8, <2>2
      <3>2. QED
        BY <1>1, <1>2, <1>8, <2>2, <3>1
    <2>3. QED
      BY <1>9, <2>1, <2>2
  <1>13. ASSUME b \notin stuck, NEW t \in zset'[b], t > now - Window
         PROVE  \/ \E i \in 1 .. Len(B) : B[i] = t
                \/ \E v \in Workers : Dropping(v, b)' /\ req'[v].at = t
    <2>1. CASE t = at
      <3>1. Len(A) + 1 \in 1 .. Len(B)
        BY <1>4, <1>8
      <3>2. QED
        BY <1>8, <2>1, <3>1
    <2>2. CASE t \in zset[b]
      <3>1. CASE \E i \in 1 .. Len(A) : A[i] = t
        <4>1. PICK i \in 1 .. Len(A) : A[i] = t
          BY <3>1
        <4>2. i \in 1 .. Len(B) /\ B[i] = t
          BY <1>4, <1>8, <4>1
        <4>3. QED
          BY <4>2
      <3>2. CASE \E v \in Workers : Dropping(v, b) /\ req[v].at = t
        <4>1. PICK v \in Workers : Dropping(v, b) /\ req[v].at = t
          BY <3>2
        <4>2. v # w /\ req'[v] = req[v]
          BY <1>2, <4>1 DEF Dropping
        <4>3. Dropping(v, b)' /\ req'[v].at = t
          BY <4>1, <4>2 DEF Dropping
        <4>4. QED
          BY <4>3
      <3>3. QED
        BY <1>6, <1>13, <2>2, <3>1, <3>2
    <2>3. QED
      BY <1>2, <1>7, <2>1, <2>2
  <1>14. Cardinality(new) <= Limit[b]
    <2>1. new \subseteq Recent(A) \cup {Len(A) + 1}
      BY <1>6, <1>8, <1>9
    <2>2. /\ IsFiniteSet(Recent(A) \cup {Len(A) + 1})
          /\ Cardinality(Recent(A) \cup {Len(A) + 1})
                = IF Len(A) + 1 \in Recent(A) THEN Cardinality(Recent(A))
                                              ELSE Cardinality(Recent(A)) + 1
      BY <1>4, FS_AddElement
    <2>3. Cardinality(new) <= Cardinality(Recent(A) \cup {Len(A) + 1})
      BY <2>1, <2>2, FS_Subset
    <2>4. Cardinality(new) \in Nat
      BY <2>1, <2>2, FS_Subset, FS_CardinalityType
    <2>5. Cardinality(Recent(A) \cup {Len(A) + 1}) \in Nat
          /\ Cardinality(Recent(A) \cup {Len(A) + 1}) <= Cardinality(Recent(A)) + 1
      BY <1>4, <2>2
    <2> HIDE DEF new
    <2>6. QED
      BY <1>1, <1>4, <1>5, <2>3, <2>4, <2>5
  <1> HIDE DEF new
  <1>15. Recent(Admitted(b))' = new /\ Admitted(b)' = B /\ now' = now /\ stuck' = stuck
    BY <1>2, <1>5 DEF new, Recent
  <1>16. QED
    BY <1>1, <1>10, <1>11, <1>12, <1>13, <1>14, <1>15 DEF BucketInv

LEMMA PipeKeeps ==
  ASSUME RedisInv, NEW w \in Workers, Pipe(w)
  PROVE  /\ \A k \in Buckets : BucketInv(k)'
         /\ \A v \in Workers : PendingInv(v)'
  <1>1. PICK b \in Buckets, at \in Nat : Piped(w, b, at)
    BY PipeParts
  <1>2. /\ req[w].pc = "pipe" /\ req[w].bucket = b /\ req[w].at = at /\ at <= now
        /\ now' = now /\ stuck' = stuck
        /\ \A k \in Buckets \ {b} : zset'[k] = zset[k] /\ Admitted(k)' = Admitted(k)
        /\ \A v \in Workers \ {w} : req'[v] = req[v]
        /\ \/ /\ req'[w] = [req[w] EXCEPT !.pc = "drop"]
              /\ Admitted(b)' = Admitted(b)
           \/ /\ Cardinality({t \in zset[b] : t > at - Window}) < Limit[b]
              /\ req'[w] = Idle
              /\ Admitted(b)' = Append(Admitted(b), at)
    BY <1>1 DEF Piped
  <1>3. ASSUME NEW k \in Buckets \ {b}
        PROVE  BucketInv(k)'
    <2>1. \A v \in Workers : Dropping(v, k) => req'[v] = req[v]
      BY <1>2 DEF Dropping
    <2>2. QED
      BY <1>2, <2>1, BucketKept DEF RedisInv
  <1>4. BucketInv(b)'
    BY <1>1, <1>2, RefusedBucket, AdmittedBucket
  <1>5. req[w] # Idle /\ req[w] \in Deciding
    BY <1>2 DEF Idle, RedisInv, MemoryInv, StoreInv
  <1>6. ASSUME NEW v \in Workers
        PROVE  PendingInv(v)'
    <2>1. CASE req'[w] = [req[w] EXCEPT !.pc = "drop"] /\ Admitted(b)' = Admitted(b)
      <3>1. req'[w].bucket = req[w].bucket /\ req'[w].at = req[w].at
        BY <1>5, <2>1 DEF Deciding
      <3>2. \A u \in Workers : req'[u] # Idle => req[u] # Idle
                                                /\ req'[u].bucket = req[u].bucket
                                                /\ req'[u].at = req[u].at
        BY <1>2, <1>5, <3>1
      <3>3. \A k \in Buckets : Admitted(k)' = Admitted(k)
        BY <1>2, <2>1
      <3>4. QED
        BY <1>2, <3>2, <3>3, PendingKept DEF RedisInv
    <2>2. CASE req'[w] = Idle /\ Admitted(b)' = Append(Admitted(b), at)
      <3> SUFFICES ASSUME req'[v] # Idle
                   PROVE  PendingInv(v)'
        BY DEF PendingInv
      <3>1. v # w /\ req'[v] = req[v] /\ req[v] # Idle
        BY <1>2, <2>2
      <3>2. PICK c \in Buckets : c = req[v].bucket
        BY <3>1, PendingTyped DEF RedisInv
      <3>3. /\ req[v].at <= now
            /\ \A i \in 1 .. Len(Admitted(c)) : Admitted(c)[i] # req[v].at
            /\ \A u \in Workers \ {v} :
                  req[u] # Idle => req[u].bucket # c \/ req[u].at # req[v].at
        BY <3>1, <3>2 DEF RedisInv, PendingInv
      <3>4. \A i \in 1 .. Len(Admitted(c)') : Admitted(c)'[i] # req[v].at
        <4>1. CASE c = b
          <5>1. req[v].at # at
            BY <1>2, <1>5, <3>1, <3>3, <4>1
          <5>2. Admitted(b) \in Seq(Nat) /\ Len(Admitted(b)) \in Nat
            BY AdmittedTyped DEF RedisInv
          <5>3. QED
            BY <2>2, <3>3, <4>1, <5>1, <5>2
        <4>2. CASE c # b
          <5>1. Admitted(c)' = Admitted(c)
            BY <1>2, <4>2
          <5>2. QED
            BY <3>3, <5>1
        <4>3. QED
          BY <4>1, <4>2
      <3>5. \A u \in Workers \ {v} :
               req'[u] # Idle => req'[u].bucket # c \/ req'[u].at # req[v].at
        BY <1>2, <2>2, <3>3
      <3>6. QED
        BY <1>2, <3>1, <3>2, <3>3, <3>4, <3>5 DEF PendingInv
    <2>3. QED
      BY <1>2, <2>1, <2>2
  <1>7. QED
    BY <1>3, <1>4, <1>6

LEMMA DropKeeps ==
  ASSUME RedisInv, NEW w \in Workers, Drop(w)
  PROVE  /\ \A k \in Buckets : BucketInv(k)'
         /\ \A v \in Workers : PendingInv(v)'
  <1>1. MemoryInv /\ req[w] # Idle /\ req[w].pc = "drop"
    BY DEF Drop, RedisInv, Idle
  <1>2. PICK b \in Buckets, at \in Nat : b = req[w].bucket /\ at = req[w].at
    BY <1>1, PendingTyped
  <1>3. /\ zset' = [zset EXCEPT ![b] = @ \ {at}]
        /\ req' = [req EXCEPT ![w] = Idle]
        /\ now' = now /\ served' = served /\ stuck' = stuck
    BY <1>2 DEF Drop
  <1>4. /\ zset \in [Buckets -> SUBSET Nat] /\ req \in [Workers -> {Idle} \cup Deciding]
    BY <1>1 DEF MemoryInv, StoreInv
  <1>5. /\ zset'[b] = zset[b] \ {at} /\ \A k \in Buckets \ {b} : zset'[k] = zset[k]
        /\ req'[w] = Idle /\ \A v \in Workers \ {w} : req'[v] = req[v]
        /\ \A k \in Buckets : Admitted(k)' = Admitted(k)
    BY <1>3, <1>4 DEF Admitted
  <1>6. ASSUME NEW k \in Buckets \ {b}
        PROVE  BucketInv(k)'
    <2>1. \A v \in Workers : Dropping(v, k) => req'[v] = req[v]
      BY <1>2, <1>5 DEF Dropping
    <2>2. QED
      BY <1>3, <1>5, <2>1, BucketKept DEF RedisInv
  <1>7. BucketInv(b)'
    <2>1. BucketInv(b) /\ \A i \in 1 .. Len(Admitted(b)) : Admitted(b)[i] # at
      BY <1>1, <1>2 DEF RedisInv, PendingInv
    <2>2. IsFiniteSet(zset'[b]) /\ zset'[b] \subseteq 0 .. now
      <3>1. IsFiniteSet(zset[b]) /\ zset[b] \subseteq 0 .. now
        BY <2>1 DEF BucketInv
      <3>2. QED
        BY <1>5, <3>1, FS_Subset
    <2>3. \A i \in Recent(Admitted(b)) : Admitted(b)[i] \in zset'[b]
      BY <1>5, <2>1 DEF BucketInv, Recent
    <2>4. ASSUME b \notin stuck, NEW t \in zset'[b], t > now - Window
          PROVE  \/ \E i \in 1 .. Len(Admitted(b)) : Admitted(b)[i] = t
                 \/ \E v \in Workers : Dropping(v, b)' /\ req'[v].at = t
      <3>1. t \in zset[b] /\ t # at
        BY <1>5
      <3>2. CASE \E v \in Workers : Dropping(v, b) /\ req[v].at = t
        <4>1. PICK v \in Workers : Dropping(v, b) /\ req[v].at = t
          BY <3>2
        <4>2. v # w /\ req'[v] = req[v]
          BY <1>2, <1>5, <3>1, <4>1
        <4>3. Dropping(v, b)' /\ req'[v].at = t
          BY <4>1, <4>2 DEF Dropping
        <4>4. QED
          BY <4>3
      <3>3. QED
        BY <2>1, <2>4, <3>1, <3>2 DEF BucketInv
    <2>5. Recent(Admitted(b))' = Recent(Admitted(b)) /\ Admitted(b)' = Admitted(b)
      BY <1>3, <1>5 DEF Recent
    <2>6. QED
      BY <1>3, <2>1, <2>2, <2>3, <2>4, <2>5 DEF BucketInv
  <1>8. ASSUME NEW v \in Workers
        PROVE  PendingInv(v)'
    <2>1. \A u \in Workers : req'[u] # Idle => req[u] # Idle
                                              /\ req'[u].bucket = req[u].bucket
                                              /\ req'[u].at = req[u].at
      BY <1>5
    <2>2. QED
      BY <1>1, <1>3, <1>5, <2>1, PendingKept DEF RedisInv
  <1>9. QED
    BY <1>6, <1>7, <1>8

\* What leaves the window when time passes leaves the history at its front.
LEMMA TickKeepsBucket ==
  ASSUME RedisInv, Tick, NEW b \in Buckets
  PROVE  BucketInv(b)'
  <1> DEFINE cut == now + 1 - Window
             A   == Admitted(b)
             B   == Fresh(A, cut)
             k   == Cardinality(Stale(A, cut))
             new == {i \in 1 .. Len(B) : B[i] > now + 1 - Window}
  <1>1. /\ now' = now + 1 /\ zset' = zset /\ req' = req /\ stuck' = stuck
        /\ Admitted(b)' = B
    BY DEF Tick, Admitted, Stores
  <1>2. /\ A \in Seq(Nat) /\ Len(A) \in Nat /\ now \in Nat /\ Window \in Nat
        /\ Limit[b] \in Nat /\ cut \in Int
        /\ IsFiniteSet(Recent(A)) /\ Cardinality(Recent(A)) \in Nat
        /\ \A i \in 1 .. Len(A) : A[i] \in Nat
    BY AdmittedTyped DEF RedisInv
  <1>3. /\ k \in 0 .. Len(A) /\ Len(B) = Len(A) - k
        /\ \A i \in 1 .. Len(A) - k : B[i] = A[i + k]
    BY <1>2, FreshIsSuffix
  <1>4. BucketInv(b) /\ Recent(A) = {i \in 1 .. Len(A) : A[i] > now - Window}
    BY DEF RedisInv, Recent
  <1>5. /\ IsFiniteSet(zset[b]) /\ zset[b] \subseteq 0 .. now
        /\ \A i \in 1 .. Len(A) : A[i] <= now
        /\ \A i, j \in 1 .. Len(A) : A[i] = A[j] => i = j
        /\ \A i \in Recent(A) : A[i] \in zset[b]
        /\ b \notin stuck =>
              \A t \in zset[b] : t > now - Window =>
                 \/ \E i \in 1 .. Len(A) : A[i] = t
                 \/ \E w \in Workers : Dropping(w, b) /\ req[w].at = t
        /\ Cardinality(Recent(A)) <= Limit[b]
    BY <1>4 DEF BucketInv
  <1>6. ASSUME NEW i \in 1 .. Len(A), A[i] >= cut
        PROVE  i - k \in 1 .. Len(B) /\ B[i - k] = A[i]
    BY <1>2, <1>6, FreshKeeps
  <1> HIDE DEF A, B, k
  <1>7. \A i \in 1 .. Len(B) : i + k \in 1 .. Len(A) /\ B[i] = A[i + k]
    BY <1>2, <1>3
  <1>8. \A i \in 1 .. Len(B) : B[i] <= now
    BY <1>5, <1>7
  <1>9. \A i, j \in 1 .. Len(B) : B[i] = B[j] => i = j
    <2> SUFFICES ASSUME NEW i \in 1 .. Len(B), NEW j \in 1 .. Len(B), B[i] = B[j]
                 PROVE  i = j
      OBVIOUS
    <2>1. i + k = j + k
      BY <1>5, <1>7
    <2>2. QED
      BY <1>2, <1>3, <2>1
  <1>10. \A i \in new : i + k \in Recent(A)
    BY <1>2, <1>4, <1>7
  <1>11. \A i \in new : B[i] \in zset[b]
    BY <1>5, <1>7, <1>10
  <1>12. ASSUME b \notin stuck, NEW t \in zset[b], t > now + 1 - Window
         PROVE  \/ \E i \in 1 .. Len(B) : B[i] = t
                \/ \E w \in Workers : Dropping(w, b) /\ req[w].at = t
    <2>1. t \in Nat /\ t > now - Window /\ t >= cut
      BY <1>2, <1>5, <1>12
    <2>2. CASE \E i \in 1 .. Len(A) : A[i] = t
      BY <1>6, <2>1, <2>2
    <2>3. QED
      BY <1>5, <1>12, <2>1, <2>2
  <1>13. Cardinality(new) <= Limit[b]
    <2> DEFINE F == [i \in new |-> i + k]
    <2>1. F \in [new -> Recent(A)]
      BY <1>10
    <2>2. \A i, j \in new : F[i] = F[j] => i = j
      BY <1>2, <1>3
    <2> HIDE DEF F
    <2>3. IsFiniteSet(new) /\ Cardinality(new) <= Cardinality(Recent(A))
      BY <1>2, <2>1, <2>2, NoCollisions
    <2>4. Cardinality(new) \in Nat
      BY <2>3, FS_CardinalityType
    <2> HIDE DEF new
    <2>5. QED
      BY <1>2, <1>5, <2>3, <2>4
  <1>14. Recent(Admitted(b))' = new
    <2>1. Recent(Admitted(b))' = {i \in 1 .. Len(B) : B[i] > now' - Window}
      BY <1>1 DEF Recent
    <2>2. now' - Window = now + 1 - Window
      BY <1>1, <1>2
    <2>3. QED
      BY <2>1, <2>2, Zenon
  <1>15. zset[b] \subseteq 0 .. now + 1 /\ \A i \in 1 .. Len(B) : B[i] <= now + 1
    <2>1. \A i \in 1 .. Len(B) : B[i] \in Nat
      BY <1>2, <1>7
    <2>2. QED
      BY <1>2, <1>5, <1>8, <2>1
  <1> HIDE DEF new
  <1>16. \A w \in Workers : Dropping(w, b)' = Dropping(w, b)
    BY <1>1 DEF Dropping
  <1>17. \A t \in zset[b] : t > now' - Window => t > now + 1 - Window
    BY <1>1, <1>2
  <1>18. b \notin stuck' =>
            \A t \in zset'[b] : t > now' - Window =>
               \/ \E i \in 1 .. Len(B) : B[i] = t
               \/ \E w \in Workers : Dropping(w, b)' /\ req'[w].at = t
    BY <1>1, <1>12, <1>16, <1>17
  <1>19. QED
    BY <1>1, <1>5, <1>9, <1>11, <1>13, <1>14, <1>15, <1>18 DEF BucketInv

LEMMA TickKeepsPending ==
  ASSUME RedisInv, Tick, NEW w \in Workers
  PROVE  PendingInv(w)'
  <1>1. now' = now + 1 /\ req' = req
    BY DEF Tick
  <1> SUFFICES ASSUME req[w] # Idle
               PROVE  PendingInv(w)'
    BY <1>1 DEF PendingInv
  <1>2. PICK b \in Buckets, at \in Nat : b = req[w].bucket /\ at = req[w].at
    BY PendingTyped DEF RedisInv
  <1>3. /\ at <= now
        /\ \A i \in 1 .. Len(Admitted(b)) : Admitted(b)[i] # at
        /\ \A v \in Workers \ {w} : req[v] # Idle => req[v].bucket # b \/ req[v].at # at
    BY <1>2 DEF RedisInv, PendingInv
  <1> DEFINE cut == now + 1 - Window
             A   == Admitted(b)
             B   == Fresh(A, cut)
             k   == Cardinality(Stale(A, cut))
  <1>4. Admitted(b)' = B
    BY DEF Tick, Admitted, Stores
  <1>5. A \in Seq(Nat) /\ Len(A) \in Nat /\ now \in Nat /\ cut \in Int
    BY AdmittedTyped DEF RedisInv
  <1>6. /\ k \in 0 .. Len(A) /\ Len(B) = Len(A) - k
        /\ \A i \in 1 .. Len(A) - k : B[i] = A[i + k]
    BY <1>5, FreshIsSuffix
  <1> HIDE DEF A, B, k
  <1>7. \A i \in 1 .. Len(B) : i + k \in 1 .. Len(A) /\ B[i] = A[i + k]
    BY <1>5, <1>6
  <1>8. \A i \in 1 .. Len(B) : B[i] # at
    BY <1>3, <1>7 DEF A
  <1>9. at <= now + 1
    BY <1>3, <1>5
  <1>10. QED
    BY <1>1, <1>2, <1>3, <1>4, <1>8, <1>9 DEF PendingInv

\* A request that stamps itself does so as no one has: what was admitted at this
\* moment would still be in the set.
LEMMA DispatchKeepsPending ==
  ASSUME RedisInv, "stamp" \notin Races, NEW w \in Workers, NEW b \in Buckets,
         Dispatch(w, b), redis # "none", NEW v \in Workers
  PROVE  PendingInv(v)'
  <1>1. /\ FreshStamp(b) /\ now' = now /\ served' = served /\ req[w] = Idle
        /\ req' = [req EXCEPT ![w] = [pc |-> "pipe", bucket |-> b, at |-> now]]
    BY DEF Dispatch
  <1>2. req \in [Workers -> {Idle} \cup Deciding]
    BY DEF RedisInv, MemoryInv, StoreInv
  <1>3. /\ req'[w].bucket = b /\ req'[w].at = now /\ req'[w] # Idle
        /\ \A u \in Workers \ {w} : req'[u] = req[u]
        /\ \A k \in Buckets : Admitted(k)' = Admitted(k)
    BY <1>1, <1>2 DEF Idle, Admitted
  <1>4. \A u \in Workers : req[u] # Idle => ~(req[u].bucket = b /\ req[u].at = now)
    BY <1>1 DEF FreshStamp
  <1>5. /\ now \in Nat /\ Window \in Nat /\ Window > 0
        /\ \A i \in 1 .. Len(Admitted(b)) : Admitted(b)[i] \in Nat
    BY AdmittedTyped DEF RedisInv
  <1>6. \A i \in 1 .. Len(Admitted(b)) : Admitted(b)[i] # now
    <2> SUFFICES ASSUME NEW i \in 1 .. Len(Admitted(b)), Admitted(b)[i] = now
                 PROVE  FALSE
      OBVIOUS
    <2>1. i \in Recent(Admitted(b))
      BY <1>5 DEF Recent
    <2>2. now \in zset[b]
      BY <2>1 DEF RedisInv, BucketInv
    <2>3. QED
      BY <1>1, <2>2 DEF FreshStamp
  <1>7. CASE v = w
    <2>1. \A u \in Workers \ {w} :
             req'[u] # Idle => req'[u].bucket # b \/ req'[u].at # now
      BY <1>3, <1>4
    <2>2. \A i \in 1 .. Len(Admitted(b)') : Admitted(b)'[i] # now
      BY <1>3, <1>6
    <2>3. QED
      BY <1>1, <1>3, <1>5, <1>7, <2>1, <2>2 DEF PendingInv
  <1>8. CASE v # w /\ req[v] # Idle
    <2>1. PICK c \in Buckets, at \in Nat : c = req[v].bucket /\ at = req[v].at
      BY <1>8, PendingTyped DEF RedisInv
    <2>2. /\ at <= now
          /\ \A i \in 1 .. Len(Admitted(c)) : Admitted(c)[i] # at
          /\ \A u \in Workers \ {v} : req[u] # Idle => req[u].bucket # c \/ req[u].at # at
      BY <1>8, <2>1 DEF RedisInv, PendingInv
    <2>3. \A u \in Workers \ {v} : req'[u] # Idle => req'[u].bucket # c \/ req'[u].at # at
      BY <1>3, <1>4, <1>8, <2>1, <2>2
    <2>4. \A i \in 1 .. Len(Admitted(c)') : Admitted(c)'[i] # at
      BY <1>3, <2>2
    <2>5. QED
      BY <1>1, <1>3, <1>8, <2>1, <2>2, <2>3, <2>4 DEF PendingInv
  <1>9. CASE v # w /\ req[v] = Idle
    BY <1>3, <1>9 DEF PendingInv
  <1>10. QED
    BY <1>7, <1>8, <1>9

LEMMA RedisNext ==
  ASSUME RedisInv, [Next]_vars, "stamp" \notin Races
  PROVE  RedisInv'
  <1>1. MemoryInv /\ MemoryInv'
    BY MemoryNext DEF RedisInv
  <1>2. \A v \in Workers : v \in Stores /\ v # "redis"
    BY WorkersAssumption DEF Stores
  <1>3. ASSUME now' = now, zset' = zset, \A k \in Buckets : Admitted(k)' = Admitted(k),
               \A k \in Buckets : k \in stuck => k \in stuck',
               NEW w \in Workers, \A v \in Workers \ {w} : req'[v] = req[v],
               req'[w] = Idle \/ req'[w] = req[w],
               \A k \in Buckets : Dropping(w, k) => k \in stuck' \/ req'[w] = req[w]
        PROVE  RedisInv'
    <2>1. ASSUME NEW k \in Buckets
          PROVE  BucketInv(k)'
      <3>1. k \notin stuck' => \A v \in Workers : Dropping(v, k) => req'[v] = req[v]
        BY <1>3
      <3>2. QED
        BY <1>3, <3>1, BucketKept DEF RedisInv
    <2>2. ASSUME NEW v \in Workers
          PROVE  PendingInv(v)'
      <3>1. \A u \in Workers : req'[u] # Idle => req[u] # Idle
                                                /\ req'[u].bucket = req[u].bucket
                                                /\ req'[u].at = req[u].at
        BY <1>3
      <3>2. QED
        BY <1>1, <1>3, <3>1, PendingKept DEF RedisInv
    <2>3. QED
      BY <1>1, <2>1, <2>2 DEF RedisInv
  <1>4. ASSUME NEW w \in Workers, NEW b \in Buckets, Memory(w, b)
        PROVE  now' = now /\ zset' = zset /\ \A k \in Buckets : Admitted(k)' = Admitted(k)
    <2>1. \A t \in Stores \ {w} : served'[t] = served[t]
      BY <1>1, <1>4, MemoryStep
    <2>2. served'["redis"] = served["redis"]
      BY <1>2, <2>1 DEF Stores
    <2>3. QED
      BY <1>4, <2>2 DEF Memory, Admitted
  <1>5. ASSUME NEW w \in Workers, NEW b \in Buckets, Dispatch(w, b)
        PROVE  RedisInv'
    <2>1. CASE redis = "none"
      <3>1. Memory(w, b) /\ req' = req /\ stuck' = stuck
        BY <1>5, <2>1 DEF Dispatch
      <3>2. QED
        BY <1>3, <1>4, <3>1
    <2>2. CASE redis # "none"
      <3>1. /\ now' = now /\ zset' = zset /\ served' = served /\ stuck' = stuck
            /\ req[w] = Idle
            /\ req' = [req EXCEPT ![w] = [pc |-> "pipe", bucket |-> b, at |-> now]]
        BY <1>5, <2>2 DEF Dispatch
      <3>2. \A v \in Workers \ {w} : req'[v] = req[v]
        BY <1>1, <3>1 DEF MemoryInv, StoreInv
      <3>3. \A k \in Buckets : ~Dropping(w, k)
        BY <3>1 DEF Dropping, Idle
      <3>4. \A k \in Buckets : BucketInv(k)'
        <4>1. \A k \in Buckets : Admitted(k)' = Admitted(k)
          BY <3>1 DEF Admitted
        <4>2. QED
          BY <3>1, <3>2, <3>3, <4>1, BucketKept DEF RedisInv
      <3>5. \A v \in Workers : PendingInv(v)'
        BY <1>5, <2>2, DispatchKeepsPending
      <3>6. QED
        BY <1>1, <3>4, <3>5 DEF RedisInv
    <2>3. QED
      BY <2>1, <2>2
  <1>6. ASSUME NEW w \in Workers, Pipe(w) \/ Drop(w)
        PROVE  RedisInv'
    BY <1>1, <1>6, PipeKeeps, DropKeeps DEF RedisInv
  <1>7. ASSUME NEW w \in Workers, FallBack(w)
        PROVE  RedisInv'
    <2>1. PICK b \in Buckets : b = req[w].bucket
      BY <1>1, <1>7, PendingTyped DEF FallBack, Idle
    <2>2. /\ Memory(w, b)
          /\ stuck' = stuck \cup (IF req[w].pc = "drop" THEN {b} ELSE {})
          /\ req' = [req EXCEPT ![w] = Idle]
      BY <1>7, <2>1 DEF FallBack
    <2>3. req'[w] = Idle /\ \A v \in Workers \ {w} : req'[v] = req[v]
      BY <1>1, <2>2 DEF MemoryInv, StoreInv
    <2>4. \A k \in Buckets : Dropping(w, k) => k \in stuck'
      BY <2>1, <2>2 DEF Dropping
    <2>5. QED
      BY <1>3, <1>4, <2>2, <2>3, <2>4
  <1>8. CASE Outage \/ Recovery \/ Exempt \/ UNCHANGED vars
    <2>1. now' = now /\ zset' = zset /\ served' = served /\ stuck' = stuck /\ req' = req
      BY <1>8 DEF Outage, Recovery, Exempt, vars
    <2>2. \A k \in Buckets : Admitted(k)' = Admitted(k)
      BY <2>1 DEF Admitted
    <2>3. \A k \in Buckets : BucketInv(k)'
      BY <2>1, <2>2, BucketKept DEF RedisInv
    <2>4. \A v \in Workers : PendingInv(v)'
      BY <1>1, <2>1, <2>2, PendingKept DEF RedisInv
    <2>5. QED
      BY <1>1, <2>3, <2>4 DEF RedisInv
  <1>9. CASE Tick
    BY <1>1, <1>9, TickKeepsBucket, TickKeepsPending DEF RedisInv
  <1>10. QED
    BY <1>5, <1>6, <1>7, <1>8, <1>9 DEF Next

LEMMA RedisInit == Init => RedisInv
  <1> SUFFICES ASSUME Init PROVE RedisInv
    OBVIOUS
  <1>1. MemoryInv
    BY MemoryInit
  <1>2. ASSUME NEW b \in Buckets
        PROVE  BucketInv(b)
    <2>1. Admitted(b) = <<>> /\ Len(Admitted(b)) = 0 /\ zset[b] = {} /\ now = 0
      BY DEF Init, Admitted, Stores
    <2>2. Recent(Admitted(b)) = {}
      BY <2>1 DEF Recent
    <2>3. IsFiniteSet(zset[b]) /\ Cardinality(Recent(Admitted(b))) = 0
      BY <2>1, <2>2, FS_EmptySet
    <2>4. 0 <= Limit[b]
      BY LimitAssumption
    <2>5. QED
      BY <2>1, <2>2, <2>3, <2>4 DEF BucketInv
  <1>3. \A w \in Workers : PendingInv(w)
    BY DEF Init, PendingInv
  <1>4. QED
    BY <1>1, <1>2, <1>3 DEF RedisInv

\* A fallback store's history is the window it remembers, or empty.
LEMMA MemoryKeepsLimit ==
  ASSUME MemoryInv, NEW w \in Workers, NEW b \in Buckets
  PROVE  Cardinality(Recent(served[w][b])) <= Limit[b]
  <1>1. /\ MemoryHolds(w, b) /\ now - Window \in Int /\ Limit[b] \in Nat
        /\ served[w][b] \in Seq(Nat)
    BY WindowAssumption, LimitAssumption DEF MemoryInv, StoreInv, Stores
  <1>2. Len(served[w][b]) \in Nat /\ Len(served[w][b]) <= Limit[b]
    <2>1. CASE b \in DOMAIN store[w]
      <3>1. /\ store[w][b] \in Seq(Nat) /\ Len(store[w][b]) <= Limit[b]
            /\ served[w][b] = Fresh(store[w][b], now - Window)
        BY <1>1, <2>1 DEF MemoryHolds
      <3>2. Len(Fresh(store[w][b], now - Window)) \in Nat /\ Len(store[w][b]) \in Nat
            /\ Len(Fresh(store[w][b], now - Window)) <= Len(store[w][b])
        BY <1>1, <3>1, FreshIsShorter
      <3>3. QED
        BY <1>1, <3>1, <3>2
    <2>2. CASE b \notin DOMAIN store[w]
      <3>1. Len(served[w][b]) = 0
        BY <1>1, <2>2 DEF MemoryHolds
      <3>2. QED
        BY <1>1, <3>1
    <2>3. QED
      BY <2>1, <2>2
  <1>3. IsFiniteSet(1 .. Len(served[w][b]))
        /\ Cardinality(1 .. Len(served[w][b])) = Len(served[w][b])
    BY <1>2, RangeSize
  <1>4. Recent(served[w][b]) \subseteq 1 .. Len(served[w][b])
    BY DEF Recent
  <1>5. /\ Cardinality(Recent(served[w][b])) \in Nat
        /\ Cardinality(Recent(served[w][b])) <= Len(served[w][b])
    BY <1>3, <1>4, FS_Subset, FS_CardinalityType
  <1>6. QED
    BY <1>1, <1>2, <1>5

\* No store admits more than its limit in any window, however the round trips of
\* the workers interleave, stall and fail, and whatever is evicted, as long as two
\* requests never get the same timestamp (rate_limit.py:98-133, 172-189).
THEOREM StoresKeepLimit ==
  ASSUME "stamp" \notin Races
  PROVE  Spec => []StoreLimit
  <1>1. RedisInv => StoreLimit
    <2> SUFFICES ASSUME RedisInv, NEW k \in Stores, NEW b \in Buckets
                 PROVE  Cardinality(Recent(served[k][b])) <= Limit[b]
      BY DEF StoreLimit
    <2>1. CASE k = "redis"
      BY <2>1 DEF RedisInv, BucketInv, Admitted
    <2>2. CASE k \in Workers
      BY <2>2, MemoryKeepsLimit DEF RedisInv
    <2>3. QED
      BY <2>1, <2>2 DEF Stores
  <1>2. QED
    BY <1>1, RedisInit, RedisNext, PTL DEF Spec

\* What the shared set holds of the window, when no refusal is under way or was cut
\* short, are the admissions and nothing else (rate_limit.py:115-131).
THEOREM RefusalsAreTraceless ==
  ASSUME "stamp" \notin Races
  PROVE  Spec => []RefusalsLeaveNoTrace
  <1>1. RedisInv => RefusalsLeaveNoTrace
    <2> SUFFICES ASSUME RedisInv, NEW b \in Buckets, b \notin stuck,
                        ~\E w \in Workers : req[w].pc = "drop" /\ req[w].bucket = b
                 PROVE  {t \in zset[b] : t > now - Window}
                           = {served["redis"][b][i] : i \in Recent(served["redis"][b])}
      BY DEF RefusalsLeaveNoTrace
    <2>1. BucketInv(b) /\ \A w \in Workers : ~Dropping(w, b)
      BY DEF RedisInv, Dropping
    <2>2. ASSUME NEW t \in zset[b], t > now - Window
          PROVE  \E i \in Recent(Admitted(b)) : Admitted(b)[i] = t
      BY <2>1, <2>2 DEF BucketInv, Recent
    <2>3. ASSUME NEW i \in Recent(Admitted(b))
          PROVE  Admitted(b)[i] \in zset[b] /\ Admitted(b)[i] > now - Window
      BY <2>1 DEF BucketInv, Recent
    <2>4. QED
      BY <2>2, <2>3 DEF Admitted
  <1>2. QED
    BY <1>1, RedisInit, RedisNext, PTL DEF Spec

-----------------------------------------------------------------------------
(* The brute-force guard of API keys *)

\* The failures that the deque no longer lists.
Before == Cardinality(failed) - Len(failures)

Listed(f) == f.no > Before /\ f.at = failures[f.no - Before]

\* A failure is listed, or too old to count, or it happened before the moment of
\* the block last set; and what is listed did happen.
GuardInv ==
    /\ GuardTypeOK
    /\ IsFiniteSet(failed)
    /\ Len(failures) <= Cardinality(failed)
    /\ \A i \in 1 .. Len(failures) : failures[i] <= clock
    /\ \A f \in failed : f.at <= clock /\ f.no \in 1 .. Cardinality(failed)
    /\ \A f, g \in failed : f.no = g.no => f = g
    /\ \A f \in failed :
          Listed(f) \/ f.at + FailWindow < clock \/ f.at + BlockSeconds <= until
    /\ \A i \in 1 .. Len(failures) :
          \E f \in failed : f.no = Before + i /\ f.at = failures[i]

LEMMA GuardInit1 == GuardInit => GuardInv
  <1> SUFFICES ASSUME GuardInit PROVE GuardInv
    OBVIOUS
  <1>1. IsFiniteSet(failed) /\ Cardinality(failed) = 0
    BY FS_EmptySet DEF GuardInit
  <1>2. Len(failures) = 0 /\ failures \in Seq(Nat)
    BY DEF GuardInit
  <1>3. GuardTypeOK
    BY <1>2, FailLimitAssumption DEF GuardInit, GuardTypeOK, Never
  <1>4. QED
    BY <1>1, <1>2, <1>3 DEF GuardInit, GuardInv

\* A failure that counts neither is listed nor too old belongs to a block in force.
LEMMA ListedIfOpen ==
  ASSUME GuardInv, ~Blocked, NEW f \in failed, f.at + FailWindow >= clock
  PROVE  Listed(f)
  BY FailWindowAssumption DEF GuardInv, GuardTypeOK, Blocked

\* How a failure joins the window: those that drop out are too old, the others
\* move up, and the new one is last.
LEMMA RecordedWindow ==
  ASSUME GuardInv
  PROVE  LET k == Cardinality(Stale(failures, clock - FailWindow))
         IN  /\ Recorded \in Seq(Nat)
             /\ k \in 0 .. Len(failures)
             /\ Len(Recorded) = Len(failures) - k + 1
             /\ \A i \in 1 .. k : failures[i] + FailWindow < clock
             /\ \A i \in 1 .. Len(failures) - k : Recorded[i] = failures[i + k]
             /\ Recorded[Len(Recorded)] = clock
             /\ \A i \in 1 .. Len(Recorded) : Recorded[i] + FailWindow >= clock
                                              /\ Recorded[i] <= clock
             /\ \A i, j \in 1 .. Len(Recorded) : i <= j => Recorded[i] <= Recorded[j]
  <1> DEFINE cut == clock - FailWindow
             k   == Cardinality(Stale(failures, cut))
             kept == Fresh(failures, cut)
  <1>1. /\ clock \in Nat /\ FailWindow \in Nat /\ failures \in Seq(Nat) /\ cut \in Int
        /\ \A i, j \in 1 .. Len(failures) : i <= j => failures[i] <= failures[j]
        /\ \A i \in 1 .. Len(failures) : failures[i] <= clock
    BY FailWindowAssumption DEF GuardInv, GuardTypeOK
  <1> HIDE DEF cut
  <1>2. /\ kept \in Seq(Nat) /\ k \in 0 .. Len(failures) /\ Len(failures) \in Nat
        /\ Len(kept) = Len(failures) - k
        /\ \A i \in 1 .. Len(failures) - k : kept[i] = failures[i + k]
    BY <1>1, FreshIsSuffix
  <1>3. \A i \in 1 .. k : i \in 1 .. Len(failures) /\ failures[i] < cut
    BY <1>1, StaleIsPrefix
  <1>4. Len(kept) > 0 => kept[1] >= cut
    BY <1>1, FreshHead
  <1>5. Recorded = Append(kept, clock)
    BY DEF Recorded, cut
  <1> HIDE DEF k, kept
  <1>6. \A i \in 1 .. Len(failures) : failures[i] \in Nat
    BY <1>1
  <1>7. /\ Recorded \in Seq(Nat) /\ Len(Recorded) = Len(failures) - k + 1
        /\ Recorded[Len(Recorded)] = clock
        /\ \A i \in 1 .. Len(failures) - k : Recorded[i] = failures[i + k]
    BY <1>1, <1>2, <1>5
  <1>8. \A i \in 1 .. k : failures[i] + FailWindow < clock
    BY <1>1, <1>3, <1>6 DEF cut
  <1>9. \A i \in 1 .. Len(failures) - k :
           /\ i + k \in 1 .. Len(failures) /\ 1 + k \in 1 .. Len(failures) /\ 1 + k <= i + k
           /\ failures[1 + k] <= failures[i + k]
    BY <1>1, <1>2
  <1>10. \A i \in 1 .. Len(failures) - k : Recorded[i] >= cut /\ Recorded[i] <= clock
    <2> SUFFICES ASSUME NEW i \in 1 .. Len(failures) - k
                 PROVE  Recorded[i] >= cut /\ Recorded[i] <= clock
      OBVIOUS
    <2>1. 1 \in 1 .. Len(failures) - k /\ Len(kept) > 0
      BY <1>2
    <2>2. failures[1 + k] >= cut
      BY <1>2, <1>4, <2>1
    <2>3. /\ Recorded[i] = failures[i + k] /\ failures[i + k] >= failures[1 + k]
          /\ failures[i + k] \in Nat /\ failures[1 + k] \in Nat /\ failures[i + k] <= clock
      BY <1>1, <1>6, <1>7, <1>9
    <2>4. QED
      BY <1>1, <2>2, <2>3
  <1>11. clock >= cut /\ clock <= clock
    BY <1>1 DEF cut
  <1>12. \A i \in 1 .. Len(Recorded) : i \in 1 .. Len(failures) - k \/ i = Len(Recorded)
    BY <1>2, <1>7
  <1>13. \A i \in 1 .. Len(Recorded) : Recorded[i] >= cut /\ Recorded[i] <= clock
    BY <1>7, <1>10, <1>11, <1>12
  <1>14. \A i \in 1 .. Len(Recorded) : Recorded[i] \in Nat
    BY <1>7
  <1>15. \A i \in 1 .. Len(Recorded) : Recorded[i] + FailWindow >= clock /\ Recorded[i] <= clock
    BY <1>1, <1>13, <1>14 DEF cut
  <1>16. \A i, j \in 1 .. Len(Recorded) : i <= j => Recorded[i] <= Recorded[j]
    <2> SUFFICES ASSUME NEW i \in 1 .. Len(Recorded), NEW j \in 1 .. Len(Recorded), i <= j
                 PROVE  Recorded[i] <= Recorded[j]
      OBVIOUS
    <2>1. CASE j = Len(Recorded)
      BY <1>7, <1>13, <2>1
    <2>2. CASE j # Len(Recorded)
      <3>1. i \in 1 .. Len(failures) - k /\ j \in 1 .. Len(failures) - k
        <4>1. i # Len(Recorded)
          BY <2>2, <1>7
        <4>2. QED
          BY <1>12, <2>2, <4>1
      <3>2. i + k \in 1 .. Len(failures) /\ j + k \in 1 .. Len(failures) /\ i + k <= j + k
        BY <1>2, <3>1
      <3>3. failures[i + k] <= failures[j + k]
        BY <1>1, <3>2
      <3>4. QED
        BY <1>7, <3>1, <3>3
    <2>3. QED
      BY <2>1, <2>2
  <1>17. QED
    BY <1>2, <1>7, <1>8, <1>15, <1>16 DEF k, cut

LEMMA FailGuard ==
  ASSUME GuardInv, NEW c \in Clients, Fail(c)
  PROVE  GuardInv'
  <1> DEFINE k == Cardinality(Stale(failures, clock - FailWindow))
             n == Cardinality(failed)
             g == [at |-> clock, no |-> n + 1]
  <1>1. /\ clock \in Nat /\ FailWindow \in Nat /\ BlockSeconds \in Nat
        /\ FailWindow < BlockSeconds /\ FailLimit \in Nat \ {0}
        /\ failures \in Seq(Nat) /\ Len(failures) \in Nat /\ until \in Nat
        /\ IsFiniteSet(failed) /\ n \in Nat /\ Len(failures) <= n
    BY FailWindowAssumption, FailLimitAssumption, FS_CardinalityType DEF GuardInv, GuardTypeOK
  <1>2. /\ Recorded \in Seq(Nat)
        /\ k \in 0 .. Len(failures)
        /\ Len(Recorded) = Len(failures) - k + 1
        /\ \A i \in 1 .. k : failures[i] + FailWindow < clock
        /\ \A i \in 1 .. Len(failures) - k : Recorded[i] = failures[i + k]
        /\ Recorded[Len(Recorded)] = clock
        /\ \A i \in 1 .. Len(Recorded) : Recorded[i] <= clock
        /\ \A i, j \in 1 .. Len(Recorded) : i <= j => Recorded[i] <= Recorded[j]
    BY RecordedWindow
  <1>3. /\ failed' = failed \cup {g} /\ looking' = looking \ {c} /\ clock' = clock
        /\ IF Len(Recorded) >= FailLimit
           THEN until' = clock + BlockSeconds /\ failures' = << >>
           ELSE failures' = Recorded /\ until' = until
    BY DEF Fail
  <1>4. \A f \in failed : f.at \in Nat /\ f.at <= clock /\ f.no \in 1 .. n
    BY DEF GuardInv, GuardTypeOK
  <1> HIDE DEF k, n
  <1>5. g \notin failed /\ g.at = clock /\ g.no = n + 1
    BY <1>1, <1>4
  <1>6. IsFiniteSet(failed') /\ Cardinality(failed') = n + 1
    BY <1>1, <1>3, <1>5, FS_AddElement DEF n
  <1>7. \A f \in failed' : f.at \in Nat /\ f.at <= clock' /\ f.no \in 1 .. Cardinality(failed')
    BY <1>1, <1>3, <1>4, <1>5, <1>6
  <1>8. \A f, h \in failed' : f.no = h.no => f = h
    <2>1. \A f \in failed : f.no # g.no
      BY <1>1, <1>4, <1>5
    <2>2. QED
      BY <1>3, <2>1 DEF GuardInv
  <1>9. GuardTypeOK'
    <2>0. Len(Recorded) \in Nat /\ Len(<<>>) = 0
      BY <1>2
    <2>1. failures' \in Seq(Nat) /\ Len(failures') < FailLimit /\ until' \in Nat
      <3>1. CASE Len(Recorded) >= FailLimit
        BY <1>1, <1>3, <2>0, <3>1
      <3>2. CASE ~(Len(Recorded) >= FailLimit)
        BY <1>1, <1>2, <1>3, <2>0, <3>2
      <3>3. QED
        BY <3>1, <3>2
    <2>2. \A i, j \in 1 .. Len(failures') : i <= j => failures'[i] <= failures'[j]
      <3>1. CASE Len(Recorded) >= FailLimit
        BY <1>3, <2>0, <3>1
      <3>2. CASE ~(Len(Recorded) >= FailLimit)
        BY <1>2, <1>3, <3>2
      <3>3. QED
        BY <3>1, <3>2
    <2>3. QED
      BY <1>1, <1>3, <1>7, <2>1, <2>2 DEF GuardInv, GuardTypeOK
  <1>10. CASE Len(Recorded) >= FailLimit
    <2>1. until' = clock + BlockSeconds /\ Len(failures') = 0 /\ failures' = << >>
      BY <1>3, <1>10
    <2>2. \A f \in failed' : f.at + BlockSeconds <= until'
      <3>1. until' = clock' + BlockSeconds /\ clock' \in Nat
        BY <1>1, <1>3, <2>1
      <3>2. QED
        BY <1>1, <1>7, <3>1
    <2>3. Len(failures') <= Cardinality(failed') /\ 1 .. Len(failures') = {}
      BY <1>1, <1>6, <2>1
    <2>4. QED
      BY <1>6, <1>7, <1>8, <1>9, <2>2, <2>3 DEF GuardInv
  <1>11. CASE ~(Len(Recorded) >= FailLimit)
    <2>1. failures' = Recorded /\ until' = until
      BY <1>3, <1>11
    <2>2. Before' = Before + k /\ Before \in Nat /\ Before = n - Len(failures)
      BY <1>1, <1>2, <1>6, <2>1 DEF Before, n
    <2>3. Len(failures') <= Cardinality(failed')
      BY <1>1, <1>2, <1>6, <2>1
    <2>4. /\ g.no - Before' = Len(Recorded) /\ g.no > Before'
          /\ Len(Recorded) \in 1 .. Len(Recorded)
      BY <1>1, <1>2, <1>5, <2>2
    <2>5. ASSUME NEW f \in failed'
          PROVE  \/ f.no > Before' /\ f.at = failures'[f.no - Before']
                 \/ f.at + FailWindow < clock' \/ f.at + BlockSeconds <= until'
      <3>1. CASE f = g
        BY <1>2, <1>5, <2>1, <2>4, <3>1
      <3>2. CASE f \in failed /\ Listed(f)
        <4> DEFINE i == f.no - Before
        <4>1. i \in 1 .. Len(failures) /\ f.at = failures[i] /\ f.no \in Nat
          BY <1>1, <1>4, <2>2, <3>2 DEF Listed
        <4>2. f.no - Before' = i - k
          BY <1>2, <2>2, <4>1
        <4> HIDE DEF i
        <4>3. CASE i \in 1 .. k
          BY <1>2, <1>3, <4>1, <4>3
        <4>4. CASE i \notin 1 .. k
          <5>1. i - k \in 1 .. Len(failures) - k /\ (i - k) + k = i
            BY <1>1, <1>2, <4>1, <4>4
          <5>2. Recorded[i - k] = f.at
            BY <1>2, <4>1, <5>1
          <5>3. f.no > Before'
            BY <1>2, <2>2, <4>1, <4>2, <5>1
          <5>4. QED
            BY <2>1, <4>2, <5>2, <5>3
        <4>5. QED
          BY <4>3, <4>4
      <3>3. CASE f \in failed /\ (f.at + FailWindow < clock \/ f.at + BlockSeconds <= until)
        BY <1>3, <2>1, <3>3
      <3>4. f = g \/ f \in failed
        BY <1>3
      <3>5. QED
        BY <3>1, <3>2, <3>3, <3>4 DEF GuardInv
    <2>6. ASSUME NEW i \in 1 .. Len(failures')
          PROVE  \E f \in failed' : f.no = Before' + i /\ f.at = failures'[i]
      <3>1. CASE i = Len(Recorded)
        <4>1. g \in failed' /\ g.no = Before' + i
          BY <1>1, <1>2, <1>3, <1>5, <2>2, <3>1
        <4>2. g.at = failures'[i]
          BY <1>2, <1>5, <2>1, <3>1
        <4>3. QED
          BY <4>1, <4>2
      <3>2. CASE i # Len(Recorded)
        <4>1. i \in 1 .. Len(failures) - k /\ i + k \in 1 .. Len(failures)
          BY <1>1, <1>2, <2>1, <3>2
        <4>2. PICK f \in failed : f.no = Before + (i + k) /\ f.at = failures[i + k]
          BY <4>1 DEF GuardInv
        <4>3. Before + (i + k) = Before' + i /\ failures'[i] = failures[i + k]
          BY <1>2, <2>1, <2>2, <4>1
        <4>4. QED
          BY <1>3, <4>2, <4>3
      <3>3. QED
        BY <3>1, <3>2
    <2>7. \A i \in 1 .. Len(failures') : failures'[i] <= clock'
      BY <1>2, <1>3, <2>1
    <2>8. QED
      BY <1>6, <1>7, <1>8, <1>9, <2>3, <2>5, <2>6, <2>7 DEF GuardInv, Listed
  <1>12. QED
    BY <1>10, <1>11

\* A block that is over leaves behind only what is too old to count.
LEMMA CheckGuard ==
  ASSUME GuardInv, NEW c \in Clients, Check(c)
  PROVE  GuardInv'
  <1>1. /\ UNCHANGED <<clock, failures, failed>> /\ until' = 0
        /\ looking' = looking \cup {c} /\ clock \in Nat /\ until \in Nat /\ clock >= until
    BY DEF Check, Never, Blocked, GuardInv, GuardTypeOK
  <1>2. \A f \in failed : Listed(f) \/ f.at + FailWindow < clock
    BY <1>1, FailWindowAssumption DEF GuardInv, GuardTypeOK
  <1>3. \A f \in failed' : \/ f.no > Before' /\ f.at = failures'[f.no - Before']
                           \/ f.at + FailWindow < clock' \/ f.at + BlockSeconds <= until'
    BY <1>1, <1>2 DEF Listed, Before
  <1>4. GuardTypeOK'
    BY <1>1 DEF GuardInv, GuardTypeOK
  <1>5. QED
    BY <1>1, <1>3, <1>4 DEF GuardInv, Listed, Before

LEMMA GuardNext1 ==
  ASSUME GuardInv, [GuardNext]_guardVars
  PROVE  GuardInv'
  <1>1. CASE UNCHANGED <<clock, failures, until, failed>> /\ looking' \subseteq Clients
    BY <1>1 DEF GuardInv, GuardTypeOK, Listed, Before
  <1>2. ASSUME NEW c \in Clients, Leave(c)
        PROVE  GuardInv'
    BY <1>1, <1>2 DEF Leave, GuardInv, GuardTypeOK
  <1>3. CASE ClockTick
    <2>1. /\ UNCHANGED <<failures, until, looking, failed>> /\ clock' = clock + 1
          /\ clock \in Nat /\ FailWindow \in Nat
      BY <1>3, FailWindowAssumption DEF ClockTick, GuardInv, GuardTypeOK
    <2>2. GuardTypeOK'
      BY <2>1 DEF GuardInv, GuardTypeOK
    <2>3. \A i \in 1 .. Len(failures) : failures[i] <= clock' /\ failures[i] \in Nat
      BY <2>1 DEF GuardInv, GuardTypeOK
    <2>4. \A f \in failed : f.at \in Nat /\ f.at <= clock' /\ f.no \in 1 .. Cardinality(failed)
      BY <2>1 DEF GuardInv, GuardTypeOK
    <2>5. \A f \in failed :
             Listed(f) \/ f.at + FailWindow < clock' \/ f.at + BlockSeconds <= until
      BY <2>1, <2>4 DEF GuardInv
    <2>6. QED
      BY <2>1, <2>2, <2>3, <2>4, <2>5 DEF GuardInv, Listed, Before
  <1>4. CASE UNCHANGED guardVars
    BY <1>1, <1>4 DEF guardVars, GuardInv, GuardTypeOK
  <1>5. QED
    BY <1>2, <1>3, <1>4, CheckGuard, FailGuard DEF GuardNext

\* The times are the clock's, the deque is in order, and it never grows to the
\* limit that would have emptied it.
THEOREM GuardTypeCorrect == GuardSpec => []GuardTypeOK
  <1>1. GuardInv => GuardTypeOK
    BY DEF GuardInv
  <1>2. QED
    BY <1>1, GuardInit1, GuardNext1, PTL DEF GuardSpec

\* However the requests of an address overlap, with whatever limit, and with any
\* window shorter than the block, whoever failed so often within the window is
\* blocked (core/apikeys.py:50-53).
THEOREM GuardBlocksWhoFails == GuardSpec => []GuardBlocks
  <1>1. GuardInv => GuardBlocks
    <2> SUFFICES ASSUME GuardInv, ~Blocked
                 PROVE  ~(Cardinality(FailedBetween(clock, clock)) >= FailLimit)
      BY DEF GuardBlocks
    <2> DEFINE S == FailedBetween(clock, clock)
               T == 1 .. Len(failures)
    <2>1. /\ failures \in Seq(Nat) /\ Len(failures) < FailLimit /\ Len(failures) \in Nat
          /\ IsFiniteSet(failed) /\ Cardinality(failed) \in Nat
          /\ Len(failures) <= Cardinality(failed)
      BY FS_CardinalityType DEF GuardInv, GuardTypeOK
    <2>2. \A f \in S : f \in failed /\ f.at + FailWindow >= clock
      BY DEF FailedBetween, GuardInv, GuardTypeOK
    <2>3. \A f \in S : Listed(f) /\ f.no \in 1 .. Cardinality(failed)
      BY <2>2, ListedIfOpen DEF GuardInv
    <2>4. Before = Cardinality(failed) - Len(failures)
      BY DEF Before
    <2> HIDE DEF S
    <2>5. \A f \in S : f.no - Before \in T /\ f.no \in Nat
      BY <2>1, <2>3, <2>4 DEF Listed
    <2> DEFINE F == [f \in S |-> f.no - Before]
    <2>6. F \in [S -> T]
      BY <2>5
    <2>7. \A f, g \in S : F[f] = F[g] => f = g
      <3>1. \A f, g \in S : F[f] = F[g] => f.no = g.no
        BY <2>1, <2>4, <2>5
      <3>2. QED
        BY <2>2, <3>1 DEF GuardInv
    <2>8. IsFiniteSet(T) /\ Cardinality(T) = Len(failures)
      BY <2>1, RangeSize
    <2> HIDE DEF F, T
    <2>9. IsFiniteSet(S) /\ Cardinality(S) <= Cardinality(T)
      BY <2>6, <2>7, <2>8, NoCollisions
    <2>10. Cardinality(S) \in Nat
      BY <2>9, FS_CardinalityType
    <2>11. QED
      BY <2>1, <2>8, <2>9, <2>10, FailLimitAssumption DEF S
  <1>2. QED
    BY <1>1, GuardInit1, GuardNext1, PTL DEF GuardSpec

\* The moment of the block last set, and what was in its window.
EarnedInv ==
    /\ GuardInv
    /\ until # Never =>
          /\ until - BlockSeconds \in Nat
          /\ Cardinality(FailedBetween(until - BlockSeconds, until - BlockSeconds)) >= FailLimit

\* Failures are never forgotten, so no window of them shrinks.
LEMMA FailuresStay ==
  ASSUME IsFiniteSet(failed'), failed \subseteq failed', NEW t
  PROVE  /\ IsFiniteSet(FailedBetween(t, t)') /\ IsFiniteSet(FailedBetween(t, t))
         /\ Cardinality(FailedBetween(t, t)) <= Cardinality(FailedBetween(t, t)')
  <1>1. FailedBetween(t, t) \subseteq FailedBetween(t, t)'
    BY DEF FailedBetween
  <1>2. FailedBetween(t, t)' \subseteq failed'
    BY DEF FailedBetween
  <1>3. IsFiniteSet(FailedBetween(t, t)')
    BY <1>2, FS_Subset
  <1>4. QED
    BY <1>1, <1>3, FS_Subset

\* When a failure fills the deque, all that the deque lists lies in the window.
LEMMA FailEarns ==
  ASSUME GuardInv, GuardInv', NEW c \in Clients, Fail(c), Len(Recorded) >= FailLimit,
         NEW t, t = clock
  PROVE  Cardinality(FailedBetween(t, t)') >= FailLimit
  <1> DEFINE k == Cardinality(Stale(failures, clock - FailWindow))
             n == Cardinality(failed)
             g == [at |-> clock, no |-> n + 1]
             S == {f \in failed' : t <= f.at + FailWindow /\ f.at <= t}
             T == 1 .. Len(Recorded)
  <1>1. /\ clock \in Nat /\ FailWindow \in Nat /\ FailLimit \in Nat
        /\ Len(failures) \in Nat /\ n \in Nat /\ Len(failures) <= n
    BY FailWindowAssumption, FailLimitAssumption, FS_CardinalityType DEF GuardInv, GuardTypeOK
  <1>2. /\ k \in 0 .. Len(failures)
        /\ Len(Recorded) = Len(failures) - k + 1
        /\ \A i \in 1 .. Len(failures) - k : Recorded[i] = failures[i + k]
        /\ Recorded[Len(Recorded)] = clock
        /\ \A i \in 1 .. Len(Recorded) : Recorded[i] + FailWindow >= clock /\ Recorded[i] <= clock
    BY RecordedWindow
  <1>3. failed' = failed \cup {g}
    BY DEF Fail
  <1>4. Before = n - Len(failures)
    BY DEF Before
  <1> HIDE DEF k, n
  <1>5. ASSUME NEW i \in T
        PROVE  \E f \in failed' : f.no = Before + k + i /\ f.at = Recorded[i]
    <2>1. CASE i = Len(Recorded)
      <3>1. g \in failed' /\ g.no = Before + k + i /\ g.at = Recorded[i]
        BY <1>1, <1>2, <1>3, <1>4, <2>1
      <3>2. QED
        BY <3>1
    <2>2. CASE i # Len(Recorded)
      <3>1. i \in 1 .. Len(failures) - k /\ i + k \in 1 .. Len(failures)
        BY <1>1, <1>2, <2>2
      <3>2. PICK f \in failed : f.no = Before + (i + k) /\ f.at = failures[i + k]
        BY <3>1 DEF GuardInv
      <3>3. Before + (i + k) = Before + k + i
        BY <1>1, <1>2, <1>4, <3>1
      <3>4. QED
        BY <1>2, <1>3, <3>1, <3>2, <3>3
    <2>3. QED
      BY <2>1, <2>2
  <1> DEFINE F == [i \in T |-> CHOOSE f \in failed' : f.no = Before + k + i
                                                     /\ f.at = Recorded[i]]
  <1>6. \A i \in T : F[i] \in failed' /\ F[i].no = Before + k + i /\ F[i].at = Recorded[i]
    BY <1>5
  <1>7. \A i \in T : F[i] \in S
    BY <1>1, <1>2, <1>6
  <1>8. F \in [T -> S]
    BY <1>7
  <1>9. \A i, j \in T : F[i] = F[j] => i = j
    <2>1. Before \in Int /\ k \in Int
      BY <1>1, <1>2, <1>4
    <2>2. ASSUME NEW i \in T, NEW j \in T, F[i] = F[j]
          PROVE  i = j
      <3>1. Before + k + i = Before + k + j
        BY <1>6, <2>2
      <3>2. i \in Int /\ j \in Int
        OBVIOUS
      <3>3. QED
        BY <2>1, <3>1, <3>2
    <2>3. QED
      BY <2>2
  <1>10. IsFiniteSet(S)
    <2>1. S \subseteq failed' /\ IsFiniteSet(failed')
      BY DEF GuardInv
    <2>2. QED
      BY <2>1, FS_Subset
  <1> HIDE DEF F, S
  <1>11. Cardinality(T) <= Cardinality(S)
    BY <1>8, <1>9, <1>10, NoCollisions
  <1>12. Len(Recorded) \in Nat
    BY <1>1, <1>2
  <1>13. Cardinality(T) = Len(Recorded)
    BY <1>12, RangeSize
  <1>14. Cardinality(S) \in Nat
    BY <1>10, FS_CardinalityType
  <1>15. Cardinality(S) >= FailLimit
    BY <1>1, <1>11, <1>12, <1>13, <1>14
  <1>16. FailedBetween(t, t)' = S
    BY DEF FailedBetween, S
  <1>17. QED
    BY <1>15, <1>16

LEMMA EarnedNext ==
  ASSUME EarnedInv, [GuardNext]_guardVars
  PROVE  EarnedInv'
  <1>0. GuardInv /\ GuardInv' /\ IsFiniteSet(failed')
    BY GuardNext1 DEF EarnedInv, GuardInv
  <1>1. CASE UNCHANGED until /\ failed \subseteq failed'
    <2>1. SUFFICES ASSUME NEW t, t = until - BlockSeconds, until # Never
                   PROVE  t \in Nat /\ Cardinality(FailedBetween(t, t)') >= FailLimit
      BY <1>0, <1>1 DEF EarnedInv, FailedBetween
    <2>2. t \in Nat /\ Cardinality(FailedBetween(t, t)) >= FailLimit
      BY <2>1 DEF EarnedInv
    <2>3. /\ IsFiniteSet(FailedBetween(t, t)') /\ IsFiniteSet(FailedBetween(t, t))
          /\ Cardinality(FailedBetween(t, t)) <= Cardinality(FailedBetween(t, t)')
      BY <1>0, <1>1, FailuresStay
    <2>4. Cardinality(FailedBetween(t, t)) \in Nat /\ Cardinality(FailedBetween(t, t)') \in Nat
      <3>1. \A S : IsFiniteSet(S) => Cardinality(S) \in Nat
        BY FS_CardinalityType
      <3>2. QED
        BY <2>3, <3>1
    <2>5. QED
      <3>1. FailLimit \in Nat
        BY FailLimitAssumption
      <3>2. QED
        BY <2>2, <2>3, <2>4, <3>1
  <1>2. ASSUME NEW c \in Clients, Fail(c)
        PROVE  EarnedInv'
    <2>1. CASE ~(Len(Recorded) >= FailLimit)
      BY <1>1, <1>2, <2>1 DEF Fail
    <2>2. CASE Len(Recorded) >= FailLimit
      <3>1. until' = clock + BlockSeconds /\ clock \in Nat /\ BlockSeconds \in Nat
        BY <1>0, <1>2, <2>2, FailWindowAssumption DEF Fail, GuardInv, GuardTypeOK
      <3>2. until' - BlockSeconds = clock
        BY <3>1
      <3>3. ASSUME NEW t, t = clock
            PROVE  Cardinality(FailedBetween(t, t)') >= FailLimit
        BY <1>0, <1>2, <2>2, <3>3, FailEarns
      <3>4. QED
        BY <1>0, <3>1, <3>2, <3>3 DEF EarnedInv, FailedBetween
    <2>3. QED
      BY <2>1, <2>2
  <1>3. ASSUME NEW c \in Clients, Check(c)
        PROVE  EarnedInv'
    BY <1>0, <1>3 DEF Check, EarnedInv
  <1>4. CASE (\E c \in Clients : Leave(c)) \/ ClockTick \/ UNCHANGED guardVars
    BY <1>1, <1>4 DEF Leave, ClockTick, guardVars
  <1>5. QED
    BY <1>2, <1>3, <1>4 DEF GuardNext

\* Nobody is blocked for less than the limit within one window, however the
\* failures of overlapping requests fall (core/apikeys.py:50-53).
THEOREM BlocksAreEarned == GuardSpec => []BlockEarned
  <1>1. GuardInit => EarnedInv
    BY GuardInit1 DEF GuardInit, EarnedInv
  <1>2. EarnedInv => BlockEarned
    BY DEF EarnedInv, BlockEarned, Blocked, Never, GuardInv, GuardTypeOK
  <1>3. QED
    BY <1>1, <1>2, EarnedNext, PTL DEF GuardSpec

=============================================================================
