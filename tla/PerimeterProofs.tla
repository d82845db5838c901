--------------------------- MODULE PerimeterProofs ---------------------------
(***************************************************************************)
(* Theorems about the perimeter: what the scorer does with ordinary        *)
(* requests, for every kind of request and any number of them, and that a  *)
(* block lasts, for any number of requests in flight, any times and any    *)
(* interleaving without a clean-up beside a writer of the row.             *)
(***************************************************************************)
EXTENDS Perimeter, FiniteSetTheorems, SequenceTheorems, TLAPS

-----------------------------------------------------------------------------
(* The score *)

LEMMA AuthValues ==
  ASSUME NEW k \in Kinds
  PROVE  /\ k.token \in Verified => AuthRisk(k) \in {50, 350, 600}
         /\ k.token = "expired" => AuthRisk(k) = 450
  BY DEF AuthRisk, Verified

LEMMA BehaviorValues ==
  ASSUME NEW n \in Nat
  PROVE  /\ BehaviorRisk(n) \in {0, 300, 600, 900}
         /\ ~Burst(n) => BehaviorRisk(n) \in {0, 300, 600}
  BY BandsAssumption DEF BehaviorRisk, Burst

\* The action by the band of the score.
LEMMA Actions ==
  ASSUME NEW s \in Int
  PROVE  /\ s < 800 => Action(s) # "block"
         /\ s < 650 => Action(s) \in {"monitor", "allow"}
         /\ s < 400 => Action(s) = "allow"
  BY DEF Action

\* Short of a burst there is no surcharge.
LEMMA ScoreValue ==
  ASSUME NEW k \in Kinds, NEW n \in Nat, AuthRisk(k) \in 0..1000
  PROVE  /\ Score(k, n) \in Int
         /\ ~Burst(n) => 10 * Score(k, n) <= AuthRisk(k) * 3 + BehaviorRisk(n) * 4 + k.pattern * 3
         /\ 10 * Score(k, n) <= AuthRisk(k) * 3 + BehaviorRisk(n) * 4 + k.pattern * 3 + 2500
  <1>1. k.pattern \in 0..1000 /\ BehaviorRisk(n) \in {0, 300, 600, 900}
    BY BehaviorValues DEF Kinds, Patterns
  <1>2. ~Burst(n) => BehaviorRisk(n) \in {0, 300, 600}
    BY BehaviorValues
  <1> DEFINE x == AuthRisk(k) * 3 + BehaviorRisk(n) * 4 + k.pattern * 3
  <1>3. x \in Nat
    <2>1. AuthRisk(k) \in Nat
      OBVIOUS
    <2>2. BehaviorRisk(n) \in Nat
      BY <1>1
    <2>3. k.pattern \in Nat
      BY <1>1
    <2>4. QED
      BY <2>1, <2>2, <2>3
  <1>4. x \div 10 \in Nat /\ 10 * (x \div 10) <= x
    BY <1>3
  <1>5. BehaviorRisk(n) >= 900 \/ BehaviorRisk(n) < 900
    BY <1>1
  <1> HIDE DEF x
  <1>6. Score(k, n) = LET s == (x \div 10) + (IF BehaviorRisk(n) >= 900 THEN 250 ELSE 0)
                      IN  IF s > 1000 THEN 1000 ELSE s
    BY DEF Score, x
  <1>7. /\ Score(k, n) \in Int
        /\ ~Burst(n) => 10 * Score(k, n) <= x
        /\ 10 * Score(k, n) <= x + 2500
    BY <1>1, <1>2, <1>3, <1>4, <1>6
  <1>8. QED
    BY <1>7 DEF x

LEMMA Harmless ==
  ASSUME NEW K \in SUBSET Kinds, NEW n \in Nat
  PROVE  HarmlessAt(K, n)
  <1> SUFFICES ASSUME NEW k \in K, ~Scanner(k), ~Burst(n)
               PROVE  Raise(k, n) = 0
    BY DEF HarmlessAt
  <1>1. k \in Kinds /\ k.pattern \in {0, 200, 300, 400}
    BY DEF Kinds, Patterns, Scanner
  <1>2. BehaviorRisk(n) \in {0, 300, 600} /\ ~(BehaviorRisk(n) >= 900)
    BY BehaviorValues
  <1>3. CASE k.token \in Verified
    <2>1. AuthRisk(k) \in {50, 350, 600}
      BY <1>1, <1>3, AuthValues
    <2>2. Score(k, n) \in Int /\ Score(k, n) < 650
      BY <1>1, <1>2, <2>1, ScoreValue
    <2>3. Action(Score(k, n)) \in {"monitor", "allow"}
      BY <2>2, Actions
    <2>4. ~(k.pattern >= 500)
      BY <1>1
    <2>5. QED
      BY <1>2, <1>3, <2>3, <2>4, Zenon DEF Raise, Amount
  <1>4. CASE k.token \notin Verified
    BY <1>4, Zenon DEF Raise, Amount
  <1>5. QED
    BY <1>3, <1>4

LEMMA NeverBlocks ==
  ASSUME NEW K \in SUBSET Kinds, NEW n \in Nat
  PROVE  NeverBlocksAt(K, n) /\ IdleAt(K, n)
  <1>1. ASSUME NEW k \in K, k.pattern = 0, k.token \in Verified
        PROVE  Action(Score(k, n)) # "block"
    <2>1. k \in Kinds /\ AuthRisk(k) \in {50, 350, 600}
      BY <1>1, AuthValues
    <2>2. Score(k, n) \in Int /\ Score(k, n) < 800
      BY <1>1, <2>1, ScoreValue, BehaviorValues
    <2>3. QED
      BY <2>2, Actions
  <1>2. ASSUME NEW k \in K, k.token = "expired", k.pattern = 0, ~Burst(n)
        PROVE  Action(Score(k, n)) = "allow"
    <2>1. k \in Kinds /\ AuthRisk(k) = 450
      BY <1>2, AuthValues
    <2>2. Score(k, n) \in Int /\ Score(k, n) < 400
      BY <1>2, <2>1, ScoreValue, BehaviorValues
    <2>3. QED
      BY <2>2, Actions
  <1>3. QED
    BY <1>1, <1>2 DEF NeverBlocksAt, IdleAt

-----------------------------------------------------------------------------
(* Type correctness *)

LEMMA RangeSize ==
  ASSUME NEW n \in Nat
  PROVE  IsFiniteSet(1 .. n) /\ Cardinality(1 .. n) = n
  <1>1. /\ IsFiniteSet(1 .. n)
        /\ Cardinality(1 .. n) = IF 1 > n THEN 0 ELSE n - 1 + 1
    BY FS_Interval
  <1>2. QED
    BY <1>1

LEMMA StaleIsFinite ==
  ASSUME NEW q \in Seq(Nat), NEW cut \in Int
  PROVE  /\ IsFiniteSet(Stale(q, cut))
         /\ Cardinality(Stale(q, cut)) \in Nat
         /\ Cardinality(Stale(q, cut)) <= Len(q)
  <1>1. Stale(q, cut) \subseteq 1 .. Len(q)
    BY DEF Stale
  <1>2. IsFiniteSet(1 .. Len(q)) /\ Cardinality(1 .. Len(q)) = Len(q)
    <2>1. Len(q) \in Nat
      OBVIOUS
    <2>2. QED
      BY <2>1, RangeSize
  <1>3. QED
    BY <1>1, <1>2, FS_Subset, FS_CardinalityType

\* What is dropped is a prefix, so what is left is a suffix.
LEMMA FreshIsSuffix ==
  ASSUME NEW q \in Seq(Nat), NEW cut \in Int
  PROVE  LET k == Cardinality(Stale(q, cut))
         IN  /\ Fresh(q, cut) \in Seq(Nat)
             /\ k \in 0 .. Len(q)
             /\ Len(Fresh(q, cut)) = Len(q) - k
             /\ \A i \in 1 .. Len(q) - k : Fresh(q, cut)[i] = q[i + k]
  <1> DEFINE k == Cardinality(Stale(q, cut))
  <1>1. k \in 0 .. Len(q) /\ Len(q) \in Nat
    BY StaleIsFinite
  <1> HIDE DEF k
  <1>2. Fresh(q, cut) = SubSeq(q, k + 1, Len(q))
    BY DEF Fresh, k
  <1>3. \A i \in (k + 1) .. Len(q) : q[i] \in Nat
    BY <1>1
  <1>4. /\ Fresh(q, cut) \in Seq(Nat)
        /\ Len(Fresh(q, cut)) = Len(q) - k
        /\ \A i \in 1 .. Len(q) - k : Fresh(q, cut)[i] = q[i + k]
    BY <1>1, <1>2, <1>3, SubSeqProperties
  <1>5. QED
    BY <1>1, <1>4 DEF k

LEMMA FreshIsShorter ==
  ASSUME NEW q \in Seq(Nat), NEW cut \in Int
  PROVE  Len(Fresh(q, cut)) \in Nat /\ Len(q) \in Nat /\ Len(Fresh(q, cut)) <= Len(q)
  <1>1. Len(Fresh(q, cut)) = Len(q) - Cardinality(Stale(q, cut))
    BY FreshIsSuffix
  <1>2. /\ Cardinality(Stale(q, cut)) \in Nat
        /\ Cardinality(Stale(q, cut)) <= Len(q)
    BY StaleIsFinite
  <1>3. Len(q) \in Nat
    OBVIOUS
  <1>4. QED
    BY <1>1, <1>2, <1>3

LEMMA FreshType ==
  ASSUME NEW q \in Seq(Nat), NEW window \in Nat, now \in Nat
  PROVE  Fresh(q, now - window) \in Seq(Nat)
  <1>1. now - window \in Int
    OBVIOUS
  <1>2. QED
    BY <1>1, FreshIsSuffix

LEMMA TypeInit == Init => TypeOK
  <1> SUFFICES ASSUME Init PROVE TypeOK
    OBVIOUS
  <1>1. excused \in BOOLEAN
    BY DEF Init
  <1>2. now \in Nat /\ asked \in 0..MaxRequests
    BY BoundAssumption DEF Init
  <1>3. hits \in Seq(Nat) /\ seen \in Seq(Nat)
    BY DEF Init
  <1>4. req \in [Conns -> {Idle} \cup Steps]
    BY DEF Init
  <1>5. QED
    BY <1>1, <1>2, <1>3, <1>4 DEF Init, TypeOK, Rows

\* A handler that is at work holds what its place calls for.
LEMMA AtWork ==
  ASSUME TypeOK, NEW c \in Conns
  PROVE  /\ req[c].pc \in {"idle", "cleanup", "screen", "waf", "autoread", "write"}
         /\ req[c].pc # "idle" => req[c].kind \in Requests /\ req[c].row \in Rows
         /\ req[c].pc \in {"autoread", "write"} => req[c].until \in Nat
         /\ req[c].pc = "idle" => req[c] = Idle
  BY DEF TypeOK, Steps, Idle

LEMMA AdmAtWork ==
  ASSUME TypeOK
  PROVE  /\ adm.pc \in {"idle", "block", "unblock"}
         /\ adm.pc # "idle" => adm # Idle /\ adm.row \in Rows
         /\ adm.pc = "block" => adm.until \in Nat \cup {Forever}
  BY DEF TypeOK, Calls, Idle

LEMMA GotoType ==
  ASSUME TypeOK, NEW c \in Conns, NEW pc, NEW k \in Requests, NEW r \in Rows, NEW until,
         \/ pc \in {"cleanup", "screen", "waf"} /\ until = NoBlock
         \/ pc \in {"autoread", "write"} /\ until \in Nat,
         Goto(c, pc, k, r, until)
  PROVE  req' \in [Conns -> {Idle} \cup Steps]
  <1>1. [pc |-> pc, kind |-> k, row |-> r, until |-> until] \in Steps
    BY DEF Steps
  <1>2. QED
    BY <1>1 DEF Goto, TypeOK

LEMMA DoneType ==
  ASSUME TypeOK, NEW c \in Conns, Done(c)
  PROVE  req' \in [Conns -> {Idle} \cup Steps]
  BY DEF Done, TypeOK

LEMMA NoRowType == NoRow \in Rows /\ NoRow.id = 0
  BY DEF Rows, NoRow

LEMMA RowIds ==
  ASSUME NEW r \in Rows, r # NoRow
  PROVE  /\ r.id \in 1..MaxHandles /\ r.until \in Nat \cup {Forever}
         /\ \A u \in Nat \cup {Forever} : [r EXCEPT !.until = u] \in Rows
  BY DEF Rows

LEMMA StoreType ==
  ASSUME TypeOK, NEW old \in Rows, NEW until \in Nat \cup {Forever}, Store(old, until)
  PROVE  /\ row' \in Rows /\ row' # NoRow /\ row'.until = until /\ due' = until
         /\ old # NoRow => row # NoRow
  <1>1. CASE old = NoRow
    <2>1. PICK i \in 1..MaxHandles : row' = [id |-> i, until |-> until]
      BY <1>1 DEF Store
    <2>2. QED
      BY <1>1, <2>1, NoRowType DEF Store, Rows
  <1>2. CASE old # NoRow
    <2>1. row.id = old.id /\ row' = [row EXCEPT !.until = until] /\ due' = until
      BY <1>2 DEF Store
    <2>2. row # NoRow
      BY <1>2, <2>1, RowIds, NoRowType
    <2>3. row'.id = row.id /\ row'.until = until
      BY <2>1, <2>2 DEF TypeOK, Rows
    <2>4. row' \in Rows /\ row.id # 0
      <3>1. row \in Rows
        BY DEF TypeOK
      <3>2. [row EXCEPT !.until = until] \in Rows /\ row.id \in 1..MaxHandles
        BY <2>2, <3>1, RowIds
      <3>3. QED
        BY <2>1, <3>2
    <2>5. row' # NoRow
      BY <2>3, <2>4, NoRowType
    <2>6. QED
      BY <2>1, <2>2, <2>3, <2>4, <2>5
  <1>3. QED
    BY <1>1, <1>2

LEMMA RequestType ==
  ASSUME TypeOK, NEW c \in Conns, NEW k \in Requests,
         Pass(c, k) \/ FailOpen(c, k) \/ Refuse(c, k) \/ Lapsed(c, k)
  PROVE  TypeOK'
  <1>1. asked' \in 0..MaxRequests
    BY BoundAssumption DEF TypeOK, Pass, FailOpen, Refuse, Lapsed, Count
  <1>2. req' \in [Conns -> {Idle} \cup Steps]
    <2>1. CASE Pass(c, k) \/ FailOpen(c, k)
      BY <2>1, GotoType, NoRowType DEF Pass, FailOpen
    <2>2. CASE Lapsed(c, k)
      BY <2>2, GotoType DEF Lapsed, TypeOK
    <2>3. CASE Refuse(c, k)
      BY <2>3 DEF Refuse, TypeOK
    <2>4. QED
      BY <2>1, <2>2, <2>3
  <1>3. UNCHANGED <<now, row, hits, seen, adm, due, excused>>
    BY DEF Pass, FailOpen, Refuse, Lapsed
  <1>4. QED
    BY <1>1, <1>2, <1>3 DEF TypeOK

LEMMA HandlerType ==
  ASSUME TypeOK, NEW c \in Conns,
         CleanUp(c) \/ Screen(c) \/ Hit(c) \/ AutoRead(c) \/ AutoBlock(c) \/ AutoLose(c)
            \/ AutoFail(c)
  PROVE  TypeOK'
  <1>0. /\ req[c].pc # "idle" => req[c].kind \in Requests
        /\ row \in Rows /\ now \in Nat
    BY AtWork DEF TypeOK
  <1>1. CASE CleanUp(c)
    <2>1. req' \in [Conns -> {Idle} \cup Steps]
      BY <1>0, <1>1, GotoType, NoRowType DEF CleanUp
    <2>2. row' \in Rows
      BY <1>1, NoRowType DEF CleanUp, Delete, TypeOK
    <2>3. QED
      BY <1>1, <2>1, <2>2 DEF CleanUp, TypeOK
  <1>2. CASE Screen(c)
    <2>1. req' \in [Conns -> {Idle} \cup Steps]
      BY <1>0, <1>2, GotoType, DoneType, NoRowType DEF Screen
    <2>2. seen' \in Seq(Nat)
      <3>1. Append(Fresh(seen, now - ScoreWindow), now) \in Seq(Nat)
        BY FreshType, WindowAssumption DEF TypeOK
      <3>2. QED
        BY <1>2, <3>1 DEF Screen, TypeOK
    <2>3. QED
      BY <1>2, <2>1, <2>2 DEF Screen, TypeOK
  <1>3. CASE Hit(c)
    <2>1. now + BlockTime \in Nat
      BY <1>0, StallAssumption
    <2>2. req' \in [Conns -> {Idle} \cup Steps]
      BY <1>0, <1>3, <2>1, GotoType, DoneType, NoRowType DEF Hit
    <2>3. hits' \in Seq(Nat)
      <3>1. Append(Fresh(hits, now - HitWindow), now) \in Seq(Nat)
        BY FreshType, WindowAssumption DEF TypeOK
      <3>2. QED
        BY <1>3, <3>1 DEF Hit
    <2>4. QED
      BY <1>3, <2>2, <2>3 DEF Hit, TypeOK
  <1>4. CASE AutoRead(c)
    <2>1. req[c].until \in Nat
      BY <1>4, AtWork DEF AutoRead
    <2>2. req' \in [Conns -> {Idle} \cup Steps]
      BY <1>0, <1>4, <2>1, GotoType DEF AutoRead
    <2>3. QED
      BY <1>4, <2>2 DEF AutoRead, TypeOK
  <1>5. CASE AutoBlock(c)
    <2>1. row' \in Rows /\ due' \in Nat
      BY <1>5, AtWork, StoreType DEF AutoBlock
    <2>2. QED
      BY <1>5, <2>1, DoneType DEF AutoBlock, TypeOK
  <1>6. CASE AutoLose(c) \/ AutoFail(c)
    BY <1>6, DoneType DEF AutoLose, AutoFail, TypeOK
  <1>7. QED
    BY <1>1, <1>2, <1>3, <1>4, <1>5, <1>6

LEMMA AdminType ==
  ASSUME TypeOK,
         \/ \E d \in AdminTimes : BlockStart(now + d)
         \/ BlockStart(Forever) \/ Block \/ UnblockStart \/ Unblock \/ AdminLose
  PROVE  TypeOK'
  <1>0. row \in Rows
    BY DEF TypeOK
  <1>1. ASSUME NEW until \in Nat \cup {Forever}, BlockStart(until)
        PROVE  TypeOK'
    <2>1. [pc |-> "block", row |-> row, until |-> until] \in Calls
      BY <1>0 DEF Calls
    <2>2. QED
      BY <1>1, <2>1, BoundAssumption DEF BlockStart, Count, TypeOK
  <1>2. CASE \E d \in AdminTimes : BlockStart(now + d)
    <2>1. \A d \in AdminTimes : now + d \in Nat
      BY WindowAssumption DEF TypeOK
    <2>2. QED
      BY <1>1, <1>2, <2>1
  <1>3. CASE Block
    <2>1. row' \in Rows /\ due' \in Nat \cup {Forever, NoBlock}
      BY <1>3, AdmAtWork, StoreType DEF Block
    <2>2. QED
      BY <1>3, <2>1 DEF Block, TypeOK
  <1>4. CASE UnblockStart
    <2>1. [pc |-> "unblock", row |-> row, until |-> NoBlock] \in Calls
      BY <1>0 DEF Calls
    <2>2. QED
      BY <1>4, <2>1, BoundAssumption DEF UnblockStart, Count, TypeOK
  <1>5. CASE Unblock
    <2>1. row' \in Rows
      BY <1>5, NoRowType DEF Unblock, Delete, TypeOK
    <2>2. due' \in Nat \cup {Forever, NoBlock}
      BY <1>5 DEF Unblock, TypeOK
    <2>3. QED
      BY <1>5, <2>1, <2>2 DEF Unblock, TypeOK
  <1>6. CASE AdminLose
    BY <1>6 DEF AdminLose, TypeOK
  <1>7. QED
    BY <1>1, <1>2, <1>3, <1>4, <1>5, <1>6

LEMMA TypeNext ==
  ASSUME TypeOK, [Next]_vars
  PROVE  TypeOK'
  <1>1. CASE Tick
    BY <1>1 DEF Tick, TypeOK
  <1>2. CASE Probe \/ UNCHANGED vars
    BY <1>2 DEF Probe, vars, TypeOK
  <1>3. QED
    BY <1>1, <1>2, RequestType, HandlerType, AdminType DEF Next

\* The row, the logs and what every handler has read stay in their types, for
\* any number of requests in flight (db/models.py:208-222, ip_blocker.py:38-40).
THEOREM TypeCorrect == Spec => []TypeOK
  BY TypeInit, TypeNext, PTL DEF Spec

LEMMA NthType == TypeOK => Nth \in Nat
  BY FreshType, WindowAssumption DEF TypeOK, Nth

\* Ordinary use harms no account, for every kind of request the middlewares tell
\* apart and however many came before it (risk_scoring.py:242-284).
THEOREM OrdinaryUseIsHarmless == Spec => []NormalUseHarmless
  <1>1. TypeOK => NormalUseHarmless
    BY NthType, Harmless, KindsAssumption DEF NormalUseHarmless
  <1>2. QED
    BY TypeCorrect, <1>1, PTL

\* Rate alone blocks no verified client, and a lapsed one is let through short
\* of a burst (risk_scoring.py:142-154, 344-366).
THEOREM HonestIsNeverBlocked == Spec => []HonestNeverBlocked
  <1>1. TypeOK => HonestNeverBlocked
    BY NthType, NeverBlocks, KindsAssumption DEF HonestNeverBlocked
  <1>2. QED
    BY TypeCorrect, <1>1, PTL

-----------------------------------------------------------------------------
(* Blocks last *)

\* The row is the block last committed; without a row that block is over.  While
\* a row is to be cleaned up nobody is about to write one.
BlockInv ==
    /\ TypeOK
    /\ row # NoRow => due = row.until
    /\ row = NoRow => ~InForce(due)
    /\ \A c \in Conns :
          req[c].pc = "cleanup" =>
              /\ NoWriter
              /\ row = NoRow \/ (row = req[c].row /\ ~InForce(row.until))

LEMMA BlockInit == Init => BlockInv
  BY TypeInit DEF Init, BlockInv, InForce, NoBlock, Forever, Idle, NoWriter

\* A block that is over stays over.
LEMMA StaysOver ==
  ASSUME TypeOK, now' \in Nat, now' >= now, NEW until \in Nat \cup {Forever, NoBlock},
         ~InForce(until)
  PROVE  ~(until = Forever \/ (until # NoBlock /\ until >= now'))
  BY DEF InForce, TypeOK, NoBlock

\* A request that only reads, or that ends.
LEMMA ReadBlock ==
  ASSUME BlockInv, NEW c \in Conns, TypeOK', UNCHANGED <<now, row, due, adm>>,
         \/ UNCHANGED req
         \/ /\ \A d \in Conns \ {c} : req'[d] = req[d]
            /\ req'[c].pc # "cleanup"
            /\ req'[c].pc = "write" => NoCleanUp
  PROVE  BlockInv'
  <1> USE DEF BlockInv
  <1>1. InForce(due)' = InForce(due) /\ InForce(row.until)' = InForce(row.until)
    BY DEF InForce
  <1>2. ASSUME NEW d \in Conns, req'[d].pc = "cleanup"
        PROVE  /\ NoWriter'
               /\ row' = NoRow \/ (row' = req'[d].row /\ ~InForce(row.until)')
    <2>1. req[d].pc = "cleanup" /\ req'[d] = req[d]
      BY <1>2 DEF TypeOK, NoCleanUp
    <2>2. \A e \in Conns : req'[e].pc # "write"
      BY <2>1 DEF TypeOK, NoWriter, NoCleanUp
    <2>3. QED
      BY <1>1, <2>1, <2>2 DEF NoWriter
  <1>3. QED
    BY <1>1, <1>2

LEMMA LapsedBlock ==
  ASSUME BlockInv, "cleanup" \notin Races, NEW c \in Conns, NEW k \in Requests, TypeOK',
         Lapsed(c, k)
  PROVE  BlockInv'
  <1> USE DEF BlockInv
  <1>1. InForce(due)' = InForce(due) /\ InForce(row.until)' = InForce(row.until)
    BY DEF Lapsed, InForce
  <1>2. ASSUME NEW d \in Conns, req'[d].pc = "cleanup"
        PROVE  /\ NoWriter'
               /\ row' = NoRow \/ (row' = req'[d].row /\ ~InForce(row.until)')
    <2>1. NoWriter'
      BY DEF Lapsed, Goto, TypeOK, NoWriter
    <2>2. CASE d = c
      BY <1>1, <2>1, <2>2 DEF Lapsed, Goto, TypeOK
    <2>3. CASE d # c
      BY <1>1, <1>2, <2>1, <2>3 DEF Lapsed, Goto, TypeOK
    <2>4. QED
      BY <2>2, <2>3
  <1>3. QED
    BY <1>1, <1>2 DEF Lapsed

LEMMA CleanUpBlock ==
  ASSUME BlockInv, NEW c \in Conns, TypeOK', CleanUp(c)
  PROVE  BlockInv'
  <1> USE DEF BlockInv
  <1>1. InForce(due)' = InForce(due)
    BY DEF CleanUp, InForce
  <1>2. row = NoRow \/ ~InForce(due)
    BY DEF CleanUp
  <1>3. ~InForce(due) /\ row' \in {row, NoRow}
    BY <1>2 DEF CleanUp, Delete
  <1>4. ASSUME NEW d \in Conns, req'[d].pc = "cleanup"
        PROVE  /\ NoWriter'
               /\ row' = NoRow \/ (row' = req'[d].row /\ ~InForce(row.until)')
    <2>1. req[d].pc = "cleanup" /\ req'[d] = req[d]
      BY <1>4 DEF CleanUp, Goto, TypeOK
    <2>2. NoWriter'
      BY <2>1 DEF CleanUp, Goto, TypeOK, NoWriter
    <2>3. row' = row => InForce(row.until)' = InForce(row.until)
      BY DEF CleanUp, InForce
    <2>4. QED
      BY <1>3, <2>1, <2>2, <2>3
  <1>5. QED
    BY <1>1, <1>3, <1>4 DEF CleanUp

\* Where a writer is there is no clean-up, so a commit may say what it likes.
LEMMA WriterAlone ==
  ASSUME BlockInv, adm # Idle \/ \E c \in Conns : req[c].pc = "write"
  PROVE  NoCleanUp
  BY DEF BlockInv, NoCleanUp, NoWriter

LEMMA AutoBlockBlock ==
  ASSUME BlockInv, NEW c \in Conns, TypeOK', AutoBlock(c)
  PROVE  BlockInv'
  <1>1. NoCleanUp
    BY WriterAlone DEF AutoBlock
  <1>2. row' # NoRow /\ due' = row'.until
    BY AtWork, StoreType DEF AutoBlock, BlockInv
  <1>3. \A d \in Conns : req'[d].pc # "cleanup"
    BY <1>1 DEF NoCleanUp, AutoBlock, Done, Idle, BlockInv, TypeOK
  <1>4. QED
    BY <1>2, <1>3 DEF BlockInv

LEMMA AdminBlock ==
  ASSUME BlockInv, TypeOK', Block \/ Unblock
  PROVE  BlockInv'
  <1>0. adm # Idle /\ TypeOK
    BY AdmAtWork DEF Block, Unblock, BlockInv, Idle
  <1>1. NoCleanUp
    BY <1>0, WriterAlone
  <1>2. \A d \in Conns : req'[d].pc # "cleanup"
    BY <1>1 DEF NoCleanUp, Block, Unblock
  <1>3. CASE Block
    <2>1. row' # NoRow /\ due' = row'.until
      BY <1>0, <1>3, AdmAtWork, StoreType DEF Block
    <2>2. QED
      BY <1>2, <2>1 DEF BlockInv
  <1>4. CASE Unblock
    <2>1. CASE row.id = adm.row.id
      <3>1. row' = NoRow /\ due' = NoBlock
        BY <1>4, <2>1 DEF Unblock, Delete
      <3>2. ~InForce(due)'
        BY <3>1 DEF InForce, NoBlock, Forever
      <3>3. QED
        BY <1>2, <3>1, <3>2 DEF BlockInv
    <2>2. CASE row.id # adm.row.id
      <3>1. row' = row /\ due' = due /\ now' = now
        BY <1>4, <2>2 DEF Unblock, Delete
      <3>2. QED
        BY <1>2, <3>1 DEF BlockInv, InForce
    <2>3. QED
      BY <2>1, <2>2
  <1>5. QED
    BY <1>3, <1>4

LEMMA AdminStarts ==
  ASSUME BlockInv, "cleanup" \notin Races, TypeOK',
         (\E until : BlockStart(until)) \/ UnblockStart \/ AdminLose
  PROVE  BlockInv'
  <1>1. UNCHANGED <<now, row, due, req>>
    BY DEF BlockStart, UnblockStart, AdminLose
  <1>2. NoCleanUp
    BY WriterAlone, AdmAtWork DEF BlockStart, UnblockStart, AdminLose, BlockInv
  <1>3. QED
    BY <1>1, <1>2 DEF BlockInv, InForce, NoCleanUp

LEMMA TickBlock ==
  ASSUME BlockInv, TypeOK', Tick
  PROVE  BlockInv'
  <1>1. due \in Nat \cup {Forever, NoBlock} /\ row.until \in Nat \cup {Forever, NoBlock}
    BY DEF BlockInv, TypeOK, Rows, NoRow
  <1>2. due' = due /\ row' = row /\ req' = req /\ adm' = adm
    BY DEF Tick
  <1>3. ~InForce(due) => ~InForce(due)'
    BY <1>1, <1>2, StaysOver DEF Tick, BlockInv, TypeOK, InForce
  <1>4. ~InForce(row.until) => ~InForce(row.until)'
    BY <1>1, <1>2, StaysOver DEF Tick, BlockInv, TypeOK, InForce
  <1>5. QED
    BY <1>2, <1>3, <1>4 DEF BlockInv, NoWriter

LEMMA RequestBlock ==
  ASSUME BlockInv, "cleanup" \notin Races, NEW c \in Conns, NEW k \in Requests, TypeOK',
         Pass(c, k) \/ FailOpen(c, k) \/ Refuse(c, k) \/ Lapsed(c, k)
  PROVE  BlockInv'
  <1>1. CASE Pass(c, k) \/ FailOpen(c, k)
    <2>1. UNCHANGED <<now, row, due, adm>>
      BY <1>1 DEF Pass, FailOpen
    <2>2. Goto(c, "screen", k, NoRow, NoBlock)
      BY <1>1 DEF Pass, FailOpen
    <2>3. req'[c].pc = "screen" /\ \A d \in Conns \ {c} : req'[d] = req[d]
      BY <2>2 DEF Goto, BlockInv, TypeOK
    <2>4. QED
      BY <2>1, <2>3, ReadBlock
  <1>2. CASE Refuse(c, k)
    BY <1>2, ReadBlock DEF Refuse
  <1>3. CASE Lapsed(c, k)
    BY <1>3, LapsedBlock
  <1>4. QED
    BY <1>1, <1>2, <1>3

LEMMA HandlerBlock ==
  ASSUME BlockInv, "cleanup" \notin Races, NEW c \in Conns, TypeOK',
         Screen(c) \/ Hit(c) \/ AutoRead(c) \/ AutoLose(c) \/ AutoFail(c)
  PROVE  BlockInv'
  <1>1. UNCHANGED <<now, row, due, adm>>
    BY DEF Screen, Hit, AutoRead, AutoLose, AutoFail
  <1>2. \/ Done(c)
        \/ UNCHANGED req
        \/ \E pc \in {"waf", "autoread"} : \E k, r, u : Goto(c, pc, k, r, u)
        \/ NoCleanUp /\ \E k, r, u : Goto(c, "write", k, r, u)
    BY DEF Screen, Hit, AutoRead, AutoLose, AutoFail
  <1>3. \/ UNCHANGED req
        \/ /\ \A d \in Conns \ {c} : req'[d] = req[d]
           /\ req'[c].pc # "cleanup"
           /\ req'[c].pc = "write" => NoCleanUp
    BY <1>2 DEF Done, Goto, Idle, BlockInv, TypeOK
  <1>4. QED
    BY <1>1, <1>3, ReadBlock

LEMMA BlockNext ==
  ASSUME BlockInv, "cleanup" \notin Races, [Next]_vars
  PROVE  BlockInv'
  <1>0. TypeOK'
    BY TypeNext DEF BlockInv
  <1>1. CASE UNCHANGED vars \/ Probe
    BY <1>0, <1>1 DEF Probe, vars, BlockInv, InForce, NoWriter
  <1>2. QED
    BY <1>0, <1>1, RequestBlock, HandlerBlock, CleanUpBlock, AutoBlockBlock, AdminBlock,
       AdminStarts, TickBlock DEF Next

\* While no clean-up of an expired block overlaps a writer of the row, a block
\* lasts as long as it was committed for: that overlap is the only way to lose
\* it (ip_blocker.py:11-15, 138-140).
THEOREM BlocksHold ==
  ASSUME "cleanup" \notin Races
  PROVE  Spec => []BlockHolds
  <1>1. BlockInv /\ [Next]_vars => BlockInv'
    BY BlockNext
  <1>2. BlockInv => BlockHolds
    BY DEF BlockInv, BlockHolds
  <1>3. QED
    BY BlockInit, <1>1, <1>2, PTL DEF Spec

-----------------------------------------------------------------------------
(* Floods are blocked *)

\* A later cutoff leaves less.
LEMMA FreshShrinks ==
  ASSUME NEW q \in Seq(Nat), NEW cut \in Int, NEW later \in Int, cut <= later
  PROVE  Len(Fresh(q, later)) <= Len(Fresh(q, cut))
  <1>1. Stale(q, cut) \subseteq Stale(q, later)
    <2>1. \A j \in 1 .. Len(q) : q[j] \in Nat
      OBVIOUS
    <2>2. QED
      BY <2>1 DEF Stale
  <1>2. Cardinality(Stale(q, cut)) <= Cardinality(Stale(q, later))
    BY <1>1, StaleIsFinite, FS_Subset
  <1>3. /\ Len(Fresh(q, cut)) = Len(q) - Cardinality(Stale(q, cut))
        /\ Len(Fresh(q, later)) = Len(q) - Cardinality(Stale(q, later))
    BY FreshIsSuffix
  <1>4. Cardinality(Stale(q, cut)) \in Nat /\ Cardinality(Stale(q, later)) \in Nat
    BY StaleIsFinite
  <1>5. QED
    BY <1>2, <1>3, <1>4

\* If anything is left, the newest is.
LEMMA FreshLast ==
  ASSUME NEW q \in Seq(Nat), NEW cut \in Int, Len(Fresh(q, cut)) >= 1,
         \A i \in 1 .. Len(q) : q[i] <= q[Len(q)]
  PROVE  Len(q) >= 1 /\ q[Len(q)] >= cut
  <1>0. Len(q) \in Nat
    OBVIOUS
  <1>1. /\ Len(Fresh(q, cut)) = Len(q) - Cardinality(Stale(q, cut))
        /\ Cardinality(Stale(q, cut)) \in Nat
    BY FreshIsSuffix, StaleIsFinite
  <1>2. Len(q) >= 1
    BY <1>0, <1>1
  <1>3. ASSUME q[Len(q)] < cut
        PROVE  FALSE
    <2>1. \A i \in 1 .. Len(q) : q[i] \in Nat /\ q[i] < cut
      BY <1>0, <1>2, <1>3
    <2>2. Stale(q, cut) = 1 .. Len(q)
      BY <1>0, <2>1 DEF Stale
    <2>3. Cardinality(1 .. Len(q)) = Len(q)
      BY <1>0, RangeSize
    <2>4. QED
      BY <1>0, <1>1, <1>2, <2>2, <2>3
  <1>4. q[Len(q)] \in Nat
    BY <1>0, <1>2
  <1>5. QED
    BY <1>2, <1>3, <1>4

\* About to write a block.
Writing(c) == req[c].pc \in {"autoread", "write"}

\* The block last committed reaches as far as a hit that asks for one until u
\* needs, whoever committed it.
Covers(u) == due = Forever \/ due >= u - Stall

FullWindow == Len(Fresh(hits, now - HitWindow)) >= Threshold

HitsInOrder == \A i \in 1 .. Len(hits) : hits[i] <= hits[Len(hits)] /\ hits[i] <= now

OnTime(c) ==
    Writing(c) => /\ req[c].until - BlockTime <= now
                  /\ now <= req[c].until - BlockTime + Stall

\* Whoever has lost the row has lost it to a block as good as his own ...
LostToCover(c) ==
    req[c].pc = "write" /\ ~excused /\ Conflict(req[c].row) => Covers(req[c].until)

\* ... and the last hit of a full window has its block, or is about to get it.
LastHitCovered ==
    FullWindow /\ ~excused =>
        \/ Covers(hits[Len(hits)] + BlockTime)
        \/ \E c \in Conns : Writing(c) /\ req[c].until = hits[Len(hits)] + BlockTime

FloodInv ==
    /\ BlockInv
    /\ HitsInOrder
    /\ \A c \in Conns : OnTime(c) /\ LostToCover(c)
    /\ LastHitCovered

LEMMA FloodInit == Init => FloodInv
  <1> SUFFICES ASSUME Init PROVE FloodInv
    OBVIOUS
  <1>1. Len(hits) = 0 /\ hits \in Seq(Nat) /\ now - HitWindow \in Int
    BY WindowAssumption DEF Init
  <1>2. Len(Fresh(hits, now - HitWindow)) <= 0
    BY <1>1, FreshIsShorter
  <1>3. Len(Fresh(hits, now - HitWindow)) \in Nat /\ Threshold > 0 /\ Threshold \in Nat
    BY <1>1, FreshIsSuffix, WindowAssumption
  <1>4. ~FullWindow
    BY <1>2, <1>3 DEF FullWindow
  <1>5. \A c \in Conns : req[c].pc = "idle"
    BY DEF Init, Idle
  <1>6. HitsInOrder
    BY <1>1 DEF HitsInOrder
  <1>7. QED
    BY <1>4, <1>5, <1>6, BlockInit
    DEF FloodInv, OnTime, LostToCover, LastHitCovered, Writing

\* A step that moves no row, no block and no hit, and after which whoever is
\* about to write was about to before.
LEMMA FloodQuiet ==
  ASSUME FloodInv, BlockInv', UNCHANGED <<now, row, due, hits, excused>>,
         \A c \in Conns : req'[c] = req[c] \/ (~Writing(c) /\ ~Writing(c)')
  PROVE  FloodInv'
  <1>1. HitsInOrder' /\ FullWindow' = FullWindow
    BY DEF FloodInv, HitsInOrder, FullWindow
  <1>2. ASSUME NEW c \in Conns
        PROVE  (OnTime(c) /\ LostToCover(c))'
    <2>1. CASE req'[c] = req[c]
      BY <2>1 DEF FloodInv, OnTime, LostToCover, Writing, Conflict, Covers
    <2>2. CASE ~Writing(c)'
      BY <2>2 DEF OnTime, LostToCover, Writing
    <2>3. QED
      BY <2>1, <2>2
  <1>3. LastHitCovered'
    <2>1. SUFFICES ASSUME FullWindow, ~excused
                   PROVE  LastHitCovered'
      BY <1>1 DEF LastHitCovered
    <2>2. CASE Covers(hits[Len(hits)] + BlockTime)
      BY <2>2 DEF LastHitCovered, Covers
    <2>3. CASE \E c \in Conns : Writing(c) /\ req[c].until = hits[Len(hits)] + BlockTime
      <3>1. PICK c \in Conns : Writing(c) /\ req[c].until = hits[Len(hits)] + BlockTime
        BY <2>3
      <3>2. req'[c] = req[c]
        BY <3>1
      <3>3. QED
        BY <3>1, <3>2 DEF LastHitCovered, Writing
    <2>4. QED
      BY <2>1, <2>2, <2>3 DEF FloodInv, LastHitCovered
  <1>4. QED
    BY <1>1, <1>2, <1>3 DEF FloodInv

LEMMA HitFlood ==
  ASSUME FloodInv, BlockInv', NEW c \in Conns, Hit(c)
  PROVE  FloodInv'
  <1> DEFINE log == Append(Fresh(hits, now - HitWindow), now)
  <1>1. /\ hits \in Seq(Nat) /\ now \in Nat /\ now - HitWindow \in Int
        /\ BlockTime \in Nat /\ Stall \in Nat /\ Threshold \in Nat
    BY WindowAssumption, StallAssumption DEF FloodInv, BlockInv, TypeOK
  <1>2. /\ UNCHANGED <<now, row, due, excused>> /\ hits' = log
        /\ IF Len(log) >= Threshold
           THEN Goto(c, "autoread", req[c].kind, NoRow, now + BlockTime)
           ELSE Done(c)
    BY DEF Hit
  <1>3. /\ \A d \in Conns \ {c} : req'[d] = req[d]
        /\ Len(log) >= Threshold => req'[c].pc = "autoread" /\ req'[c].until = now + BlockTime
        /\ ~(Len(log) >= Threshold) => req'[c].pc = "idle"
    BY <1>2 DEF Goto, Done, Idle, FloodInv, BlockInv, TypeOK
  <1> DEFINE k == Cardinality(Stale(hits, now - HitWindow))
  <1>4. /\ Fresh(hits, now - HitWindow) \in Seq(Nat)
        /\ k \in 0 .. Len(hits)
        /\ Len(Fresh(hits, now - HitWindow)) = Len(hits) - k
        /\ \A i \in 1 .. Len(hits) - k : Fresh(hits, now - HitWindow)[i] = hits[i + k]
    BY <1>1, FreshIsSuffix
  <1> HIDE DEF k
  <1>5. /\ log \in Seq(Nat) /\ Len(log) = Len(hits) - k + 1 /\ log[Len(log)] = now
        /\ \A i \in 1 .. Len(hits) - k : log[i] = hits[i + k]
    BY <1>1, <1>4
  <1>6. \A i \in 1 .. Len(log) : log[i] <= now
    <2>1. \A i \in 1 .. Len(hits) - k : i + k \in 1 .. Len(hits) /\ hits[i + k] <= now
      BY <1>4 DEF FloodInv, HitsInOrder
    <2>2. QED
      BY <1>1, <1>4, <1>5, <2>1
  <1>7. HitsInOrder'
    BY <1>2, <1>5, <1>6 DEF HitsInOrder
  <1>8. ASSUME NEW d \in Conns
        PROVE  (OnTime(d) /\ LostToCover(d))'
    <2>1. CASE d # c
      BY <1>2, <1>3, <2>1 DEF FloodInv, OnTime, LostToCover, Writing, Conflict, Covers
    <2>2. CASE d = c
      BY <1>1, <1>2, <1>3, <2>2 DEF OnTime, LostToCover, Writing
    <2>3. QED
      BY <2>1, <2>2
  <1>9. LastHitCovered'
    <2>1. CASE Len(log) >= Threshold
      <3>1. Writing(c)' /\ req'[c].until = hits'[Len(hits')] + BlockTime
        BY <1>2, <1>3, <1>5, <2>1 DEF Writing
      <3>2. QED
        BY <3>1 DEF LastHitCovered
    <2>2. CASE ~(Len(log) >= Threshold)
      <3>1. now' - HitWindow = now - HitWindow /\ Len(Fresh(log, now - HitWindow)) <= Len(log)
        BY <1>1, <1>2, <1>5, FreshIsShorter
      <3>2. Len(Fresh(log, now - HitWindow)) \in Nat /\ Len(log) \in Nat
        BY <1>1, <1>5, FreshIsShorter
      <3>3. ~FullWindow'
        BY <1>1, <1>2, <2>2, <3>1, <3>2 DEF FullWindow
      <3>4. QED
        BY <3>3 DEF LastHitCovered
    <2>3. QED
      BY <2>1, <2>2
  <1>10. QED
    BY <1>7, <1>8, <1>9 DEF FloodInv

\* Whoever has read the row just now has lost nothing yet.
LEMMA AutoReadFlood ==
  ASSUME FloodInv, BlockInv', NEW c \in Conns, AutoRead(c)
  PROVE  FloodInv'
  <1>1. /\ UNCHANGED <<now, row, hits, due, excused>>
        /\ \A d \in Conns \ {c} : req'[d] = req[d]
        /\ req[c].pc = "autoread" /\ req'[c].pc = "write"
        /\ req'[c].row = row /\ req'[c].until = req[c].until
    BY DEF AutoRead, Goto, FloodInv, BlockInv, TypeOK
  <1>2. HitsInOrder' /\ FullWindow' = FullWindow
    BY <1>1 DEF FloodInv, HitsInOrder, FullWindow
  <1>3. ~Conflict(req[c].row)'
    BY <1>1 DEF Conflict
  <1>4. ASSUME NEW d \in Conns
        PROVE  (OnTime(d) /\ LostToCover(d))'
    <2>1. CASE d # c
      BY <1>1, <2>1 DEF FloodInv, OnTime, LostToCover, Writing, Conflict, Covers
    <2>2. CASE d = c
      BY <1>1, <1>3, <2>2 DEF FloodInv, OnTime, LostToCover, Writing
    <2>3. QED
      BY <2>1, <2>2
  <1>5. \A d \in Conns : Writing(d) => Writing(d)' /\ req'[d].until = req[d].until
    BY <1>1 DEF Writing
  <1>6. LastHitCovered'
    BY <1>1, <1>2, <1>5 DEF FloodInv, LastHitCovered, Covers
  <1>7. QED
    BY <1>2, <1>4, <1>6 DEF FloodInv

\* A commit comes no later than the stall allows, so it covers every hit so far.
LEMMA AutoBlockFlood ==
  ASSUME FloodInv, BlockInv', NEW c \in Conns, AutoBlock(c)
  PROVE  FloodInv'
  <1>1. /\ UNCHANGED <<now, hits>> /\ req[c].pc = "write" /\ Done(c)
        /\ due' = req[c].until
    BY AtWork, StoreType DEF AutoBlock, FloodInv, BlockInv
  <1>2. /\ now \in Nat /\ req[c].until \in Nat /\ BlockTime \in Nat /\ Stall \in Nat
        /\ now <= req[c].until - BlockTime + Stall
    BY <1>1, StallAssumption, AtWork DEF FloodInv, BlockInv, TypeOK, OnTime, Writing
  <1>3. \A u \in Int : u <= now + BlockTime => Covers(u)'
    BY <1>1, <1>2 DEF Covers
  <1>4. ASSUME NEW d \in Conns
        PROVE  (OnTime(d) /\ LostToCover(d))'
    <2>1. req'[d] = req[d] \/ ~Writing(d)'
      BY <1>1 DEF Done, Idle, Writing, FloodInv, BlockInv, TypeOK
    <2>2. CASE ~Writing(d)'
      BY <2>2 DEF OnTime, LostToCover, Writing
    <2>3. CASE req'[d] = req[d] /\ Writing(d)
      <3>1. OnTime(d)'
        BY <1>1, <2>3 DEF FloodInv, OnTime, Writing
      <3>2. req[d].until \in Int /\ req[d].until <= now + BlockTime
        BY <1>2, <2>3, AtWork DEF FloodInv, BlockInv, OnTime, Writing
      <3>3. Covers(req[d].until)'
        BY <1>1, <1>2, <2>3, <3>2 DEF Covers
      <3>4. QED
        BY <3>1, <3>3 DEF LostToCover
    <2>4. QED
      BY <2>1, <2>2, <2>3 DEF Writing
  <1>5. HitsInOrder'
    BY <1>1 DEF FloodInv, HitsInOrder
  <1>6. LastHitCovered'
    <2>1. SUFFICES ASSUME FullWindow'
                   PROVE  LastHitCovered'
      BY DEF LastHitCovered
    <2>2. hits \in Seq(Nat) /\ now - HitWindow \in Int /\ Len(Fresh(hits, now - HitWindow)) >= 1
      BY <1>1, <1>2, <2>1, FreshIsSuffix, WindowAssumption
      DEF FullWindow, FloodInv, BlockInv, TypeOK
    <2>3. Len(hits) >= 1
      BY <2>2, FreshLast DEF FloodInv, HitsInOrder
    <2>4. hits[Len(hits)] \in Nat /\ hits[Len(hits)] <= now
      BY <2>2, <2>3 DEF FloodInv, HitsInOrder
    <2>5. Covers(hits[Len(hits)] + BlockTime)'
      BY <1>1, <1>2, <2>4 DEF Covers
    <2>6. QED
      BY <2>5 DEF LastHitCovered
  <1>7. QED
    BY <1>4, <1>5, <1>6 DEF FloodInv

\* Whoever loses the row has been covered by whoever took it.
LEMMA AutoLoseFlood ==
  ASSUME FloodInv, BlockInv', NEW c \in Conns, AutoLose(c)
  PROVE  FloodInv'
  <1>1. /\ UNCHANGED <<now, row, hits, due, excused>>
        /\ req[c].pc = "write" /\ Conflict(req[c].row)
        /\ \A d \in Conns \ {c} : req'[d] = req[d]
        /\ req'[c].pc = "idle"
    BY DEF AutoLose, Done, Idle, FloodInv, BlockInv, TypeOK
  <1>2. HitsInOrder' /\ FullWindow' = FullWindow
    BY <1>1 DEF FloodInv, HitsInOrder, FullWindow
  <1>3. ASSUME NEW d \in Conns
        PROVE  (OnTime(d) /\ LostToCover(d))'
    <2>1. CASE d # c
      BY <1>1, <2>1 DEF FloodInv, OnTime, LostToCover, Writing, Conflict, Covers
    <2>2. CASE d = c
      BY <1>1, <2>2 DEF OnTime, LostToCover, Writing
    <2>3. QED
      BY <2>1, <2>2
  <1>4. LastHitCovered'
    <2>1. SUFFICES ASSUME FullWindow, ~excused
                   PROVE  LastHitCovered'
      BY <1>1, <1>2 DEF LastHitCovered
    <2>2. Covers(req[c].until)
      BY <1>1, <2>1 DEF FloodInv, LostToCover
    <2>3. \/ Covers(hits[Len(hits)] + BlockTime)
          \/ \E d \in Conns \ {c} :
                Writing(d) /\ req[d].until = hits[Len(hits)] + BlockTime
      BY <2>1, <2>2 DEF FloodInv, LastHitCovered
    <2>4. CASE Covers(hits[Len(hits)] + BlockTime)
      BY <1>1, <2>4 DEF LastHitCovered, Covers
    <2>5. CASE \E d \in Conns \ {c} :
                  Writing(d) /\ req[d].until = hits[Len(hits)] + BlockTime
      BY <1>1, <2>5 DEF LastHitCovered, Writing
    <2>6. QED
      BY <2>3, <2>4, <2>5
  <1>5. QED
    BY <1>2, <1>3, <1>4 DEF FloodInv

\* What an administrator commits, and a write that fails, excuses what follows.
LEMMA ExcusedFlood ==
  ASSUME FloodInv, BlockInv', UNCHANGED <<now, hits>>, excused',
         \A c \in Conns : req'[c] = req[c] \/ ~Writing(c)'
  PROVE  FloodInv'
  <1>1. HitsInOrder' /\ LastHitCovered'
    BY DEF FloodInv, HitsInOrder, LastHitCovered
  <1>2. ASSUME NEW c \in Conns
        PROVE  (OnTime(c) /\ LostToCover(c))'
    <2>1. OnTime(c)'
      BY DEF FloodInv, OnTime, Writing
    <2>2. QED
      BY <2>1 DEF LostToCover
  <1>3. QED
    BY <1>1, <1>2 DEF FloodInv

\* An expired row goes only while nobody is about to write one.
LEMMA CleanUpFlood ==
  ASSUME FloodInv, BlockInv', NEW c \in Conns, CleanUp(c)
  PROVE  FloodInv'
  <1>1. /\ UNCHANGED <<now, hits, due, excused>>
        /\ \A d \in Conns \ {c} : req'[d] = req[d]
        /\ req[c].pc = "cleanup" /\ req'[c].pc = "screen"
    BY DEF CleanUp, Goto, FloodInv, BlockInv, TypeOK
  <1>2. \A d \in Conns : req'[d].pc # "write"
    BY <1>1 DEF FloodInv, BlockInv, NoWriter
  <1>3. HitsInOrder' /\ FullWindow' = FullWindow
    BY <1>1 DEF FloodInv, HitsInOrder, FullWindow
  <1>4. ASSUME NEW d \in Conns
        PROVE  (OnTime(d) /\ LostToCover(d))'
    BY <1>1, <1>2 DEF FloodInv, OnTime, LostToCover, Writing
  <1>5. \A d \in Conns : Writing(d) => req'[d] = req[d]
    BY <1>1 DEF Writing
  <1>6. \A d \in Conns : Writing(d) => Writing(d)'
    BY <1>5 DEF Writing
  <1>7. LastHitCovered'
    BY <1>1, <1>3, <1>5, <1>6 DEF FloodInv, LastHitCovered, Covers
  <1>8. QED
    BY <1>3, <1>4, <1>7 DEF FloodInv

\* Time passes only while every write is on time; the window loses hits.
LEMMA TickFlood ==
  ASSUME FloodInv, BlockInv', Tick
  PROVE  FloodInv'
  <1>1. /\ UNCHANGED <<row, hits, req, due, excused>> /\ now' = now + 1 /\ now \in Nat
        /\ hits \in Seq(Nat)
    BY DEF Tick, FloodInv, BlockInv, TypeOK
  <1>2. HitsInOrder'
    <2>1. \A i \in 1 .. Len(hits) : hits[i] \in Nat
      BY <1>1
    <2>2. QED
      BY <1>1, <2>1 DEF FloodInv, HitsInOrder
  <1>3. ASSUME NEW c \in Conns
        PROVE  (OnTime(c) /\ LostToCover(c))'
    <2>1. Writing(c) => /\ req[c].until \in Nat
                        /\ now < req[c].until - BlockTime + Stall
                        /\ req[c].until - BlockTime <= now
      BY AtWork DEF Tick, Writing, FloodInv, BlockInv, OnTime
    <2>2. OnTime(c)'
      BY <1>1, <2>1, StallAssumption DEF OnTime, Writing
    <2>3. QED
      BY <1>1, <2>2 DEF FloodInv, LostToCover, Conflict, Covers
  <1>4. FullWindow' => FullWindow
    <2>1. now - HitWindow \in Int /\ now' - HitWindow \in Int /\ now - HitWindow <= now' - HitWindow
      BY <1>1, WindowAssumption
    <2>2. Len(Fresh(hits, now' - HitWindow)) <= Len(Fresh(hits, now - HitWindow))
      BY <1>1, <2>1, FreshShrinks
    <2>3. /\ Len(Fresh(hits, now' - HitWindow)) \in Nat
          /\ Len(Fresh(hits, now - HitWindow)) \in Nat
      BY <1>1, <2>1, FreshIsShorter
    <2>4. QED
      BY <1>1, <2>2, <2>3, WindowAssumption DEF FullWindow
  <1>5. LastHitCovered'
    BY <1>1, <1>4 DEF FloodInv, LastHitCovered, Covers, Writing
  <1>6. QED
    BY <1>2, <1>3, <1>5 DEF FloodInv

LEMMA FloodNext ==
  ASSUME FloodInv, BlockInv', [Next]_vars
  PROVE  FloodInv'
  <1>0. TypeOK
    BY DEF FloodInv, BlockInv
  <1>1. ASSUME NEW c \in Conns, NEW k \in Requests,
               Pass(c, k) \/ FailOpen(c, k) \/ Refuse(c, k) \/ Lapsed(c, k)
        PROVE  FloodInv'
    <2>1. UNCHANGED <<now, row, due, hits, excused>>
      BY <1>1 DEF Pass, FailOpen, Refuse, Lapsed
    <2>2. /\ req[c] = Idle
          /\ \/ UNCHANGED req
             \/ Goto(c, "screen", k, NoRow, NoBlock)
             \/ Goto(c, "cleanup", k, row, NoBlock)
      BY <1>1 DEF Pass, FailOpen, Refuse, Lapsed
    <2>3. \A d \in Conns : req'[d] = req[d] \/ (~Writing(d) /\ ~Writing(d)')
      BY <1>0, <2>2 DEF Goto, Idle, Writing, TypeOK
    <2>4. QED
      BY <2>1, <2>3, FloodQuiet
  <1>2. ASSUME NEW c \in Conns, Screen(c)
        PROVE  FloodInv'
    <2>1. UNCHANGED <<now, row, due, hits, excused>> /\ req[c].pc = "screen"
      BY <1>2 DEF Screen
    <2>2. Done(c) \/ Goto(c, "waf", req[c].kind, NoRow, NoBlock)
      BY <1>2 DEF Screen
    <2>3. \A d \in Conns : req'[d] = req[d] \/ (~Writing(d) /\ ~Writing(d)')
      BY <1>0, <2>1, <2>2 DEF Goto, Done, Idle, Writing, TypeOK
    <2>4. QED
      BY <2>1, <2>3, FloodQuiet
  <1>3. ASSUME NEW c \in Conns, AutoFail(c)
        PROVE  FloodInv'
    <2>1. UNCHANGED <<now, hits>> /\ excused'
      BY <1>3 DEF AutoFail
    <2>2. \A d \in Conns : req'[d] = req[d] \/ ~Writing(d)'
      BY <1>0, <1>3 DEF AutoFail, Done, Idle, Writing, TypeOK
    <2>3. QED
      BY <2>1, <2>2, ExcusedFlood
  <1>4. CASE Block \/ Unblock
    <2>1. UNCHANGED <<now, hits, req>> /\ excused'
      BY <1>4 DEF Block, Unblock
    <2>2. QED
      BY <2>1, ExcusedFlood
  <1>5. CASE (\E until : BlockStart(until)) \/ UnblockStart \/ AdminLose \/ Probe
             \/ UNCHANGED vars
    <2>1. UNCHANGED <<now, row, due, hits, excused, req>>
      BY <1>5 DEF BlockStart, UnblockStart, AdminLose, Probe, vars
    <2>2. QED
      BY <2>1, FloodQuiet
  <1>6. QED
    BY <1>1, <1>2, <1>3, <1>4, <1>5, HitFlood, AutoReadFlood, AutoBlockFlood, AutoLoseFlood,
       CleanUpFlood, TickFlood
    DEF Next

\* A full window of hits means a block, whoever of several requests wrote it,
\* provided that a commit is not delayed for longer than a block outlives the
\* window and that no clean-up overlaps a writer; a failed write and an
\* administrator are the only excuses (waf.py:218-237, ip_blocker.py:43-79).
THEOREM FloodsAreBlocked ==
  ASSUME "cleanup" \notin Races
  PROVE  Spec => []FloodIsBlocked
  <1>1. FloodInv => FloodIsBlocked
    <2>0. SUFFICES ASSUME FloodInv PROVE FloodIsBlocked
      OBVIOUS
    <2>1. /\ now \in Nat /\ hits \in Seq(Nat) /\ now - HitWindow \in Int
          /\ due \in Nat \cup {Forever, NoBlock}
      BY <2>0, WindowAssumption DEF FloodInv, BlockInv, TypeOK
    <2> SUFFICES ASSUME FullWindow, ~excused, \A c \in Conns : ~Writing(c)
                 PROVE  row # NoRow /\ InForce(row.until)
      <3>1. Len(Fresh(hits, now - HitWindow)) \in Nat /\ Threshold \in Nat
        <4>1. Len(Fresh(hits, now - HitWindow)) \in Nat
          BY <2>1, FreshIsShorter
        <4>2. QED
          BY <4>1, WindowAssumption
      <3>2. FullWindow <=> ~(Len(Fresh(hits, now - HitWindow)) < Threshold)
        BY <3>1 DEF FullWindow
      <3>3. QED
        BY <3>2 DEF FloodIsBlocked, Writing
    <2>2. Covers(hits[Len(hits)] + BlockTime)
      BY <2>0 DEF FloodInv, LastHitCovered
    <2>3. Len(Fresh(hits, now - HitWindow)) >= 1
      BY <2>1, FreshIsSuffix, WindowAssumption DEF FullWindow
    <2>4. hits[Len(hits)] >= now - HitWindow /\ Len(hits) >= 1
      BY <2>0, <2>1, <2>3, FreshLast DEF FloodInv, HitsInOrder
    <2>5. hits[Len(hits)] \in Nat
      BY <2>1, <2>4
    <2>6. InForce(due)
      BY <2>1, <2>2, <2>4, <2>5, WindowAssumption, StallAssumption
      DEF Covers, InForce, Forever, NoBlock
    <2>7. QED
      BY <2>0, <2>6 DEF FloodInv, BlockInv
  <1>2. BlockInv /\ [Next]_vars => BlockInv'
    BY BlockNext
  <1>3. FloodInv /\ [Next]_vars => FloodInv'
    BY <1>2, FloodNext DEF FloodInv
  <1>4. QED
    BY FloodInit, <1>1, <1>3, PTL DEF Spec

=============================================================================
