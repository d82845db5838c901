---------------------------- MODULE RegistryProofs ----------------------------
(***************************************************************************)
(* Theorems about accounts and services, for any numbers of them, of       *)
(* handlers and of calls.  Each names the one overlap it excludes: with it *)
(* the property fails.                                                     *)
(***************************************************************************)
EXTENDS Registry, FiniteSetTheorems, TLAPS

-----------------------------------------------------------------------------
(* Type correctness *)

\* A handler that is at work holds what its place calls for.
LEMMA AtWork ==
  ASSUME TypeOK, NEW h \in Handlers
  PROVE  /\ req[h].pc = "register" => req[h] \in Registering
         /\ req[h].pc = "change" => req[h] \in Changing
         /\ req[h].pc = "delete" => req[h] \in Deleting
         /\ req[h].pc \in {"role", "remove"} => req[h] \in Ruling
  BY DEF TypeOK, Idle, Registering, Changing, Deleting, Ruling

LEMMA RowType ==
  /\ \A r \in Rows : r # NoRow /\ r.name \in Names /\ r.name # Keep
  /\ NoRow.name = Keep /\ \A n \in Names : n # Keep
  BY StaticAssumption DEF Rows, NoRow

LEMMA SvcType ==
  ASSUME TypeOK, NEW i \in Ids
  PROVE  /\ svc[i] # NoRow => svc[i] \in Rows
         /\ \A n \in Names : i \in Named(n) <=> svc[i] # NoRow /\ svc[i].name = n
  BY RowType DEF TypeOK, Named

LEMMA StartType ==
  ASSUME TypeOK, NEW h \in Handlers,
         NEW r \in Registering \cup Changing \cup Deleting \cup Ruling, Start(h, r),
         UNCHANGED <<role, gen, svc, off, reused>>
  PROVE  TypeOK'
  <1>1. calls' \in 0..MaxCalls
    BY BoundAssumption DEF Start, TypeOK
  <1>2. req' \in [Handlers -> {Idle} \cup Registering \cup Changing \cup Deleting \cup Ruling]
    BY DEF Start, TypeOK
  <1>3. QED
    BY <1>1, <1>2 DEF TypeOK

LEMMA DoneType ==
  ASSUME TypeOK, NEW h \in Handlers, Done(h)
  PROVE  /\ req' \in [Handlers -> {Idle} \cup Registering \cup Changing \cup Deleting \cup Ruling]
         /\ calls' \in 0..MaxCalls
  BY DEF Done, TypeOK

LEMMA TypeInit == Init => TypeOK
  BY BoundAssumption DEF Init, TypeOK

LEMMA StartsType ==
  ASSUME TypeOK, NEW h \in Handlers, NEW u \in Users,
         \/ \E n \in Names : RegisterStart(h, u, n)
         \/ \E i \in Ids :
               \/ \E n \in Names, a \in {"keep", "on", "off"} : ChangeStart(h, u, i, n, a)
               \/ RevokeStart(h, u, i) \/ ReactivateStart(h, u, i) \/ DeleteStart(h, u, i)
         \/ \E v \in Users :
               \/ \E new \in {"admin", "user"} : RoleStart(h, u, v, new)
               \/ RemoveStart(h, u, v)
  PROVE  TypeOK'
  <1>1. ASSUME NEW n \in Names, RegisterStart(h, u, n)
        PROVE  TypeOK'
    <2>1. [pc |-> "register", actor |-> u, gen |-> gen[u], name |-> n] \in Registering
      BY DEF Registering, TypeOK
    <2>2. QED
      BY <1>1, <2>1, StartType DEF RegisterStart
  <1>2. ASSUME NEW i \in Ids, NEW n \in Names \cup {Keep}, NEW a \in {"keep", "on", "off"},
               ChangeStart(h, u, i, n, a)
        PROVE  TypeOK'
    <2>1. svc[i] \in Rows
      BY <1>2, SvcType DEF ChangeStart, MayTouch
    <2>2. [pc |-> "change", id |-> i, row |-> svc[i], name |-> n, active |-> a] \in Changing
      BY <2>1 DEF Changing
    <2>3. QED
      BY <1>2, <2>2, StartType DEF ChangeStart
  <1>3. ASSUME NEW i \in Ids, RevokeStart(h, u, i) \/ ReactivateStart(h, u, i)
        PROVE  TypeOK'
    BY <1>2, <1>3 DEF RevokeStart, ReactivateStart
  <1>4. ASSUME NEW i \in Ids, DeleteStart(h, u, i)
        PROVE  TypeOK'
    <2>1. [pc |-> "delete", id |-> i] \in Deleting
      BY DEF Deleting
    <2>2. QED
      BY <1>4, <2>1, StartType DEF DeleteStart
  <1>5. ASSUME NEW v \in Users, NEW new \in {"admin", "user"}, RoleStart(h, u, v, new)
        PROVE  TypeOK'
    <2>1. [pc |-> "role", user |-> v, read |-> role[v], new |-> new] \in Ruling
      BY <1>5 DEF Ruling, RoleStart, TypeOK
    <2>2. QED
      BY <1>5, <2>1, StartType DEF RoleStart
  <1>6. ASSUME NEW v \in Users, RemoveStart(h, u, v)
        PROVE  TypeOK'
    <2>1. [pc |-> "remove", user |-> v, read |-> role[v], new |-> "user"] \in Ruling
      BY <1>6 DEF Ruling, RemoveStart, TypeOK
    <2>2. QED
      BY <1>6, <2>1, StartType DEF RemoveStart
  <1>7. QED
    BY <1>1, <1>2, <1>3, <1>4, <1>5, <1>6

\* What a change makes of its row.
LEMMA ChangeRow ==
  ASSUME TypeOK, NEW h \in Handlers, Change(h)
  PROVE  LET r == req[h]
         IN  /\ r \in Changing /\ svc[r.id] \in Rows
             /\ NewName(r) \in Names /\ NewActive(r) \in BOOLEAN
             /\ svc'[r.id] \in Rows
             /\ svc'[r.id].owner = svc[r.id].owner /\ svc'[r.id].gen = svc[r.id].gen
             /\ svc'[r.id].name = NewName(r) /\ svc'[r.id].active = NewActive(r)
             /\ svc' \in [Ids -> {NoRow} \cup Rows]
             /\ \A i \in Ids \ {r.id} : svc'[i] = svc[i]
  <1> DEFINE r == req[h]
  <1>1. r \in Changing /\ r.id \in Ids /\ r.row \in Rows /\ r.name \in Names \cup {Keep}
    BY AtWork DEF Change, Changing
  <1>2. svc[r.id] \in Rows
    BY <1>1, SvcType DEF Change
  <1>3. NewName(r) \in Names
    BY <1>1, <1>2, RowType DEF NewName
  <1>4. NewActive(r) \in BOOLEAN
    BY <1>2 DEF NewActive, Rows
  <1>5. svc' = [svc EXCEPT ![r.id].name = NewName(r), ![r.id].active = NewActive(r)]
    BY DEF Change
  <1> HIDE DEF r
  <1>6. svc'[r.id] = [svc[r.id] EXCEPT !.name = NewName(r), !.active = NewActive(r)]
    BY <1>1, <1>5 DEF TypeOK
  <1>7. /\ svc'[r.id] \in Rows
        /\ svc'[r.id].owner = svc[r.id].owner /\ svc'[r.id].gen = svc[r.id].gen
        /\ svc'[r.id].name = NewName(r) /\ svc'[r.id].active = NewActive(r)
    BY <1>2, <1>3, <1>4, <1>6 DEF Rows
  <1>8. \A i \in Ids \ {r.id} : svc'[i] = svc[i]
    BY <1>1, <1>5 DEF TypeOK
  <1>9. svc' \in [Ids -> {NoRow} \cup Rows]
    BY <1>1, <1>5, <1>7, <1>8 DEF TypeOK
  <1>10. QED
    BY <1>1, <1>2, <1>3, <1>4, <1>7, <1>8, <1>9 DEF r

LEMMA CommitsType ==
  ASSUME TypeOK, NEW h \in Handlers,
         \/ \E i \in Ids : Register(h, i)
         \/ RegisterFail(h) \/ Change(h) \/ ChangeFail(h) \/ Delete(h)
         \/ ChangeRole(h) \/ Remove(h)
  PROVE  TypeOK'
  <1>1. ASSUME NEW i \in Ids, Register(h, i)
        PROVE  TypeOK'
    <2>1. req[h] \in Registering
      BY <1>1, AtWork DEF Register
    <2>2. [owner |-> req[h].actor, gen |-> req[h].gen, name |-> req[h].name, active |-> TRUE]
             \in Rows
      BY <2>1 DEF Registering, Rows
    <2>3. svc' \in [Ids -> {NoRow} \cup Rows]
      BY <1>1, <2>2 DEF Register, TypeOK
    <2>4. reused' \subseteq Names
      BY <1>1, <2>1 DEF Register, Registering, TypeOK
    <2>5. QED
      BY <1>1, <2>3, <2>4, DoneType DEF Register, TypeOK
  <1>2. CASE RegisterFail(h) \/ ChangeFail(h)
    BY <1>2, DoneType DEF RegisterFail, ChangeFail, TypeOK
  <1>3. CASE Change(h)
    <2>1. req[h] \in Changing
      BY <1>3, AtWork DEF Change
    <2>2. off' \subseteq Ids
      BY <1>3, <2>1 DEF Change, Changing, TypeOK
    <2>3. QED
      BY <1>3, <2>2, ChangeRow, DoneType DEF Change, TypeOK
  <1>4. CASE Delete(h)
    BY <1>4, DoneType DEF Delete, TypeOK
  <1>5. CASE ChangeRole(h)
    <2>1. req[h] \in Ruling
      BY <1>5, AtWork DEF ChangeRole
    <2>2. role' \in [Users -> {"admin", "user", "gone"}]
      BY <1>5, <2>1 DEF ChangeRole, Ruling, TypeOK
    <2>3. QED
      BY <1>5, <2>2, DoneType DEF ChangeRole, TypeOK
  <1>6. CASE Remove(h)
    <2>1. req[h] \in Ruling
      BY <1>6, AtWork DEF Remove
    <2>2. role' \in [Users -> {"admin", "user", "gone"}]
      BY <1>6, <2>1 DEF Remove, Ruling, TypeOK
    <2>3. svc' \in [Ids -> {NoRow} \cup Rows] /\ off' \subseteq Ids
      BY <1>6 DEF Remove, Purge, TypeOK
    <2>4. QED
      BY <1>6, <2>2, <2>3, DoneType DEF Remove, TypeOK
  <1>7. QED
    BY <1>1, <1>2, <1>3, <1>4, <1>5, <1>6

LEMMA JoinType ==
  ASSUME TypeOK, NEW v \in Users, Join(v)
  PROVE  TypeOK'
  <1>1. gen' \in [Users -> 0..MaxAccounts]
    BY BoundAssumption DEF Join, TypeOK
  <1>2. role' \in [Users -> {"admin", "user", "gone"}]
    BY DEF Join, TypeOK
  <1>3. QED
    BY <1>1, <1>2 DEF Join, TypeOK

LEMMA TypeNext ==
  ASSUME TypeOK, [Next]_vars
  PROVE  TypeOK'
  <1>1. CASE Proxy \/ UNCHANGED vars
    BY <1>1 DEF Proxy, vars, TypeOK
  <1>2. QED
    BY <1>1, StartsType, CommitsType, JoinType DEF Next

\* Roles, rows and what every handler has read stay in their types, for any
\* accounts, names, services and overlaps (db/models.py:35-76, 181-203).
THEOREM TypeCorrect == Spec => []TypeOK
  BY TypeInit, TypeNext, PTL DEF Spec

-----------------------------------------------------------------------------
(* What a step does to the handlers *)

LEMMA StartReq ==
  ASSUME TypeOK, NEW h \in Handlers, NEW r, Start(h, r)
  PROVE  req'[h] = r /\ \A g \in Handlers \ {h} : req'[g] = req[g]
  BY DEF Start, TypeOK

LEMMA DoneReq ==
  ASSUME TypeOK, NEW h \in Handlers, Done(h)
  PROVE  req'[h] = Idle /\ \A g \in Handlers \ {h} : req'[g] = req[g]
  BY DEF Done, TypeOK

LEMMA IdlePc == Idle.pc = "idle" /\ ~Reduces(Idle)
  BY DEF Idle, Reduces

-----------------------------------------------------------------------------
(* An administrator remains *)

\* One handler at most may leave an administrator less, and it leaves another.
AdminsInv ==
  /\ AdminRemains
  /\ \A g, h \in Handlers : Reduces(req[g]) /\ Reduces(req[h]) => g = h
  /\ \A h \in Handlers :
        Reduces(req[h]) /\ (req[h].pc = "remove" \/ req[h].read = "admin")
           => \E w \in Users : w # req[h].user /\ role[w] = "admin"

LEMMA SparedOne ==
  ASSUME TypeOK, NEW u \in Users, NEW v \in Users, Spared(u, v), role[v] = "admin"
  PROVE  \E w \in Users : w # v /\ role[w] = "admin"
  <1>1. SUFFICES ASSUME \A w \in Users : role[w] = "admin" => w = v
                 PROVE  FALSE
    OBVIOUS
  <1>2. Admins = {v}
    BY <1>1 DEF Admins
  <1>3. Cardinality(Admins) = 1
    BY <1>2, FS_Singleton
  <1>4. QED
    BY <1>3 DEF Spared

LEMMA AdminsNext ==
  ASSUME TypeOK, AdminsInv, [Next]_vars, "admins" \notin Races
  PROVE  AdminsInv'
  <1>1. ASSUME NEW h \in Handlers, NEW r, Start(h, r), ~Reduces(r), UNCHANGED role
        PROVE  AdminsInv'
    BY <1>1, StartReq DEF AdminsInv, AdminRemains, Admins
  <1>2. ASSUME NEW h \in Handlers, Done(h), UNCHANGED role
        PROVE  AdminsInv'
    BY <1>2, DoneReq, IdlePc DEF AdminsInv, AdminRemains, Admins
  <1>3. ASSUME NEW h \in Handlers, NEW u \in Users, NEW n \in Names, RegisterStart(h, u, n)
        PROVE  AdminsInv'
    <2>1. ~Reduces([pc |-> "register", actor |-> u, gen |-> gen[u], name |-> n])
      BY DEF Reduces
    <2>2. QED
      BY <1>1, <1>3, <2>1 DEF RegisterStart
  <1>4. ASSUME NEW h \in Handlers, NEW u \in Users, NEW i \in Ids, NEW n, NEW a,
               ChangeStart(h, u, i, n, a)
        PROVE  AdminsInv'
    <2>1. ~Reduces([pc |-> "change", id |-> i, row |-> svc[i], name |-> n, active |-> a])
      BY DEF Reduces
    <2>2. QED
      BY <1>1, <1>4, <2>1 DEF ChangeStart
  <1>5. ASSUME NEW h \in Handlers, NEW u \in Users, NEW i \in Ids, DeleteStart(h, u, i)
        PROVE  AdminsInv'
    <2>1. ~Reduces([pc |-> "delete", id |-> i])
      BY DEF Reduces
    <2>2. QED
      BY <1>1, <1>5, <2>1 DEF DeleteStart
  <1>6. ASSUME NEW h \in Handlers, NEW u \in Users, NEW v \in Users,
               NEW new \in {"admin", "user"}, RoleStart(h, u, v, new)
        PROVE  AdminsInv'
    <2> DEFINE r == [pc |-> "role", user |-> v, read |-> role[v], new |-> new]
    <2>1. Start(h, r) /\ UNCHANGED role
      BY <1>6 DEF RoleStart
    <2>2. CASE new = "admin"
      BY <1>1, <2>1, <2>2 DEF Reduces
    <2>3. CASE new = "user"
      <3>1. Spared(u, v) /\ NoReduction
        BY <1>6, <2>3 DEF RoleStart
      <3>2. role[v] = "admin" => \E w \in Users : w # v /\ role[w] = "admin"
        BY <3>1, SparedOne
      <3>3. QED
        BY <2>1, <3>1, <3>2, StartReq DEF AdminsInv, AdminRemains, Admins, NoReduction
    <2>4. QED
      BY <2>2, <2>3
  <1>7. ASSUME NEW h \in Handlers, NEW u \in Users, NEW v \in Users, RemoveStart(h, u, v)
        PROVE  AdminsInv'
    <2> DEFINE r == [pc |-> "remove", user |-> v, read |-> role[v], new |-> "user"]
    <2>1. Start(h, r) /\ UNCHANGED role /\ NoReduction /\ u # v /\ role[u] = "admin"
      BY <1>7 DEF RemoveStart
    <2>2. QED
      BY <2>1, StartReq DEF AdminsInv, AdminRemains, Admins, NoReduction
  <1>8. ASSUME NEW h \in Handlers,
               \/ \E i \in Ids : Register(h, i)
               \/ RegisterFail(h) \/ Change(h) \/ ChangeFail(h) \/ Delete(h)
        PROVE  AdminsInv'
    BY <1>2, <1>8 DEF Register, RegisterFail, Change, ChangeFail, Delete
  <1>9. ASSUME NEW h \in Handlers, ChangeRole(h)
        PROVE  AdminsInv'
    <2> DEFINE r == req[h]
    <2>1. r \in Ruling /\ r.pc = "role" /\ Done(h)
      BY <1>9, AtWork DEF ChangeRole
    <2>2. CASE UNCHANGED role
      BY <1>2, <2>1, <2>2
    <2>3. CASE /\ r.new # r.read /\ r.new = "admin"
               /\ role' = [role EXCEPT ![r.user] = r.new]
      <3>1. \A w \in Users : role[w] = "admin" => role'[w] = "admin"
        BY <2>3 DEF TypeOK
      <3>2. AdminRemains'
        BY <3>1 DEF AdminsInv, AdminRemains, Admins
      <3>3. QED
        BY <2>1, <3>1, <3>2, DoneReq, IdlePc DEF AdminsInv
    <2>4. CASE /\ r.new # r.read /\ r.new = "user"
               /\ role' = [role EXCEPT ![r.user] = r.new]
      <3>1. Reduces(r) /\ r.read = "admin"
        BY <2>1, <2>4 DEF Reduces, Ruling
      <3>2. PICK w \in Users : w # r.user /\ role[w] = "admin"
        BY <3>1 DEF AdminsInv
      <3>3. role'[w] = "admin"
        BY <2>4, <3>2 DEF TypeOK
      <3>4. \A g \in Handlers \ {h} : ~Reduces(req[g])
        BY <3>1 DEF AdminsInv
      <3>5. AdminRemains'
        BY <3>3 DEF AdminRemains, Admins
      <3>6. QED
        BY <2>1, <3>4, <3>5, DoneReq, IdlePc DEF AdminsInv
    <2>5. QED
      BY <1>9, <2>1, <2>2, <2>3, <2>4 DEF ChangeRole, Ruling
  <1>10. ASSUME NEW h \in Handlers, Remove(h)
         PROVE  AdminsInv'
    <2> DEFINE r == req[h]
    <2>1. r \in Ruling /\ r.pc = "remove" /\ Done(h) /\ Reduces(r)
      BY <1>10, AtWork DEF Remove, Reduces
    <2>2. PICK w \in Users : w # r.user /\ role[w] = "admin"
      BY <2>1 DEF AdminsInv
    <2>3. role'[w] = "admin"
      BY <1>10, <2>2 DEF Remove, TypeOK
    <2>4. \A g \in Handlers \ {h} : ~Reduces(req[g])
      BY <2>1 DEF AdminsInv
    <2>5. AdminRemains'
      BY <2>3 DEF AdminRemains, Admins
    <2>6. QED
      BY <2>1, <2>4, <2>5, DoneReq, IdlePc DEF AdminsInv
  <1>11. ASSUME NEW v \in Users, Join(v)
         PROVE  AdminsInv'
    <2>1. \A w \in Users : role[w] = "admin" => role'[w] = "admin"
      BY <1>11 DEF Join, TypeOK
    <2>2. UNCHANGED req
      BY <1>11 DEF Join
    <2>3. AdminRemains'
      BY <2>1 DEF AdminsInv, AdminRemains, Admins
    <2>4. QED
      BY <2>1, <2>2, <2>3 DEF AdminsInv
  <1>12. CASE UNCHANGED vars
    BY <1>12 DEF vars, AdminsInv, AdminRemains, Admins
  <1>13. QED
    BY <1>3, <1>4, <1>5, <1>6, <1>7, <1>8, <1>9, <1>10, <1>11, <1>12
       DEF Next, Proxy, RevokeStart, ReactivateStart

\* The count of administrators that a demotion or a deletion reads stays true
\* until it commits, so the last one is never taken away (user.py:225-231,
\* 255-259), whatever else overlaps but another demotion or deletion.
THEOREM AnAdminRemains ==
  ASSUME "admins" \notin Races
  PROVE  Spec => []AdminRemains
  <1>1. Init => AdminsInv
    BY IdlePc DEF Init, AdminsInv, AdminRemains
  <1>2. TypeOK /\ AdminsInv /\ [Next]_vars => AdminsInv'
    BY AdminsNext
  <1>3. AdminsInv => AdminRemains
    BY DEF AdminsInv
  <1>4. QED
    BY <1>1, <1>2, <1>3, TypeCorrect, PTL DEF Spec

-----------------------------------------------------------------------------
(* Nobody inherits *)

\* Every row, and every registration under way, is of the account that has the
\* id of its owner now.
HeirInv ==
  /\ \A i \in Ids :
        svc[i] # NoRow => role[svc[i].owner] # "gone" /\ svc[i].gen = gen[svc[i].owner]
  /\ \A h \in Handlers :
        req[h].pc = "register" => role[req[h].actor] # "gone" /\ req[h].gen = gen[req[h].actor]

LEMMA HeirNext ==
  ASSUME TypeOK, HeirInv, [Next]_vars, "inherit" \notin Races, "purge" \notin Races
  PROVE  HeirInv'
  <1>1. ASSUME NEW h \in Handlers, NEW r, Start(h, r), UNCHANGED <<role, gen, svc>>,
               r.pc = "register" => role[r.actor] # "gone" /\ r.gen = gen[r.actor]
        PROVE  HeirInv'
    BY <1>1, StartReq DEF HeirInv
  <1>2. ASSUME NEW h \in Handlers, Done(h), UNCHANGED <<role, gen, svc>>
        PROVE  HeirInv'
    BY <1>2, DoneReq, IdlePc DEF HeirInv
  <1>3. ASSUME NEW h \in Handlers, NEW u \in Users, NEW n \in Names, RegisterStart(h, u, n)
        PROVE  HeirInv'
    BY <1>1, <1>3 DEF RegisterStart
  <1>4. ASSUME NEW h \in Handlers, NEW u \in Users, NEW i \in Ids, NEW n, NEW a,
               ChangeStart(h, u, i, n, a)
        PROVE  HeirInv'
    <2>1. [pc |-> "change", id |-> i, row |-> svc[i], name |-> n, active |-> a].pc # "register"
      OBVIOUS
    <2>2. QED
      BY <1>1, <1>4, <2>1 DEF ChangeStart
  <1>5. ASSUME NEW h \in Handlers, NEW u \in Users, NEW i \in Ids, DeleteStart(h, u, i)
        PROVE  HeirInv'
    <2>1. [pc |-> "delete", id |-> i].pc # "register"
      OBVIOUS
    <2>2. QED
      BY <1>1, <1>5, <2>1 DEF DeleteStart
  <1>6. ASSUME NEW h \in Handlers, NEW u \in Users, NEW v \in Users,
               \/ \E new \in {"admin", "user"} : RoleStart(h, u, v, new)
               \/ RemoveStart(h, u, v)
        PROVE  HeirInv'
    <2>1. \A p \in {"role", "remove"}, x \in {"admin", "user"} :
             [pc |-> p, user |-> v, read |-> role[v], new |-> x].pc # "register"
      OBVIOUS
    <2>2. QED
      BY <1>1, <1>6, <2>1 DEF RoleStart, RemoveStart
  <1>7. ASSUME NEW h \in Handlers, RegisterFail(h) \/ ChangeFail(h)
        PROVE  HeirInv'
    BY <1>2, <1>7 DEF RegisterFail, ChangeFail
  <1>8. ASSUME NEW h \in Handlers, NEW i \in Ids, Register(h, i)
        PROVE  HeirInv'
    <2>1. Done(h) /\ UNCHANGED <<role, gen>> /\ req[h].pc = "register"
      BY <1>8 DEF Register
    <2>2. svc'[i].owner = req[h].actor /\ svc'[i].gen = req[h].gen
      BY <1>8 DEF Register, TypeOK
    <2>3. \A j \in Ids \ {i} : svc'[j] = svc[j]
      BY <1>8 DEF Register, TypeOK
    <2>4. QED
      BY <2>1, <2>2, <2>3, DoneReq, IdlePc DEF HeirInv
  <1>9. ASSUME NEW h \in Handlers, Change(h)
        PROVE  HeirInv'
    <2>1. Done(h) /\ UNCHANGED <<role, gen>>
      BY <1>9 DEF Change
    <2>2. \A j \in Ids : svc'[j] # NoRow =>
             svc[j] # NoRow /\ svc'[j].owner = svc[j].owner /\ svc'[j].gen = svc[j].gen
      BY <1>9, ChangeRow, RowType
    <2>3. QED
      BY <2>1, <2>2, DoneReq, IdlePc DEF HeirInv
  <1>10. ASSUME NEW h \in Handlers, Delete(h)
         PROVE  HeirInv'
    <2>1. Done(h) /\ UNCHANGED <<role, gen>>
      BY <1>10 DEF Delete
    <2>2. \A j \in Ids : svc'[j] # NoRow => svc'[j] = svc[j]
      BY <1>10 DEF Delete, TypeOK
    <2>3. QED
      BY <2>1, <2>2, DoneReq, IdlePc DEF HeirInv
  <1>11. ASSUME NEW h \in Handlers, ChangeRole(h)
         PROVE  HeirInv'
    <2>1. req[h] \in Ruling /\ Done(h) /\ UNCHANGED <<gen, svc>>
      BY <1>11, AtWork DEF ChangeRole
    <2>2. \A u \in Users : role[u] # "gone" => role'[u] # "gone"
      BY <1>11, <2>1 DEF ChangeRole, Ruling, TypeOK
    <2>3. \A i \in Ids : svc[i] # NoRow => svc[i].owner \in Users
      BY SvcType DEF Rows
    <2>4. \A g \in Handlers : req[g].pc = "register" => req[g].actor \in Users
      BY AtWork DEF Registering
    <2>5. QED
      BY <2>1, <2>2, <2>3, <2>4, DoneReq, IdlePc DEF HeirInv
  <1>12. ASSUME NEW h \in Handlers, Remove(h)
         PROVE  HeirInv'
    <2> DEFINE v == req[h].user
    <2>1. /\ req[h] \in Ruling /\ Done(h) /\ UNCHANGED gen
          /\ role' = [role EXCEPT ![v] = "gone"]
          /\ \A g \in Handlers : ~(req[g].pc = "register" /\ req[g].actor = v)
      BY <1>12, AtWork DEF Remove
    <2>2. \A i \in Ids : svc'[i] # NoRow => svc'[i] = svc[i] /\ svc[i].owner # v
      BY <1>12 DEF Remove, Purge, TypeOK
    <2>3. \A i \in Ids : svc[i] # NoRow => svc[i].owner \in Users
      BY SvcType DEF Rows
    <2>4. \A g \in Handlers : req[g].pc = "register" => req[g].actor \in Users
      BY AtWork DEF Registering
    <2>5. \A u \in Users : u # v => role'[u] = role[u]
      BY <2>1 DEF TypeOK
    <2> HIDE DEF v
    <2>6. QED
      BY <2>1, <2>2, <2>3, <2>4, <2>5, DoneReq, IdlePc DEF HeirInv
  <1>13. ASSUME NEW v \in Users, Join(v)
         PROVE  HeirInv'
    <2>1. role[v] = "gone" /\ UNCHANGED <<svc, req>>
      BY <1>13 DEF Join
    <2>2. \A u \in Users \ {v} : role'[u] = role[u] /\ gen'[u] = gen[u]
      BY <1>13 DEF Join, TypeOK
    <2>3. \A i \in Ids : svc[i] # NoRow => svc[i].owner \in Users
      BY SvcType DEF Rows
    <2>4. \A g \in Handlers : req[g].pc = "register" => req[g].actor \in Users
      BY AtWork DEF Registering
    <2>5. QED
      BY <2>1, <2>2, <2>3, <2>4 DEF HeirInv
  <1>14. CASE UNCHANGED vars
    BY <1>14 DEF vars, HeirInv
  <1>15. QED
    BY <1>3, <1>4, <1>5, <1>6, <1>7, <1>8, <1>9, <1>10, <1>11, <1>12, <1>13, <1>14
       DEF Next, Proxy, RevokeStart, ReactivateStart

\* The purge of a deleted account and the way a registration takes its owner
\* from the session keep the rows of an id those of the account that has it,
\* however often the id is given out again (user.py:261-277), as long as no
\* account is deleted under its own registration and no purge is skipped.
THEOREM NobodyInherits ==
  ASSUME "inherit" \notin Races, "purge" \notin Races
  PROVE  Spec => []NoInheritance
  <1>1. Init => HeirInv
    BY IdlePc DEF Init, HeirInv
  <1>2. TypeOK /\ HeirInv /\ [Next]_vars => HeirInv'
    BY HeirNext
  <1>3. HeirInv => NoInheritance
    BY DEF HeirInv, NoInheritance
  <1>4. QED
    BY <1>1, <1>2, <1>3, TypeCorrect, PTL DEF Spec

-----------------------------------------------------------------------------
(* Where the proxy sends a name *)

LEMMA OneNamed ==
  ASSUME NEW n, NEW i, Named(n) = {i}
  PROVE  Cardinality(Named(n)) = 1 /\ (CHOOSE j \in Named(n) : TRUE) = i
  BY FS_Singleton

LEMMA ServiceNamed ==
  ASSUME NEW n, NEW answer, Route(n, answer) = "service"
  PROVE  \E i \in Ids : Named(n) = {i} /\ svc[i].active
  <1>1. Cardinality(Named(n)) = 1
    BY DEF Route, Fallback
  <1>2. IsFiniteSet(Named(n))
    BY FiniteAssumption, FS_Subset DEF Named
  <1>3. PICK i : Named(n) = {i}
    BY <1>1, <1>2, FS_Singleton
  <1>4. i \in Ids /\ (CHOOSE j \in Named(n) : TRUE) = i
    BY <1>3 DEF Named
  <1>5. svc[i].active
    BY <1>1, <1>4 DEF Route, Fallback
  <1>6. QED
    BY <1>3, <1>4, <1>5

-----------------------------------------------------------------------------
(* A deactivated service is not routed to *)

\* A change under way has read the row it will write, and is alone about it.
OffInv ==
  /\ \A i \in off : svc[i] # NoRow /\ svc[i].active = FALSE
  /\ \A h \in Handlers : req[h].pc = "change" => svc[req[h].id] \in {NoRow, req[h].row}
  /\ \A g, h \in Handlers :
        /\ req[g].pc \in {"change", "delete"} /\ req[h].pc \in {"change", "delete"}
        /\ req[g].id = req[h].id
        => g = h

LEMMA OffNext ==
  ASSUME TypeOK, OffInv, [Next]_vars, "row" \notin Races
  PROVE  OffInv'
  <1>1. ASSUME NEW h \in Handlers, NEW r, Start(h, r), UNCHANGED <<svc, off>>,
               r.pc \notin {"change", "delete"}
        PROVE  OffInv'
    BY <1>1, StartReq DEF OffInv
  <1>2. ASSUME NEW h \in Handlers, NEW r, Start(h, r), UNCHANGED <<svc, off>>,
               r.pc \in {"change", "delete"}, Untouched(r.id),
               r.pc = "change" => r.row = svc[r.id]
        PROVE  OffInv'
    BY <1>2, StartReq DEF OffInv, Untouched
  <1>3. ASSUME NEW h \in Handlers, Done(h), UNCHANGED <<svc, off>>
        PROVE  OffInv'
    BY <1>3, DoneReq, IdlePc DEF OffInv
  <1>4. ASSUME NEW h \in Handlers, NEW u \in Users, NEW n \in Names, RegisterStart(h, u, n)
        PROVE  OffInv'
    <2>1. [pc |-> "register", actor |-> u, gen |-> gen[u], name |-> n].pc
             \notin {"change", "delete"}
      OBVIOUS
    <2>2. QED
      BY <1>1, <1>4, <2>1 DEF RegisterStart
  <1>5. ASSUME NEW h \in Handlers, NEW u \in Users, NEW i \in Ids, NEW n, NEW a,
               ChangeStart(h, u, i, n, a)
        PROVE  OffInv'
    <2> DEFINE r == [pc |-> "change", id |-> i, row |-> svc[i], name |-> n, active |-> a]
    <2>1. r.pc \in {"change", "delete"} /\ r.id = i /\ r.row = svc[r.id]
      OBVIOUS
    <2>2. Start(h, r) /\ UNCHANGED <<svc, off>> /\ Untouched(i)
      BY <1>5 DEF ChangeStart
    <2> HIDE DEF r
    <2>3. QED
      BY <1>2, <2>1, <2>2
  <1>6. ASSUME NEW h \in Handlers, NEW u \in Users, NEW i \in Ids, DeleteStart(h, u, i)
        PROVE  OffInv'
    <2> DEFINE r == [pc |-> "delete", id |-> i]
    <2>1. r.pc \in {"change", "delete"} /\ r.id = i /\ r.pc # "change"
      OBVIOUS
    <2>2. Start(h, r) /\ UNCHANGED <<svc, off>> /\ Untouched(i)
      BY <1>6 DEF DeleteStart
    <2> HIDE DEF r
    <2>3. QED
      BY <1>2, <2>1, <2>2
  <1>7. ASSUME NEW h \in Handlers, NEW u \in Users, NEW v \in Users,
               \/ \E new \in {"admin", "user"} : RoleStart(h, u, v, new)
               \/ RemoveStart(h, u, v)
        PROVE  OffInv'
    <2>1. \A p \in {"role", "remove"}, x \in {"admin", "user"} :
             [pc |-> p, user |-> v, read |-> role[v], new |-> x].pc
                \notin {"change", "delete"}
      OBVIOUS
    <2>2. QED
      BY <1>1, <1>7, <2>1 DEF RoleStart, RemoveStart
  <1>8. ASSUME NEW h \in Handlers, RegisterFail(h) \/ ChangeFail(h) \/ ChangeRole(h)
        PROVE  OffInv'
    BY <1>3, <1>8 DEF RegisterFail, ChangeFail, ChangeRole
  <1>9. ASSUME NEW h \in Handlers, NEW i \in Ids, Register(h, i)
        PROVE  OffInv'
    <2>1. Done(h) /\ UNCHANGED off /\ svc[i] = NoRow /\ Untouched(i)
      BY <1>9 DEF Register
    <2>2. \A j \in Ids \ {i} : svc'[j] = svc[j]
      BY <1>9 DEF Register, TypeOK
    <2>3. i \notin off
      BY <2>1 DEF OffInv
    <2>4. \A g \in Handlers : req[g].pc = "change" => req[g].id \in Ids \ {i}
      BY <2>1, AtWork DEF Untouched, Changing
    <2>5. \A j \in off : j \in Ids
      BY DEF TypeOK
    <2>6. QED
      BY <2>1, <2>2, <2>3, <2>4, <2>5, DoneReq, IdlePc DEF OffInv
  <1>10. ASSUME NEW h \in Handlers, Change(h)
         PROVE  OffInv'
    <2> DEFINE r == req[h]
    <2>1. /\ Done(h) /\ r.pc = "change" /\ r \in Changing /\ svc[r.id] \in Rows
          /\ svc[r.id] # NoRow
      BY <1>10, ChangeRow, RowType DEF Change
    <2>2. svc[r.id] = r.row
      BY <2>1 DEF OffInv
    <2>3. \A j \in Ids \ {r.id} : svc'[j] = svc[j]
      BY <1>10, ChangeRow
    <2>4. svc'[r.id] # NoRow /\ svc'[r.id].active = NewActive(r)
      BY <1>10, ChangeRow, RowType
    <2>5. off' = CASE r.active = "off" -> off \cup {r.id}
                   [] r.active = "on"  -> off \ {r.id}
                   [] OTHER -> off
      BY <1>10 DEF Change
    <2>6. \A j \in off' : j = r.id \/ j \in off
      BY <2>5
    <2>7. r.id \in off' => NewActive(r) = FALSE
      <3>1. CASE r.active = "off"
        BY <2>1, <2>2, <3>1, Zenon DEF NewActive, Rows
      <3>2. CASE r.active = "on"
        BY <2>5, <3>2
      <3>3. CASE r.active = "keep"
        <4>1. off' = off
          BY <2>5, <3>3
        <4>2. NewActive(r) = svc[r.id].active
          BY <3>3 DEF NewActive
        <4>3. QED
          BY <4>1, <4>2 DEF OffInv
      <3>4. QED
        BY <2>1, <3>1, <3>2, <3>3 DEF Changing
    <2>8. \A g \in Handlers \ {h} : req[g].pc = "change" => req[g].id \in Ids \ {r.id}
      BY <2>1, AtWork DEF OffInv, Changing
    <2>9. \A j \in off : j \in Ids
      BY DEF TypeOK
    <2> HIDE DEF r
    <2>10. \A j \in off' : svc'[j] # NoRow /\ svc'[j].active = FALSE
      BY <2>3, <2>4, <2>6, <2>7, <2>9 DEF OffInv
    <2>11. req'[h].pc = "idle" /\ \A g \in Handlers \ {h} : req'[g] = req[g]
      BY <2>1, DoneReq, IdlePc
    <2>12. QED
      BY <2>3, <2>8, <2>10, <2>11 DEF OffInv
  <1>11. ASSUME NEW h \in Handlers, Delete(h)
         PROVE  OffInv'
    <2>1. Done(h) /\ off' = off \ {req[h].id}
      BY <1>11 DEF Delete
    <2>2. \A j \in Ids : svc'[j] = IF j = req[h].id THEN NoRow ELSE svc[j]
      BY <1>11 DEF Delete, TypeOK
    <2>3. \A g \in Handlers : req[g].pc = "change" => req[g].id \in Ids
      BY AtWork DEF Changing
    <2>4. \A j \in off : j \in Ids
      BY DEF TypeOK
    <2>5. QED
      BY <2>1, <2>2, <2>3, <2>4, DoneReq, IdlePc DEF OffInv
  <1>12. ASSUME NEW h \in Handlers, Remove(h)
         PROVE  OffInv'
    <2>1. Done(h) /\ Purge(req[h].user)
      BY <1>12 DEF Remove
    <2>2. PICK gone : /\ svc' = [i \in Ids |-> IF i \in gone THEN NoRow ELSE svc[i]]
                      /\ off' = off \ gone
      BY <2>1 DEF Purge
    <2>3. \A g \in Handlers : req[g].pc = "change" => req[g].id \in Ids
      BY AtWork DEF Changing
    <2>4. \A j \in off : j \in Ids
      BY DEF TypeOK
    <2>5. QED
      BY <2>1, <2>2, <2>3, <2>4, DoneReq, IdlePc DEF OffInv
  <1>13. CASE (\E v \in Users : Join(v)) \/ UNCHANGED vars
    BY <1>13 DEF Join, vars, OffInv
  <1>14. QED
    BY <1>4, <1>5, <1>6, <1>7, <1>8, <1>9, <1>10, <1>11, <1>12, <1>13
       DEF Next, Proxy, RevokeStart, ReactivateStart

\* A row that was deactivated stays inactive, and its name leads nowhere else,
\* until it is activated (services.py:182-208), whatever the lookup's queries come
\* to: a commit writes only what differs from the row it has read, which nobody
\* has changed since.
THEOREM NoTrafficWhenOff ==
  ASSUME "row" \notin Races
  PROVE  Spec => []DeactivatedUnrouted
  <1>1. Init => OffInv
    BY IdlePc DEF Init, OffInv
  <1>2. TypeOK /\ OffInv /\ [Next]_vars => OffInv'
    BY OffNext
  <1>3. OffInv => DeactivatedUnrouted
    BY ServiceNamed DEF OffInv, DeactivatedUnrouted
  <1>4. QED
    BY <1>1, <1>2, <1>3, TypeCorrect, PTL DEF Spec

-----------------------------------------------------------------------------
(* A registered service shadows the static route *)

\* Claims of names are exclusive, and nobody has the name that a change claims.
NamesInv ==
  /\ \A n \in Names \ reused : \A i, j \in Ids : svc[i].name = n /\ svc[j].name = n => i = j
  /\ \A h \in Handlers :
        req[h].pc = "change" /\ req[h].name # Keep
        => \A i \in Ids : svc[i].name = req[h].name => i = req[h].id
  /\ \A g, h \in Handlers :
        /\ req[g].pc \in {"register", "change"} /\ req[h].pc \in {"register", "change"}
        /\ req[g].name = req[h].name /\ req[h].name # Keep
        => g = h

LEMMA NamesNext ==
  ASSUME TypeOK, NamesInv, [Next]_vars, "names" \notin Races
  PROVE  NamesInv'
  <1>1. ASSUME NEW h \in Handlers, NEW r, Start(h, r), UNCHANGED <<svc, reused>>,
               r.pc \notin {"register", "change"}
        PROVE  NamesInv'
    BY <1>1, StartReq DEF NamesInv, Named
  <1>2. ASSUME NEW h \in Handlers, NEW r, Start(h, r), UNCHANGED <<svc, reused>>,
               r.name # Keep => Unclaimed(r.name),
               r.pc = "change" /\ r.name # Keep => \A i \in Ids : svc[i].name = r.name => i = r.id
        PROVE  NamesInv'
    BY <1>2, StartReq DEF NamesInv, Named, Unclaimed
  <1>3. ASSUME NEW h \in Handlers, Done(h), reused \subseteq reused',
               \A i \in Ids : svc'[i] \in {NoRow, svc[i]}
        PROVE  NamesInv'
    <2>1. \A i \in Ids : svc'[i].name = Keep \/ svc'[i].name = svc[i].name
      BY <1>3, RowType
    <2>2. \A g \in Handlers : req[g].pc = "change" => req[g].name \in Names \cup {Keep}
      BY AtWork DEF Changing
    <2>3. req'[h].pc = "idle" /\ \A g \in Handlers \ {h} : req'[g] = req[g]
      BY <1>3, DoneReq, IdlePc
    <2>4. \A n \in Names \ reused' : n \in Names \ reused /\ n # Keep
      BY <1>3, RowType
    <2>5. \A n \in Names \ reused' :
             \A i, j \in Ids : svc'[i].name = n /\ svc'[j].name = n => i = j
      BY <2>1, <2>4 DEF NamesInv
    <2>6. \A g \in Handlers : req'[g].pc = "change" /\ req'[g].name # Keep
             => \A i \in Ids : svc'[i].name = req'[g].name => i = req'[g].id
      BY <2>1, <2>3 DEF NamesInv
    <2>7. \A g, k \in Handlers :
             /\ req'[g].pc \in {"register", "change"} /\ req'[k].pc \in {"register", "change"}
             /\ req'[g].name = req'[k].name /\ req'[k].name # Keep
             => g = k
      BY <2>3 DEF NamesInv
    <2>8. QED
      BY <2>5, <2>6, <2>7 DEF NamesInv
  <1>4. ASSUME NEW h \in Handlers, NEW u \in Users, NEW n \in Names, RegisterStart(h, u, n)
        PROVE  NamesInv'
    <2> DEFINE r == [pc |-> "register", actor |-> u, gen |-> gen[u], name |-> n]
    <2>1. r.pc # "change" /\ r.name = n
      OBVIOUS
    <2>2. Start(h, r) /\ UNCHANGED <<svc, reused>> /\ Unclaimed(n)
      BY <1>4 DEF RegisterStart
    <2> HIDE DEF r
    <2>3. QED
      BY <1>2, <2>1, <2>2
  <1>5. ASSUME NEW h \in Handlers, NEW u \in Users, NEW i \in Ids, NEW n, NEW a,
               ChangeStart(h, u, i, n, a)
        PROVE  NamesInv'
    <2> DEFINE r == [pc |-> "change", id |-> i, row |-> svc[i], name |-> n, active |-> a]
    <2>1. r.name = n /\ r.id = i
      OBVIOUS
    <2>2. Start(h, r) /\ UNCHANGED <<svc, reused>>
      BY <1>5 DEF ChangeStart
    <2>3. n # Keep => Unclaimed(n) /\ \A j \in Ids : svc[j].name = n => j = i
      BY <1>5 DEF ChangeStart, Named
    <2> HIDE DEF r
    <2>4. QED
      BY <1>2, <2>1, <2>2, <2>3
  <1>6. ASSUME NEW h \in Handlers, NEW u \in Users, NEW i \in Ids, DeleteStart(h, u, i)
        PROVE  NamesInv'
    <2>1. [pc |-> "delete", id |-> i].pc \notin {"register", "change"}
      OBVIOUS
    <2>2. QED
      BY <1>1, <1>6, <2>1 DEF DeleteStart
  <1>7. ASSUME NEW h \in Handlers, NEW u \in Users, NEW v \in Users,
               \/ \E new \in {"admin", "user"} : RoleStart(h, u, v, new)
               \/ RemoveStart(h, u, v)
        PROVE  NamesInv'
    <2>1. \A p \in {"role", "remove"}, x \in {"admin", "user"} :
             [pc |-> p, user |-> v, read |-> role[v], new |-> x].pc
                \notin {"register", "change"}
      OBVIOUS
    <2>2. QED
      BY <1>1, <1>7, <2>1 DEF RoleStart, RemoveStart
  <1>8. ASSUME NEW h \in Handlers,
               RegisterFail(h) \/ ChangeFail(h) \/ ChangeRole(h) \/ Delete(h) \/ Remove(h)
        PROVE  NamesInv'
    <2>1. Done(h) /\ UNCHANGED reused
      BY <1>8 DEF RegisterFail, ChangeFail, ChangeRole, Delete, Remove
    <2>2. \A i \in Ids : svc'[i] \in {NoRow, svc[i]}
      <3>1. CASE UNCHANGED svc
        BY <3>1
      <3>2. CASE Delete(h)
        BY <3>2 DEF Delete, TypeOK
      <3>3. CASE Remove(h)
        BY <3>3 DEF Remove, Purge
      <3>4. QED
        BY <1>8, <3>1, <3>2, <3>3 DEF RegisterFail, ChangeFail, ChangeRole
    <2>3. QED
      BY <1>3, <2>1, <2>2
  <1>9. ASSUME NEW h \in Handlers, NEW i \in Ids, Register(h, i)
        PROVE  NamesInv'
    <2> DEFINE m == req[h].name
    <2>1. Done(h) /\ req[h].pc = "register" /\ req[h] \in Registering /\ svc[i] = NoRow
      BY <1>9, AtWork DEF Register
    <2>2. m \in Names /\ m # Keep
      BY <2>1, RowType DEF Registering
    <2>3. svc'[i].name = m /\ \A j \in Ids \ {i} : svc'[j] = svc[j]
      BY <1>9 DEF Register, TypeOK
    <2>4. reused' = IF Named(m) # {} THEN reused \cup {m} ELSE reused
      BY <1>9 DEF Register
    <2>5. req'[h].pc = "idle" /\ \A g \in Handlers \ {h} : req'[g] = req[g]
      BY <2>1, DoneReq, IdlePc
    <2>6. \A g \in Handlers \ {h} :
             req[g].pc = "change" => req[g].name # m /\ req[g].name \in Names \cup {Keep}
      BY <2>1, <2>2, AtWork DEF NamesInv, Changing
    <2> HIDE DEF m
    <2>7. \A n \in Names \ reused' :
             \A j, k \in Ids : svc'[j].name = n /\ svc'[k].name = n => j = k
      <3>1. ASSUME NEW n \in Names \ reused', NEW j \in Ids, NEW k \in Ids,
                   svc'[j].name = n, svc'[k].name = n
            PROVE  j = k
        <4>1. n \in Names \ reused
          BY <2>4
        <4>2. CASE n = m
          <5>1. Named(m) = {}
            BY <2>2, <2>4, <4>2, <3>1
          <5>2. QED
            BY <2>3, <3>1, <4>2, <5>1 DEF Named
        <4>3. CASE n # m
          <5>1. j # i /\ k # i
            BY <2>3, <3>1, <4>3
          <5>2. QED
            BY <2>3, <3>1, <4>1, <5>1 DEF NamesInv
        <4>4. QED
          BY <4>2, <4>3
      <3>2. QED
        BY <3>1
    <2>8. \A g \in Handlers : req'[g].pc = "change" /\ req'[g].name # Keep
             => \A j \in Ids : svc'[j].name = req'[g].name => j = req'[g].id
      BY <2>3, <2>5, <2>6 DEF NamesInv
    <2>9. \A g, k \in Handlers :
             /\ req'[g].pc \in {"register", "change"} /\ req'[k].pc \in {"register", "change"}
             /\ req'[g].name = req'[k].name /\ req'[k].name # Keep
             => g = k
      BY <2>5 DEF NamesInv
    <2>10. QED
      BY <2>7, <2>8, <2>9 DEF NamesInv
  <1>10. ASSUME NEW h \in Handlers, Change(h)
         PROVE  NamesInv'
    <2> DEFINE r == req[h]
    <2>1. /\ Done(h) /\ UNCHANGED reused /\ r.pc = "change" /\ r \in Changing
          /\ svc[r.id] \in Rows /\ svc'[r.id] \in Rows /\ svc'[r.id].name = NewName(r)
          /\ NewName(r) \in Names
      BY <1>10, ChangeRow DEF Change
    <2>2. r.id \in Ids /\ r.name \in Names \cup {Keep}
      BY <2>1 DEF Changing
    <2>3. \A j \in Ids \ {r.id} : svc'[j] = svc[j]
      BY <1>10, ChangeRow
    <2>4. NewName(r) = svc[r.id].name \/ (NewName(r) = r.name /\ r.name # Keep)
      BY DEF NewName
    <2>5. req'[h].pc = "idle" /\ \A g \in Handlers \ {h} : req'[g] = req[g]
      BY <2>1, DoneReq, IdlePc
    <2>6. r.name # Keep => \A j \in Ids : svc[j].name = r.name => j = r.id
      BY <2>1 DEF NamesInv
    <2>7. \A g \in Handlers \ {h} : req[g].pc = "change" /\ req[g].name # Keep
             => req[g].name # r.name
      BY <2>1 DEF NamesInv
    <2>8. r.name # Keep => \A j \in Ids : svc'[j].name = r.name => j = r.id
      BY <2>3, <2>6
    <2>9. \A n \in Names \ {r.name} : \A j \in Ids : svc'[j].name = n => svc[j].name = n
      BY <2>1, <2>2, <2>3, <2>4
    <2> HIDE DEF r
    <2>10. \A n \in Names \ reused' :
              \A j, k \in Ids : svc'[j].name = n /\ svc'[k].name = n => j = k
      <3>1. ASSUME NEW n \in Names \ reused, NEW j \in Ids, NEW k \in Ids,
                   svc'[j].name = n, svc'[k].name = n
            PROVE  j = k
        <4>1. CASE n = r.name
          BY <2>8, <3>1, <4>1, RowType
        <4>2. CASE n # r.name
          BY <2>9, <3>1, <4>2 DEF NamesInv
        <4>3. QED
          BY <4>1, <4>2
      <3>2. QED
        BY <2>1, <3>1
    <2>11. \A g \in Handlers : req'[g].pc = "change" /\ req'[g].name # Keep
              => \A j \in Ids : svc'[j].name = req'[g].name => j = req'[g].id
      <3>1. ASSUME NEW g \in Handlers \ {h}, req[g].pc = "change", req[g].name # Keep,
                   NEW j \in Ids, svc'[j].name = req[g].name
            PROVE  j = req[g].id
        <4>1. req[g].name \in Names \ {r.name}
          BY <2>7, <3>1, AtWork DEF Changing
        <4>2. svc[j].name = req[g].name
          BY <2>9, <3>1, <4>1
        <4>3. QED
          BY <3>1, <4>2 DEF NamesInv
      <3>2. QED
        BY <2>5, <3>1
    <2>12. \A g, k \in Handlers :
              /\ req'[g].pc \in {"register", "change"} /\ req'[k].pc \in {"register", "change"}
              /\ req'[g].name = req'[k].name /\ req'[k].name # Keep
              => g = k
      BY <2>5 DEF NamesInv
    <2>13. QED
      BY <2>10, <2>11, <2>12 DEF NamesInv
  <1>11. CASE (\E v \in Users : Join(v)) \/ UNCHANGED vars
    BY <1>11 DEF Join, vars, NamesInv, Named
  <1>12. QED
    BY <1>4, <1>5, <1>6, <1>7, <1>8, <1>9, <1>10, <1>11
       DEF Next, Proxy, RevokeStart, ReactivateStart

\* As long as two claims of one name do not overlap, a lookup that is answered
\* finds the one row of a name that was not registered over an inactive row, and
\* that row hides the static route even when the owner's query fails.  Nothing is
\* said of a lookup that fails: the static route is taken (proxy.py:237-273).
THEOREM RegisteredFirst ==
  ASSUME "names" \notin Races
  PROVE  Spec => []RegisteredShadowsStatic
  <1>1. Init => NamesInv
    BY IdlePc, RowType DEF Init, NamesInv, Named
  <1>2. TypeOK /\ NamesInv /\ [Next]_vars => NamesInv'
    BY NamesNext
  <1>3. NamesInv => RegisteredShadowsStatic
    <2>1. SUFFICES ASSUME NamesInv, NEW n \in Names \ reused,
                          NEW answer \in Answers \ {"no row"}, Named(n) # {}
                   PROVE  Route(n, answer) # "static"
      BY DEF RegisteredShadowsStatic
    <2>2. PICK i : Named(n) = {i}
      <3>1. \A i, j \in Ids : svc[i].name = n /\ svc[j].name = n => i = j
        BY <2>1 DEF NamesInv
      <3>2. PICK i \in Ids : svc[i].name = n
        BY <2>1 DEF Named
      <3>3. QED
        BY <3>1, <3>2 DEF Named
    <2>3. Cardinality(Named(n)) = 1
      BY <2>2, OneNamed
    <2>4. QED
      BY <2>3 DEF Route, Answers
  <1>4. QED
    BY <1>1, <1>2, <1>3, TypeCorrect, PTL DEF Spec

=============================================================================
