------------------------------- MODULE Registry -------------------------------
(***************************************************************************)
(* Accounts with their roles, the services they register, and where the    *)
(* proxy sends a request: gateway/routes/user.py, services.py, proxy.py.   *)
(*                                                                         *)
(* Every route reads its rows, awaits, and commits.  A commit writes the   *)
(* columns that differ from the row that was read, and nothing when none   *)
(* does; the tables have no foreign keys and no unique name.  SQLite gives *)
(* the id of a deleted account or service out again.                       *)
(***************************************************************************)
EXTENDS Naturals, FiniteSets

CONSTANTS
    Users,       \* ids of accounts
    Names,       \* names of services
    Ids,         \* ids of services
    Handlers,    \* requests under way
    Static,      \* names in UPSTREAM_ROUTES
    Keep,        \* "this field is not in the payload"
    Races,       \* what may overlap
    MaxCalls,    \* bound: calls
    MaxAccounts  \* bound: accounts an id may have had

\* "admins": two demotions or deletions overlap; "names": two claims of one
\* name; "row": a change of a service and its deactivation, deletion or the
\* reuse of its id; "inherit": an account is deleted while it registers a
\* service, or its id is reused under a handler about it; "purge": the purge of
\* a deleted account skips its services.
ASSUME RacesAssumption   == Races \subseteq {"admins", "names", "row", "inherit", "purge"}
ASSUME StaticAssumption  == Static \subseteq Names /\ Keep \notin Names
ASSUME FiniteAssumption == IsFiniteSet(Users) /\ IsFiniteSet(Ids)
ASSUME BoundAssumption   == MaxCalls \in Nat /\ MaxAccounts \in Nat

VARIABLES
    role,     \* of each account: "admin", "user", or "gone"
    gen,      \* history: the account that has the id now
    svc,      \* rows of services; gen is history: the account that registered it
    req,      \* the handlers' state
    off,      \* history: services last deactivated rather than activated
    reused,   \* history: names registered while a row had them
    calls     \* history: calls so far, for the bound

vars == <<role, gen, svc, req, off, reused, calls>>

NoRow == [name |-> Keep]
Rows  == [owner : Users, gen : 0..MaxAccounts, name : Names, active : BOOLEAN]

Idle == [pc |-> "idle"]
Registering == [pc : {"register"}, actor : Users, gen : 0..MaxAccounts, name : Names]
Changing    == [pc : {"change"}, id : Ids, row : Rows, name : Names \cup {Keep},
                active : {"keep", "on", "off"}]
Deleting    == [pc : {"delete"}, id : Ids]
Ruling      == [pc : {"role", "remove"}, user : Users, read : {"admin", "user"},
                new : {"admin", "user"}]

-----------------------------------------------------------------------------

Admins   == {u \in Users : role[u] = "admin"}
Named(n) == {i \in Ids : svc[i].name = n}
Active(n) == {i \in Named(n) : svc[i].active}

\* What the two queries of a lookup come to, the service's row and then its
\* owner's: both are answered, the first raises, or the second does.
Answers == {"both", "no row", "no owner"}

Fallback(n) == IF n \in Static THEN "static" ELSE "none"

\* Mutant of Route: the row is marked found only once its owner is.
RouteFoundLate(n, answer) ==
    IF answer # "both" \/ Cardinality(Named(n)) # 1
    THEN Fallback(n)
    ELSE LET s == svc[CHOOSE i \in Named(n) : TRUE]
         IN  IF role[s.owner] # "gone" /\ s.active THEN "service" ELSE "none"

\* Mutant of Route: whether the service is active is not looked at.
RouteInactive(n, answer) ==
    IF answer = "no row" \/ Cardinality(Named(n)) # 1
    THEN Fallback(n)
    ELSE LET s == svc[CHOOSE i \in Named(n) : TRUE]
         IN  IF answer = "both" /\ role[s.owner] # "gone" THEN "service" ELSE "none"

\* Where the proxy sends a request for n.  An exception is swallowed: before a
\* row was found (the query fails, or finds two rows) the static routes decide,
\* after that nothing is routed.  The owner is looked up in a later query, whose
\* answer decides only between the service and nothing.
Route(n, answer) ==
    IF answer = "no row" \/ Cardinality(Named(n)) # 1
    THEN Fallback(n)
    ELSE LET s == svc[CHOOSE i \in Named(n) : TRUE]
         IN  IF answer = "both" /\ role[s.owner] # "gone" /\ s.active
             THEN "service" ELSE "none"

Start(h, r) ==
    /\ req[h] = Idle
    /\ calls < MaxCalls /\ calls' = calls + 1
    /\ req' = [req EXCEPT ![h] = r]

Done(h) == req' = [req EXCEPT ![h] = Idle] /\ UNCHANGED calls

\* No handler under way claims the name n.
Unclaimed(n) == \A h \in Handlers : ~(req[h].pc \in {"register", "change"} /\ req[h].name = n)

\* No handler under way is about the service i.
Untouched(i) == \A h \in Handlers : ~(req[h].pc \in {"change", "delete"} /\ req[h].id = i)

\* _get_owned_service.
MayTouch(u, i) ==
    /\ svc[i] # NoRow
    /\ role[u] = "admin" \/ (role[u] = "user" /\ svc[i].owner = u)

-----------------------------------------------------------------------------
(* Services *)

\* register_service: an active service bars the name, an inactive one does not.
RegisterStart(h, u, n) ==
    /\ role[u] # "gone"
    /\ Active(n) = {}
    /\ "names" \in Races \/ Unclaimed(n)
    /\ Start(h, [pc |-> "register", actor |-> u, gen |-> gen[u], name |-> n])
    /\ UNCHANGED <<role, gen, svc, off, reused>>

Register(h, i) ==
    /\ req[h].pc = "register"
    /\ svc[i] = NoRow
    /\ "row" \in Races \/ Untouched(i)
    /\ svc' = [svc EXCEPT ![i] = [owner |-> req[h].actor, gen |-> req[h].gen,
                                  name |-> req[h].name, active |-> TRUE]]
    /\ reused' = IF Named(req[h].name) # {} THEN reused \cup {req[h].name} ELSE reused
    /\ Done(h)
    /\ UNCHANGED <<role, gen, off>>

\* The commit fails.
RegisterFail(h) ==
    /\ req[h].pc = "register"
    /\ Done(h)
    /\ UNCHANGED <<role, gen, svc, off, reused>>

\* update_service: any other row bars a new name.  The URL and the description
\* are data.
ChangeStart(h, u, i, n, a) ==
    /\ MayTouch(u, i)
    /\ n # Keep => Named(n) \ {i} = {} /\ ("names" \in Races \/ Unclaimed(n))
    /\ "row" \in Races \/ Untouched(i)
    /\ Start(h, [pc |-> "change", id |-> i, row |-> svc[i], name |-> n, active |-> a])
    /\ UNCHANGED <<role, gen, svc, off, reused>>

RevokeStart(h, u, i)     == ChangeStart(h, u, i, Keep, "off")
ReactivateStart(h, u, i) == ChangeStart(h, u, i, Keep, "on")

NewName(r) == IF r.name \in {Keep, r.row.name} THEN svc[r.id].name ELSE r.name

NewActive(r) ==
    CASE r.active = "on"  /\ ~r.row.active -> TRUE
      [] r.active = "off" /\ r.row.active  -> FALSE
      [] OTHER -> svc[r.id].active

\* The commit, by id.
Change(h) ==
    LET r == req[h]
    IN  /\ r.pc = "change"
        /\ svc[r.id] # NoRow
        /\ svc' = [svc EXCEPT ![r.id].name = NewName(r), ![r.id].active = NewActive(r)]
        /\ off' = CASE r.active = "off" -> off \cup {r.id}
                    [] r.active = "on"  -> off \ {r.id}
                    [] OTHER -> off
        /\ Done(h)
        /\ UNCHANGED <<role, gen, reused>>

\* The row is gone: the call fails.
ChangeFail(h) ==
    /\ req[h].pc = "change"
    /\ svc[req[h].id] = NoRow
    /\ Done(h)
    /\ UNCHANGED <<role, gen, svc, off, reused>>

DeleteStart(h, u, i) ==
    /\ MayTouch(u, i)
    /\ "row" \in Races \/ Untouched(i)
    /\ Start(h, [pc |-> "delete", id |-> i])
    /\ UNCHANGED <<role, gen, svc, off, reused>>

Delete(h) ==
    /\ req[h].pc = "delete"
    /\ svc' = [svc EXCEPT ![req[h].id] = NoRow]
    /\ off' = off \ {req[h].id}
    /\ Done(h)
    /\ UNCHANGED <<role, gen, reused>>

-----------------------------------------------------------------------------
(* Accounts *)

\* A handler that may leave one administrator less.
Reduces(r) == r.pc = "remove" \/ (r.pc = "role" /\ r.new = "user")

NoReduction == \A h \in Handlers : ~Reduces(req[h])

\* Mutant of Spared: demoting oneself is not counted.
SparedOther(u, v) == role[v] = "admin" /\ u # v => Cardinality(Admins) > 1

\* _count_admins: the last administrator is spared.
Spared(u, v) == role[v] = "admin" => Cardinality(Admins) > 1

\* change_user_role by the administrator u.
RoleStart(h, u, v, new) ==
    /\ role[u] = "admin" /\ role[v] # "gone"
    /\ new = "user" => Spared(u, v) /\ ("admins" \in Races \/ NoReduction)
    /\ Start(h, [pc |-> "role", user |-> v, read |-> role[v], new |-> new])
    /\ UNCHANGED <<role, gen, svc, off, reused>>

ChangeRole(h) ==
    LET r == req[h]
    IN  /\ r.pc = "role"
        /\ role' = IF r.new # r.read /\ role[r.user] # "gone"
                   THEN [role EXCEPT ![r.user] = r.new] ELSE role
        /\ Done(h)
        /\ UNCHANGED <<gen, svc, off, reused>>

\* delete_user: not oneself.
RemoveStart(h, u, v) ==
    /\ role[u] = "admin" /\ role[v] # "gone" /\ u # v
    /\ Spared(u, v)
    /\ "admins" \in Races \/ NoReduction
    /\ Start(h, [pc |-> "remove", user |-> v, read |-> role[v], new |-> "user"])
    /\ UNCHANGED <<role, gen, svc, off, reused>>

\* Mutant of Purge: the services stay.
PurgeNot(v) == UNCHANGED <<svc, off>>

\* _purge_user_rows as far as services go.
Purge(v) ==
    LET own == {i \in Ids : svc[i] # NoRow /\ svc[i].owner = v}
    IN  \E gone \in {own} \cup (IF "purge" \in Races THEN {{}} ELSE {}) :
            /\ svc' = [i \in Ids |-> IF i \in gone THEN NoRow ELSE svc[i]]
            /\ off' = off \ gone

\* The deletions and their commit are one transaction.
Remove(h) ==
    /\ req[h].pc = "remove"
    /\ \/ "inherit" \in Races
       \/ \A g \in Handlers : ~(req[g].pc = "register" /\ req[g].actor = req[h].user)
    /\ Purge(req[h].user)
    /\ role' = [role EXCEPT ![req[h].user] = "gone"]
    /\ Done(h)
    /\ UNCHANGED <<gen, reused>>

\* A new account, with the id of a deleted one.
Join(v) ==
    /\ role[v] = "gone" /\ gen[v] < MaxAccounts
    /\ \/ "inherit" \in Races
       \/ \A h \in Handlers : ~(req[h].pc \in {"role", "remove"} /\ req[h].user = v)
    /\ role' = [role EXCEPT ![v] = "user"]
    /\ gen' = [gen EXCEPT ![v] = @ + 1]
    /\ UNCHANGED <<svc, req, off, reused, calls>>

-----------------------------------------------------------------------------

\* A request through the proxy changes nothing: Route says where it goes.
Proxy == UNCHANGED vars

Init ==
    /\ role \in [Users -> {"admin", "user", "gone"}]
    /\ Admins # {}
    /\ gen = [u \in Users |-> 0]
    /\ svc = [i \in Ids |-> NoRow]
    /\ req = [h \in Handlers |-> Idle]
    /\ off = {} /\ reused = {}
    /\ calls = 0

Next ==
    \/ \E h \in Handlers :
          \/ \E u \in Users, n \in Names : RegisterStart(h, u, n)
          \/ \E u \in Users, i \in Ids :
                \/ \E n \in Names, a \in {"keep", "on", "off"} : ChangeStart(h, u, i, n, a)
                \/ RevokeStart(h, u, i) \/ ReactivateStart(h, u, i) \/ DeleteStart(h, u, i)
          \/ \E u, v \in Users :
                \/ \E new \in {"admin", "user"} : RoleStart(h, u, v, new)
                \/ RemoveStart(h, u, v)
          \/ \E i \in Ids : Register(h, i)
          \/ RegisterFail(h) \/ Change(h) \/ ChangeFail(h) \/ Delete(h)
          \/ ChangeRole(h) \/ Remove(h)
    \/ \E v \in Users : Join(v)
    \/ Proxy

Spec == Init /\ [][Next]_vars

-----------------------------------------------------------------------------
(* Properties *)

\* Every variable holds what its comment says, at every place of a handler.
TypeOK ==
    /\ role \in [Users -> {"admin", "user", "gone"}]
    /\ gen \in [Users -> 0..MaxAccounts]
    /\ svc \in [Ids -> {NoRow} \cup Rows]
    /\ req \in [Handlers -> {Idle} \cup Registering \cup Changing \cup Deleting \cup Ruling]
    /\ off \subseteq Ids /\ reused \subseteq Names
    /\ calls \in 0..MaxCalls

\* Somebody can administer the gateway: promotions and demotions, deletions and
\* new accounts in any order leave an administrator, as long as two demotions
\* or deletions do not overlap (user.py:225-231, 255-259).
AdminRemains == Admins # {}

\* Once the lookup has found the row of a name, its static route is not taken,
\* be the service inactive, orphaned or its owner's query a failure.  Two rows of
\* one name are never found: that is ruled out unless the name was registered
\* again over an inactive row (proxy.py:237-273).
RegisteredShadowsStatic ==
    \A n \in Names \ reused, answer \in Answers \ {"no row"} :
        Named(n) # {} => Route(n, answer) # "static"

\* A deactivated service gets no traffic until it is activated, under whatever
\* name, whoever changes or deletes other things, and whichever query of the
\* lookup fails (services.py:182-208, proxy.py:267-268).
DeactivatedUnrouted ==
    \A n \in Names, answer \in Answers :
        Route(n, answer) = "service" => Named(n) \cap off = {}

\* An account never comes by the services of an earlier account with its id
\* (user.py:261-267), as long as it does not register one while it
\* is deleted and no purge is skipped.
NoInheritance ==
    \A i \in Ids :
        svc[i] # NoRow /\ role[svc[i].owner] # "gone" => svc[i].gen = gen[svc[i].owner]

=============================================================================
