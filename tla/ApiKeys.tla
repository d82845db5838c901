------------------------------ MODULE ApiKeys ------------------------------
(***************************************************************************)
(* The API keys of one account (gateway/routes/apikeys.py): create,        *)
(* update, revoke, rotate, each of which reads a row, checks it and        *)
(* commits later, while another request may commit in between.             *)
(*                                                                         *)
(* A key's plaintext and hash are its identity; its name stands for the    *)
(* columns an owner can change.  The keys made by rotating a key share its *)
(* expiry, so a lineage expires as one.  An UPDATE writes only the columns *)
(* it changed.                                                             *)
(***************************************************************************)
EXTENDS Naturals, FiniteSets

CONSTANTS
    Clients,   \* requests in flight
    Keys,      \* identities of keys, in any order
    None,      \* an absent key or name
    Names,     \* names of keys
    Ops,       \* the operations performed
    Races      \* which overlaps may happen

AllOps == {"create", "update", "revoke", "rotate"}

ASSUME NoneAssumption  == None \notin Keys /\ None \notin Names
ASSUME OpsAssumption   == Ops \subseteq AllOps
ASSUME RacesAssumption == Races \subseteq {"rotate"}

VARIABLES
    row,       \* the api_keys row of each key
    expired,   \* lineages whose expires_at lies in the past
    req        \* the handler of each client

vars == <<row, expired, req>>

\* History: root is the first key of the lineage, of which the code keeps only
\* the name.
Row(status, name, root) == [status |-> status, name |-> name, root |-> root]

NoRow == Row("none", None, None)

Rows == {NoRow} \cup [status : {"active", "revoked"}, name : Names, root : Keys]

\* The row of the key that replaces old.
Successor(old, name) == Row("active", name, row[old].root)

\* A handler: the key it works on, the name it will write, None where it leaves
\* the column alone, and the status it read.
Handler(op, key, name, read) == [op |-> op, key |-> key, name |-> name, read |-> read]

IdleHandler == Handler("none", None, None, "none")

Handlers ==
    {IdleHandler}
    \cup [op : {"create"}, key : {None}, name : Names, read : {"none"}]
    \cup [op : {"rotate"}, key : Keys, name : Names, read : {"active"}]
    \cup [op : {"update"}, key : Keys, name : Names \cup {None}, read : {"active", "revoked"}]
    \cup [op : {"revoke"}, key : Keys, name : {None}, read : {"active", "revoked"}]

Exists(k) == row[k].status # "none"

\* What the owner sees as is_active and the proxy accepts.
Active(k) == row[k].status = "active" /\ row[k].root \notin expired

-----------------------------------------------------------------------------

\* A rotation beside another request of the account.
Conflict(op1, op2) == "rotate" \in {op1, op2} /\ "rotate" \notin Races

MayStart(c, op) ==
    \A d \in Clients \ {c} : req[d].op # "none" => ~Conflict(op, req[d].op)

Start(c, r) ==
    /\ r.op \in Ops
    /\ req[c].op = "none"
    /\ MayStart(c, r.op)
    /\ req' = [req EXCEPT ![c] = r]
    /\ UNCHANGED <<row, expired>>

Done(c) == req' = [req EXCEPT ![c] = IdleHandler]

-----------------------------------------------------------------------------

\* Keys whose row the duplicate check of create finds: not revoked, expired or not.
Holding(name) == {k \in Keys : row[k].status = "active" /\ row[k].name = name}

\* POST /api-keys.  One key of that name: 400.  Several: the query for at
\* most one row raises, and the request fails as well.
CreateStart(c, name) ==
    /\ Holding(name) = {}
    /\ Start(c, Handler("create", None, name, "none"))

Create(c) ==
    LET r == req[c]
    IN  /\ r.op = "create"
        /\ \E k \in Keys :
              /\ ~Exists(k)
              /\ row' = [row EXCEPT ![k] = Row("active", r.name, k)]
        /\ Done(c)
        /\ UNCHANGED expired

\* PATCH /api-keys/{id}: any key of the account, revoked ones too; no check
\* of the name.  A value the row already had is not written.
Changed(new, old) == IF new = old THEN None ELSE new

UpdateStart(c, k, name) ==
    /\ Exists(k)
    /\ Start(c, Handler("update", k, Changed(name, row[k].name), row[k].status))

NewOr(new, old) == IF new = None THEN old ELSE new

\* Mutant of Update: the whole row is written back as it was read.
UpdateWholeRow(c) ==
    LET r == req[c]
    IN  /\ r.op = "update"
        /\ row' = [row EXCEPT ![r.key].status = r.read, ![r.key].name = NewOr(r.name, @)]
        /\ Done(c)
        /\ UNCHANGED expired

Update(c) ==
    LET r == req[c]
    IN  /\ r.op = "update"
        /\ row' = [row EXCEPT ![r.key].name = NewOr(r.name, @)]
        /\ Done(c)
        /\ UNCHANGED expired

\* POST /api-keys/{id}/revoke: again, too.
RevokeStart(c, k) ==
    /\ Exists(k)
    /\ Start(c, Handler("revoke", k, None, row[k].status))

Revoke(c) ==
    /\ req[c].op = "revoke"
    /\ row' = [row EXCEPT ![req[c].key].status = "revoked"]
    /\ Done(c)
    /\ UNCHANGED expired

\* Mutant of RotateStart: a revoked key can be rotated.
RotateStartRevoked(c, k) ==
    /\ Exists(k)
    /\ row[k].root \notin expired
    /\ Start(c, Handler("rotate", k, row[k].name, "active"))

\* POST /api-keys/{id}/rotate: neither revoked nor expired as read.
RotateStart(c, k) ==
    /\ Active(k)
    /\ Start(c, Handler("rotate", k, row[k].name, "active"))

\* Mutant of Rotate: the old key stays.
RotateKeepsOld(c) ==
    LET r == req[c]
    IN  /\ r.op = "rotate"
        /\ \E k \in Keys :
              /\ ~Exists(k)
              /\ row' = [row EXCEPT
                    ![k] = Successor(r.key, r.name)]
        /\ Done(c)
        /\ UNCHANGED expired

\* The old key is revoked and the new one inserted in one commit.
Rotate(c) ==
    LET r == req[c]
    IN  /\ r.op = "rotate"
        /\ \E k \in Keys :
              /\ ~Exists(k)
              /\ row' = [row EXCEPT
                    ![k] = Successor(r.key, r.name),
                    ![r.key].status = "revoked"]
        /\ Done(c)
        /\ UNCHANGED expired

\* The expiry of a lineage passes.
Expire(k) ==
    /\ Exists(k) /\ row[k].root = k
    /\ expired' = expired \cup {k}
    /\ UNCHANGED <<row, req>>

\* A handler dies before its commit.
Abort(c) ==
    /\ req[c].op # "none"
    /\ Done(c)
    /\ UNCHANGED <<row, expired>>

Init ==
    /\ row = [k \in Keys |-> NoRow]
    /\ expired = {}
    /\ req = [c \in Clients |-> IdleHandler]

Begin(c) ==
    \/ \E name \in Names :
          CreateStart(c, name) \/ \E k \in Keys : UpdateStart(c, k, name)
    \/ \E k \in Keys : RevokeStart(c, k) \/ RotateStart(c, k)

Next ==
    \/ \E c \in Clients :
          Begin(c) \/ Create(c) \/ Update(c) \/ Revoke(c) \/ Rotate(c) \/ Abort(c)
    \/ \E k \in Keys : Expire(k)

Spec == Init /\ [][Next]_vars

-----------------------------------------------------------------------------
(* Properties *)

\* Every variable holds what its column or snapshot can hold.
TypeOK ==
    /\ row \in [Keys -> Rows]
    /\ expired \subseteq Keys
    /\ req \in [Clients -> Handlers]

Lineage(f) == {k \in Keys : Exists(k) /\ row[k].root = f}

\* However the handlers overlap, none of them brings a revoked key back: a
\* handler that read it active does not write that over the revocation
\* (routes/apikeys.py:163-167).
RevokedStaysRevoked ==
    [][\A k \in Keys : row[k].status = "revoked" => row'[k].status = "revoked"]_vars

\* A lineage of keys is one credential: it begins once, rotation hands it on,
\* and when it is revoked or expires no later step of any handler revives it
\* (routes/apikeys.py:199-202).
Life == INSTANCE KeyLife WITH
            Key   <- Keys,
            live  <- {f \in Keys : \E k \in Lineage(f) : Active(k)},
            ended <- {f \in Keys : Lineage(f) # {} /\ \A k \in Lineage(f) : ~Active(k)}

ImplementsLife == Life!Spec

\* One plaintext of a credential works at a time: rotation replaces a key, it
\* never adds one (routes/apikeys.py:193-195).
OneActiveKey ==
    \A k, l \in Keys : (Active(k) /\ Active(l) /\ row[k].root = row[l].root) => k = l

=============================================================================
