---------------------------- MODULE ApiKeysProofs ----------------------------
(***************************************************************************)
(* Theorems about the API keys of an account, for any keys, names and      *)
(* requests in flight.                                                     *)
(***************************************************************************)
EXTENDS ApiKeys, TLAPS

-----------------------------------------------------------------------------
(* Type correctness *)

LEMMA StartType ==
  ASSUME TypeOK, NEW c \in Clients, NEW r \in Handlers, Start(c, r)
  PROVE  TypeOK'
  BY DEF Start, TypeOK

LEMMA DoneType ==
  ASSUME TypeOK, NEW c \in Clients, Done(c)
  PROVE  req' \in [Clients -> Handlers]
  BY DEF Done, TypeOK, Handlers

\* A handler at work holds what its operation calls for.
LEMMA AtWork ==
  ASSUME TypeOK, NEW c \in Clients
  PROVE  /\ req[c].op = "create" => req[c].name \in Names
         /\ req[c].op = "rotate" => req[c].key \in Keys /\ req[c].name \in Names
         /\ req[c].op = "update" => req[c].key \in Keys /\ req[c].name \in Names \cup {None}
         /\ req[c].op = "revoke" => req[c].key \in Keys
  BY DEF TypeOK, Handlers, IdleHandler, Handler

LEMMA RowType ==
  /\ NoRow.status = "none" /\ NoRow.root = None /\ NoRow.name = None
  /\ \A r \in Rows : r.status # "none" =>
        r \in [status : {"active", "revoked"}, name : Names, root : Keys]
  BY DEF Rows, NoRow, Row

LEMMA BeginType ==
  ASSUME TypeOK, NEW c \in Clients, Begin(c)
  PROVE  TypeOK'
  <1>1. ASSUME NEW n \in Names, CreateStart(c, n)
        PROVE  TypeOK'
    <2>1. Handler("create", None, n, "none") \in Handlers
      BY DEF Handlers, Handler
    <2>2. QED
      BY <1>1, <2>1, StartType DEF CreateStart
  <1>2. ASSUME NEW k \in Keys, NEW n \in Names, UpdateStart(c, k, n)
        PROVE  TypeOK'
    <2>1. row[k].status \in {"active", "revoked"}
      BY <1>2, RowType DEF UpdateStart, Exists, TypeOK
    <2>2. Handler("update", k, Changed(n, row[k].name), row[k].status) \in Handlers
      BY <2>1 DEF Handlers, Handler, Changed
    <2>3. QED
      BY <1>2, <2>2, StartType DEF UpdateStart
  <1>3. ASSUME NEW k \in Keys, RevokeStart(c, k)
        PROVE  TypeOK'
    <2>1. row[k].status \in {"active", "revoked"}
      BY <1>3, RowType DEF RevokeStart, Exists, TypeOK
    <2>2. Handler("revoke", k, None, row[k].status) \in Handlers
      BY <2>1 DEF Handlers, Handler
    <2>3. QED
      BY <1>3, <2>2, StartType DEF RevokeStart
  <1>4. ASSUME NEW k \in Keys, RotateStart(c, k)
        PROVE  TypeOK'
    <2>1. row[k].name \in Names
      BY <1>4, RowType DEF RotateStart, Active, TypeOK
    <2>2. Handler("rotate", k, row[k].name, "active") \in Handlers
      BY <2>1 DEF Handlers, Handler
    <2>3. QED
      BY <1>4, <2>2, StartType DEF RotateStart
  <1>5. QED
    BY <1>1, <1>2, <1>3, <1>4 DEF Begin

\* A handler works on a key that exists.
Worked ==
  \A c \in Clients : req[c].op \in {"update", "revoke", "rotate"} => Exists(req[c].key)

\* What the five commits do to each row.
LEMMA RowSteps ==
  ASSUME TypeOK, Worked, NEW c \in Clients,
         Create(c) \/ Update(c) \/ Revoke(c) \/ Rotate(c)
  PROVE  /\ row' \in [Keys -> Rows]
         /\ \A k \in Keys : Exists(k) =>
               /\ Exists(k)' /\ row'[k].root = row[k].root
               /\ row[k].status = "revoked" => row'[k].status = "revoked"
  <1>1. CASE Create(c)
    <2>1. PICK k \in Keys : ~Exists(k) /\ row' = [row EXCEPT ![k] = Row("active", req[c].name, k)]
      BY <1>1 DEF Create
    <2>2. Row("active", req[c].name, k) \in Rows
      BY <1>1, AtWork DEF Create, Row, Rows
    <2>3. QED
      BY <2>1, <2>2 DEF TypeOK, Exists
  <1>2. CASE Update(c)
    <2> DEFINE k == req[c].key
    <2>1. k \in Keys /\ Exists(k) /\ req[c].name \in Names \cup {None}
      BY <1>2, AtWork DEF Update, Worked
    <2>2. row[k] \in [status : {"active", "revoked"}, name : Names, root : Keys]
      BY <2>1, RowType DEF TypeOK, Exists
    <2>3. row' = [row EXCEPT ![k].name = NewOr(req[c].name, @)]
      BY <1>2 DEF Update
    <2>4. NewOr(req[c].name, row[k].name) \in Names
      BY <2>1, <2>2 DEF NewOr
    <2> HIDE DEF k
    <2>5. row'[k] = [row[k] EXCEPT !.name = NewOr(req[c].name, row[k].name)]
      BY <2>1, <2>3 DEF TypeOK
    <2>6. /\ row'[k] \in [status : {"active", "revoked"}, name : Names, root : Keys]
          /\ row'[k].status = row[k].status /\ row'[k].root = row[k].root
      BY <2>2, <2>4, <2>5
    <2>7. \A l \in Keys \ {k} : row'[l] = row[l]
      BY <2>1, <2>3 DEF TypeOK
    <2>8. row' \in [Keys -> Rows]
      BY <2>1, <2>3, <2>6, <2>7 DEF TypeOK, Rows
    <2>9. QED
      BY <2>1, <2>6, <2>7, <2>8 DEF Exists
  <1>3. CASE Revoke(c)
    <2> DEFINE k == req[c].key
    <2>1. k \in Keys /\ Exists(k)
      BY <1>3, AtWork DEF Revoke, Worked
    <2>2. row[k] \in [status : {"active", "revoked"}, name : Names, root : Keys]
      BY <2>1, RowType DEF TypeOK, Exists
    <2>3. row' = [row EXCEPT ![k].status = "revoked"]
      BY <1>3 DEF Revoke
    <2> HIDE DEF k
    <2>4. QED
      BY <2>1, <2>2, <2>3 DEF TypeOK, Exists, Rows
  <1>4. CASE Rotate(c)
    <2> DEFINE k == req[c].key
    <2>1. k \in Keys /\ Exists(k) /\ req[c].name \in Names
      BY <1>4, AtWork DEF Rotate, Worked
    <2>2. row[k] \in [status : {"active", "revoked"}, name : Names, root : Keys]
      BY <2>1, RowType DEF TypeOK, Exists
    <2>3. PICK l \in Keys :
             /\ ~Exists(l)
             /\ row' = [row EXCEPT ![l] = Successor(k, req[c].name), ![k].status = "revoked"]
      BY <1>4 DEF Rotate
    <2>4. Successor(k, req[c].name) \in Rows
      BY <2>1, <2>2 DEF Successor, Row, Rows
    <2> HIDE DEF k
    <2>5. k # l
      BY <2>1, <2>3
    <2>6. QED
      BY <2>1, <2>2, <2>3, <2>4, <2>5 DEF TypeOK, Exists, Rows
  <1>5. QED
    BY <1>1, <1>2, <1>3, <1>4

LEMMA IdleOp == IdleHandler.op = "none"
  BY DEF IdleHandler, Handler

LEMMA WorkedNext ==
  ASSUME TypeOK, Worked, [Next]_vars
  PROVE  TypeOK' /\ Worked'
  <1>1. ASSUME NEW c \in Clients, Begin(c)
        PROVE  TypeOK' /\ Worked'
    <2>1. TypeOK'
      BY <1>1, BeginType
    <2>2. UNCHANGED row /\ \A d \in Clients \ {c} : req'[d] = req[d]
      BY <1>1 DEF Begin, CreateStart, UpdateStart, RevokeStart, RotateStart, Start, TypeOK
    <2>3. req'[c].op \in {"update", "revoke", "rotate"} => Exists(req'[c].key)
      <3>1. ASSUME NEW n \in Names, CreateStart(c, n)
            PROVE  req'[c].op = "create"
        BY <3>1 DEF CreateStart, Start, Handler, TypeOK
      <3>2. ASSUME NEW k \in Keys, NEW n \in Names, UpdateStart(c, k, n)
            PROVE  req'[c].key = k /\ Exists(k)
        BY <3>2 DEF UpdateStart, Start, Handler, TypeOK
      <3>3. ASSUME NEW k \in Keys, RevokeStart(c, k)
            PROVE  req'[c].key = k /\ Exists(k)
        BY <3>3 DEF RevokeStart, Start, Handler, TypeOK
      <3>4. ASSUME NEW k \in Keys, RotateStart(c, k)
            PROVE  req'[c].key = k /\ Exists(k)
        BY <3>4 DEF RotateStart, Start, Handler, TypeOK, Active, Exists
      <3>5. QED
        BY <1>1, <3>1, <3>2, <3>3, <3>4 DEF Begin
    <2>4. QED
      BY <2>1, <2>2, <2>3 DEF Worked, Exists
  <1>2. ASSUME NEW c \in Clients, Create(c) \/ Update(c) \/ Revoke(c) \/ Rotate(c)
        PROVE  TypeOK' /\ Worked'
    <2>1. Done(c) /\ UNCHANGED expired
      BY <1>2 DEF Create, Update, Revoke, Rotate
    <2>2. TypeOK'
      BY <1>2, <2>1, RowSteps, DoneType DEF TypeOK
    <2>3. req'[c].op = "none" /\ \A d \in Clients \ {c} : req'[d] = req[d]
      BY <2>1, IdleOp DEF Done, TypeOK
    <2>4. \A d \in Clients \ {c} : req[d].op \in {"update", "revoke", "rotate"}
             => req[d].key \in Keys /\ Exists(req[d].key)
      BY AtWork DEF Worked
    <2>5. \A k \in Keys : Exists(k) => row'[k].status # "none"
      BY <1>2, RowSteps DEF Exists
    <2>6. QED
      BY <2>2, <2>3, <2>4, <2>5 DEF Worked, Exists
  <1>3. ASSUME NEW c \in Clients, Abort(c)
        PROVE  TypeOK' /\ Worked'
    <2>1. TypeOK'
      BY <1>3, DoneType DEF Abort, TypeOK
    <2>2. req'[c].op = "none" /\ \A d \in Clients \ {c} : req'[d] = req[d]
      BY <1>3, IdleOp DEF Abort, Done, TypeOK
    <2>3. UNCHANGED row
      BY <1>3 DEF Abort
    <2>4. QED
      BY <2>1, <2>2, <2>3 DEF Worked, Exists
  <1>4. ASSUME NEW k \in Keys, Expire(k)
        PROVE  TypeOK' /\ Worked'
    BY <1>4 DEF Expire, TypeOK, Worked, Exists
  <1>5. CASE UNCHANGED vars
    BY <1>5 DEF vars, TypeOK, Worked, Exists
  <1>6. QED
    BY <1>1, <1>2, <1>3, <1>4, <1>5 DEF Next

LEMMA WorkedInit == Init => TypeOK /\ Worked
  BY IdleOp DEF Init, TypeOK, Worked, Rows, Handlers

\* Every row has the columns the schema gives it and every handler works on a
\* key of the account, whatever overlaps (db/models.py:149-178).
THEOREM TypeCorrect == Spec => [](TypeOK /\ Worked)
  BY WorkedInit, WorkedNext, PTL DEF Spec

\* No handler of the four writes the status it has read, so however they
\* overlap a revocation is final (routes/apikeys.py:163-177, 225-245).
THEOREM RevocationIsFinal == Spec => RevokedStaysRevoked
  <1>1. TypeOK /\ Worked /\ [Next]_vars
           => [\A k \in Keys : row[k].status = "revoked" => row'[k].status = "revoked"]_vars
    <2>1. SUFFICES ASSUME TypeOK, Worked, [Next]_vars, NEW k \in Keys,
                          row[k].status = "revoked"
                   PROVE  row'[k].status = "revoked"
      OBVIOUS
    <2>2. ASSUME NEW c \in Clients, Create(c) \/ Update(c) \/ Revoke(c) \/ Rotate(c)
          PROVE  row'[k].status = "revoked"
      BY <2>1, <2>2, RowSteps DEF Exists
    <2>3. CASE UNCHANGED row
      BY <2>1, <2>3
    <2>4. QED
      BY <2>1, <2>2, <2>3
         DEF Next, Begin, CreateStart, UpdateStart, RevokeStart, RotateStart, Start, Abort,
             Expire, vars
  <1>2. QED
    BY <1>1, TypeCorrect, PTL DEF Spec, RevokedStaysRevoked

-----------------------------------------------------------------------------
(* One active key for each lineage *)

\* A lineage begins with its root and one of its keys at most is not revoked; a
\* rotation under way is alone, and about that key.
LineInv ==
  /\ \A k \in Keys : Exists(k) => Exists(row[k].root)
  /\ \A k \in expired : Exists(k)
  /\ \A k, l \in Keys :
        row[k].status = "active" /\ row[l].status = "active" /\ row[k].root = row[l].root
        => k = l
  /\ \A c \in Clients : req[c].op = "rotate" =>
        /\ row[req[c].key].status = "active"
        /\ \A d \in Clients \ {c} : req[d].op = "none"

LEMMA BeginLine ==
  ASSUME TypeOK, LineInv, NEW c \in Clients, Begin(c), "rotate" \notin Races
  PROVE  LineInv'
  <1>1. UNCHANGED <<row, expired>> /\ \A d \in Clients \ {c} : req'[d] = req[d]
    BY DEF Begin, CreateStart, UpdateStart, RevokeStart, RotateStart, Start, TypeOK
  <1>2. \A d \in Clients \ {c} : req[d].op # "rotate"
    BY DEF Begin, CreateStart, UpdateStart, RevokeStart, RotateStart, Start, MayStart,
           Conflict, TypeOK, Handlers, IdleHandler, Handler
  <1>3. req'[c].op = "rotate" =>
           row[req'[c].key].status = "active" /\ \A d \in Clients \ {c} : req[d].op = "none"
    <2>1. ASSUME NEW n \in Names, CreateStart(c, n)
          PROVE  req'[c].op = "create"
      BY <2>1 DEF CreateStart, Start, Handler, TypeOK
    <2>2. ASSUME NEW k \in Keys, NEW n \in Names, UpdateStart(c, k, n)
          PROVE  req'[c].op = "update"
      BY <2>2 DEF UpdateStart, Start, Handler, TypeOK
    <2>3. ASSUME NEW k \in Keys, RevokeStart(c, k)
          PROVE  req'[c].op = "revoke"
      BY <2>3 DEF RevokeStart, Start, Handler, TypeOK
    <2>4. ASSUME NEW k \in Keys, RotateStart(c, k)
          PROVE  /\ req'[c].key = k /\ row[k].status = "active"
                 /\ \A d \in Clients \ {c} : req[d].op = "none"
      BY <2>4 DEF RotateStart, Start, MayStart, Conflict, Handler, TypeOK, Active
    <2>5. QED
      BY <2>1, <2>2, <2>3, <2>4 DEF Begin
  <1>4. \A k \in Keys : Exists(k)' <=> Exists(k)
    BY <1>1 DEF Exists
  <1>5. QED
    BY <1>1, <1>2, <1>3 DEF LineInv, Exists

\* What a rotation does: the successor takes the place of the old key.
LEMMA RotateStep ==
  ASSUME TypeOK, Worked, NEW c \in Clients, Rotate(c)
  PROVE  \E l \in Keys :
            LET k == req[c].key
            IN  /\ k \in Keys /\ ~Exists(l) /\ k # l
                /\ row'[k].status = "revoked" /\ row'[k].root = row[k].root
                /\ row'[l].status = "active" /\ row'[l].root = row[k].root
                /\ \A j \in Keys \ {k, l} : row'[j] = row[j]
  <1> DEFINE k == req[c].key
  <1>1. k \in Keys /\ Exists(k)
    BY AtWork DEF Rotate, Worked
  <1>2. row[k] \in [status : {"active", "revoked"}, name : Names, root : Keys]
    BY <1>1, RowType DEF TypeOK, Exists
  <1>3. PICK l \in Keys :
           /\ ~Exists(l)
           /\ row' = [row EXCEPT ![l] = Successor(k, req[c].name), ![k].status = "revoked"]
    BY DEF Rotate
  <1>4. /\ Successor(k, req[c].name).status = "active"
        /\ Successor(k, req[c].name).root = row[k].root
    BY DEF Successor, Row
  <1>5. k # l
    BY <1>1, <1>3
  <1> HIDE DEF k
  <1>6. row'[k] = [row[k] EXCEPT !.status = "revoked"]
    BY <1>1, <1>3, <1>5 DEF TypeOK
  <1>7. row'[k].status = "revoked" /\ row'[k].root = row[k].root
    BY <1>2, <1>6
  <1>8. row'[l] = Successor(k, req[c].name) /\ \A j \in Keys \ {k, l} : row'[j] = row[j]
    BY <1>1, <1>3, <1>5 DEF TypeOK
  <1>9. QED
    BY <1>1, <1>3, <1>4, <1>5, <1>7, <1>8 DEF k

\* What an update and a revocation leave of every row.
LEMMA EditStep ==
  ASSUME TypeOK, Worked, NEW c \in Clients, Update(c) \/ Revoke(c)
  PROVE  LET k == req[c].key
         IN  /\ k \in Keys /\ Exists(k) /\ row'[k].root = row[k].root
             /\ Update(c) => row'[k].status = row[k].status
             /\ Revoke(c) => row'[k].status = "revoked"
             /\ \A j \in Keys \ {k} : row'[j] = row[j]
  <1> DEFINE k == req[c].key
  <1>1. k \in Keys /\ Exists(k)
    BY AtWork DEF Update, Revoke, Worked
  <1>2. row[k] \in [status : {"active", "revoked"}, name : Names, root : Keys]
    BY <1>1, RowType DEF TypeOK, Exists
  <1>3. CASE Update(c)
    <2>1. row' = [row EXCEPT ![k].name = NewOr(req[c].name, @)] /\ req[c].op = "update"
      BY <1>3 DEF Update
    <2>2. ~Revoke(c)
      BY <2>1 DEF Revoke
    <2> HIDE DEF k
    <2>3. QED
      BY <1>1, <1>2, <2>1, <2>2 DEF TypeOK, k
  <1>4. CASE Revoke(c)
    <2>1. row' = [row EXCEPT ![k].status = "revoked"] /\ req[c].op = "revoke"
      BY <1>4 DEF Revoke
    <2>2. ~Update(c)
      BY <2>1 DEF Update
    <2> HIDE DEF k
    <2>3. QED
      BY <1>1, <1>2, <2>1, <2>2 DEF TypeOK, k
  <1>5. QED
    BY <1>3, <1>4

LEMMA CreateStep ==
  ASSUME TypeOK, NEW c \in Clients, Create(c)
  PROVE  \E k \in Keys : /\ ~Exists(k)
                         /\ row'[k].status = "active" /\ row'[k].root = k
                         /\ \A j \in Keys \ {k} : row'[j] = row[j]
  BY DEF Create, Row, TypeOK

LEMMA CommitLine ==
  ASSUME TypeOK, Worked, LineInv, NEW c \in Clients,
         Create(c) \/ Update(c) \/ Revoke(c) \/ Rotate(c)
  PROVE  LineInv'
  <1>1. Done(c) /\ UNCHANGED expired
    BY DEF Create, Update, Revoke, Rotate
  <1>2. req'[c].op = "none" /\ \A d \in Clients \ {c} : req'[d] = req[d]
    BY <1>1, IdleOp DEF Done, TypeOK
  <1>3. req[c].op # "none"
    BY DEF Create, Update, Revoke, Rotate
  <1>4. \A d \in Clients : req'[d].op # "rotate"
    BY <1>2, <1>3 DEF LineInv
  <1>5. expired \subseteq Keys
    BY DEF TypeOK
  <1>6. \A k \in Keys : row[k].status = "none" \/ row[k].root \in Keys
    BY RowType DEF TypeOK, Rows
  <1>7. CASE Create(c)
    <2>1. PICK k \in Keys : /\ ~Exists(k)
                            /\ row'[k].status = "active" /\ row'[k].root = k
                            /\ \A j \in Keys \ {k} : row'[j] = row[j]
      BY <1>7, CreateStep
    <2>2. \A j \in Keys \ {k} : Exists(j) => row[j].root # k
      BY <2>1 DEF LineInv
    <2>3. \A j \in Keys \ {k} : row[j].status = "active" => row'[j].root # k
      BY <2>1, <2>2 DEF Exists
    <2>4. (\A i, j \in Keys :
             row[i].status = "active" /\ row[j].status = "active" /\ row[i].root = row[j].root
             => i = j)'
      BY <2>1, <2>3 DEF LineInv
    <2>5. \A j \in Keys : row'[j].status # "none" => row'[row'[j].root].status # "none"
      BY <1>6, <2>1 DEF LineInv, Exists
    <2>6. \A j \in expired : row'[j].status # "none"
      BY <1>5, <2>1 DEF LineInv, Exists
    <2>7. QED
      BY <1>1, <1>4, <2>4, <2>5, <2>6 DEF LineInv, Exists
  <1>8. CASE Update(c) \/ Revoke(c)
    <2> DEFINE k == req[c].key
    <2>1. /\ k \in Keys /\ Exists(k) /\ row'[k].root = row[k].root
          /\ row'[k].status = row[k].status \/ row'[k].status = "revoked"
          /\ \A j \in Keys \ {k} : row'[j] = row[j]
      BY <1>8, EditStep
    <2> HIDE DEF k
    <2>2. \A j \in Keys : /\ row'[j].root = row[j].root
                          /\ row'[j].status = "active" => row[j].status = "active"
                          /\ row'[j].status # "none" <=> row[j].status # "none"
      BY <2>1 DEF Exists
    <2>3. (\A i, j \in Keys :
             row[i].status = "active" /\ row[j].status = "active" /\ row[i].root = row[j].root
             => i = j)'
      BY <2>2 DEF LineInv
    <2>4. \A j \in Keys : row'[j].status # "none" => row'[row'[j].root].status # "none"
      BY <1>6, <2>2 DEF LineInv, Exists
    <2>5. \A j \in expired : row'[j].status # "none"
      BY <1>5, <2>2 DEF LineInv, Exists
    <2>6. QED
      BY <1>1, <1>4, <2>3, <2>4, <2>5 DEF LineInv, Exists
  <1>9. CASE Rotate(c)
    <2> DEFINE k == req[c].key
    <2>1. PICK l \in Keys :
             /\ k \in Keys /\ ~Exists(l) /\ k # l
             /\ row'[k].status = "revoked" /\ row'[k].root = row[k].root
             /\ row'[l].status = "active" /\ row'[l].root = row[k].root
             /\ \A j \in Keys \ {k, l} : row'[j] = row[j]
      BY <1>9, RotateStep
    <2>2. row[k].status = "active" /\ row[k].root \in Keys
      <3>1. row[k].status = "active"
        BY <1>9 DEF LineInv, Rotate
      <3>2. QED
        BY <1>6, <2>1, <3>1
    <2> HIDE DEF k
    <2>3. \A j \in Keys \ {k, l} : row'[j].status = "active" => row'[j].root # row[k].root
      BY <2>1, <2>2 DEF LineInv
    <2>4. (\A i, j \in Keys :
             row[i].status = "active" /\ row[j].status = "active" /\ row[i].root = row[j].root
             => i = j)'
      <3>1. ASSUME NEW i \in Keys, NEW j \in Keys, row'[i].status = "active",
                   row'[j].status = "active", row'[i].root = row'[j].root
            PROVE  i = j
        <4>1. i # k /\ j # k
          BY <2>1, <3>1
        <4>2. CASE i = l \/ j = l
          BY <2>1, <2>3, <3>1, <4>1, <4>2
        <4>3. CASE i # l /\ j # l
          BY <2>1, <3>1, <4>1, <4>3 DEF LineInv
        <4>4. QED
          BY <4>2, <4>3
      <3>2. QED
        BY <3>1
    <2>5. \A j \in Keys : row[j].status # "none" => row'[j].status # "none"
      BY <2>1
    <2>6. row[row[k].root].status # "none"
      BY <2>1, <2>2 DEF LineInv, Exists
    <2>7. \A j \in Keys : row'[j].status # "none" => row'[row'[j].root].status # "none"
      BY <1>6, <2>1, <2>2, <2>5, <2>6 DEF LineInv, Exists
    <2>8. \A j \in expired : row'[j].status # "none"
      BY <1>5, <2>5 DEF LineInv, Exists
    <2>9. QED
      BY <1>1, <1>4, <2>4, <2>7, <2>8 DEF LineInv, Exists
  <1>10. QED
    BY <1>7, <1>8, <1>9

LEMMA LineNext ==
  ASSUME TypeOK, Worked, LineInv, [Next]_vars, "rotate" \notin Races
  PROVE  LineInv'
  <1>1. ASSUME NEW c \in Clients, Abort(c)
        PROVE  LineInv'
    <2>1. UNCHANGED <<row, expired>>
      BY <1>1 DEF Abort
    <2>2. req'[c].op = "none" /\ \A d \in Clients \ {c} : req'[d] = req[d]
      BY <1>1, IdleOp DEF Abort, Done, TypeOK
    <2>3. QED
      BY <2>1, <2>2 DEF LineInv, Exists
  <1>2. ASSUME NEW k \in Keys, Expire(k)
        PROVE  LineInv'
    BY <1>2 DEF Expire, LineInv, Exists
  <1>3. CASE UNCHANGED vars
    BY <1>3 DEF vars, LineInv, Exists
  <1>4. QED
    BY <1>1, <1>2, <1>3, BeginLine, CommitLine DEF Next

LEMMA LineInit == Init => LineInv
  BY IdleOp, RowType DEF Init, LineInv, Exists

LEMMA LineCorrect ==
  ASSUME "rotate" \notin Races
  PROVE  Spec => [](TypeOK /\ Worked /\ LineInv)
  BY WorkedInit, WorkedNext, LineInit, LineNext, PTL DEF Spec

\* Rotation replaces a key and never adds one, for as many keys, updates,
\* revocations and rotations as there are, as long as a rotation runs alone
\* (routes/apikeys.py:193-250).
THEOREM OneKeyActive ==
  ASSUME "rotate" \notin Races
  PROVE  Spec => []OneActiveKey
  <1>1. LineInv => OneActiveKey
    BY DEF LineInv, OneActiveKey, Active
  <1>2. QED
    BY <1>1, LineCorrect, PTL

-----------------------------------------------------------------------------
(* A lineage is one credential *)

Live  == {f \in Keys : \E k \in Lineage(f) : Active(k)}
Ended == {f \in Keys : Lineage(f) # {} /\ \A k \in Lineage(f) : ~Active(k)}

LEMMA LifeInit == Init => Life!Init
  BY RowType DEF Init, Life!Init, Lineage, Exists

LEMMA LifeNext ==
  ASSUME TypeOK, Worked, LineInv, [Next]_vars
  PROVE  (\E f \in Keys : Life!Begin(f) \/ Life!End(f)) \/ UNCHANGED <<Live, Ended>>
  <1> DEFINE Is(f)  == \E k \in Keys : row[k].status # "none" /\ row[k].root = f
             Has(f) == \E k \in Keys : row[k].status = "active" /\ row[k].root = f
  <1>1. \A f : f \in Live <=> f \in Keys /\ Has(f) /\ f \notin expired
    BY DEF Live, Lineage, Exists, Active
  <1>2. \A f : f \in Ended <=> f \in Keys /\ Is(f) /\ ~(Has(f) /\ f \notin expired)
    BY DEF Ended, Lineage, Exists, Active
  <1>3. \A f : f \in Live' <=> /\ f \in Keys /\ f \notin expired'
                               /\ \E k \in Keys : row'[k].status = "active" /\ row'[k].root = f
    BY DEF Live, Lineage, Exists, Active
  <1>4. \A f : f \in Ended' <=>
           /\ f \in Keys
           /\ \E k \in Keys : row'[k].status # "none" /\ row'[k].root = f
           /\ \/ \A k \in Keys : ~(row'[k].status = "active" /\ row'[k].root = f)
              \/ f \in expired'
    BY DEF Ended, Lineage, Exists, Active
  <1>5. ASSUME NEW c \in Clients, Create(c)
        PROVE  \E f \in Keys : Life!Begin(f)
    <2>1. PICK k \in Keys : /\ ~Exists(k)
                            /\ row'[k].status = "active" /\ row'[k].root = k
                            /\ \A j \in Keys \ {k} : row'[j] = row[j]
      BY <1>5, CreateStep
    <2>2. UNCHANGED expired
      BY <1>5 DEF Create
    <2>3. k \notin expired /\ \A j \in Keys : row[j].status # "none" => row[j].root # k
      BY <2>1 DEF LineInv, Exists
    <2>4. row[k].status = "none"
      BY <2>1 DEF Exists
    <2>5. \A f \in Keys : Has(f) => f # k
      BY <2>3
    <2>6. \A f \in Keys \ {k} :
             (\E j \in Keys : row'[j].status = "active" /\ row'[j].root = f) <=> Has(f)
      BY <2>1, <2>4
    <2>7. \A f \in Keys \ {k} :
             (\E j \in Keys : row'[j].status # "none" /\ row'[j].root = f) <=> Is(f)
      BY <2>1, <2>4
    <2> HIDE DEF Is, Has
    <2>8. Live' = Live \cup {k}
      BY <1>1, <1>3, <2>1, <2>2, <2>3, <2>6
    <2>9. Ended' = Ended
      <3>1. k \notin Ended /\ k \notin Ended'
        BY <1>2, <1>4, <2>1, <2>2, <2>3 DEF Is
      <3>2. \A f \in Keys \ {k} : f \in Ended' <=> f \in Ended
        BY <1>2, <1>4, <2>2, <2>6, <2>7
      <3>3. QED
        BY <3>1, <3>2 DEF Ended
    <2>10. k \notin Live \cup Ended
      BY <1>1, <1>2, <2>3 DEF Is, Has
    <2>11. QED
      BY <2>8, <2>9, <2>10 DEF Life!Begin, Live, Ended
  <1>6. ASSUME UNCHANGED expired, NEW f \in Keys,
               \A j \in Keys : /\ row'[j].root = row[j].root
                               /\ row'[j].status # "none" <=> row[j].status # "none"
                               /\ row'[j].status = "active" => row[j].status = "active"
                               /\ row[j].status = "active" /\ row[j].root # f
                                     => row'[j].status = "active"
        PROVE  Life!End(f) \/ UNCHANGED <<Live, Ended>>
    <2>1. \A g \in Keys :
             (\E j \in Keys : row'[j].status # "none" /\ row'[j].root = g) <=> Is(g)
      BY <1>6
    <2>2. \A g \in Keys \ {f} :
             (\E j \in Keys : row'[j].status = "active" /\ row'[j].root = g) <=> Has(g)
      BY <1>6
    <2>3. (\E j \in Keys : row'[j].status = "active" /\ row'[j].root = f) => Has(f)
      BY <1>6
    <2>4. Has(f) => Is(f)
      OBVIOUS
    <2> HIDE DEF Is, Has
    <2>5. \A g \in Keys \ {f} : (g \in Live' <=> g \in Live) /\ (g \in Ended' <=> g \in Ended)
      BY <1>1, <1>2, <1>3, <1>4, <1>6, <2>1, <2>2
    <2>6. f \in Live' => f \in Live
      BY <1>1, <1>3, <1>6, <2>3
    <2>7. f \in Live \/ f \in Ended <=> f \in Live' \/ f \in Ended'
      BY <1>1, <1>2, <1>3, <1>4, <1>6, <2>1, <2>4
    <2>8. ~(f \in Live /\ f \in Ended) /\ ~(f \in Live' /\ f \in Ended')
      BY <1>1, <1>2, <1>3, <1>4
    <2>9. Live \subseteq Keys /\ Ended \subseteq Keys /\ Live' \subseteq Keys /\ Ended' \subseteq Keys
      BY DEF Live, Ended
    <2>10. CASE f \in Live /\ f \notin Live'
      <3>1. Live' = Live \ {f} /\ Ended' = Ended \cup {f}
        BY <2>5, <2>7, <2>8, <2>9, <2>10
      <3>2. QED
        BY <2>10, <3>1 DEF Life!End, Live, Ended
    <2>11. CASE f \notin Live \/ f \in Live'
      BY <2>5, <2>6, <2>7, <2>8, <2>9, <2>11
    <2>12. QED
      BY <2>10, <2>11
  <1>7. ASSUME NEW c \in Clients, Update(c) \/ Revoke(c)
        PROVE  (\E f \in Keys : Life!End(f)) \/ UNCHANGED <<Live, Ended>>
    <2> DEFINE k == req[c].key
    <2>1. /\ k \in Keys /\ Exists(k) /\ row'[k].root = row[k].root
          /\ row'[k].status = row[k].status \/ row'[k].status = "revoked"
          /\ \A j \in Keys \ {k} : row'[j] = row[j]
      BY <1>7, EditStep
    <2>2. row[k].root \in Keys /\ UNCHANGED expired
      BY <1>7, <2>1, RowType DEF Exists, TypeOK, Update, Revoke
    <2> HIDE DEF k
    <2>3. \A j \in Keys : /\ row'[j].root = row[j].root
                          /\ row'[j].status # "none" <=> row[j].status # "none"
                          /\ row'[j].status = "active" => row[j].status = "active"
                          /\ row[j].status = "active" /\ row[j].root # row[k].root
                                => row'[j].status = "active"
      BY <2>1 DEF Exists
    <2> HIDE DEF Is, Has
    <2>4. QED
      BY <1>6, <2>2, <2>3
  <1>8. ASSUME NEW c \in Clients, Rotate(c)
        PROVE  UNCHANGED <<Live, Ended>>
    <2> DEFINE k == req[c].key
    <2>1. PICK l \in Keys :
             /\ k \in Keys /\ ~Exists(l) /\ k # l
             /\ row'[k].status = "revoked" /\ row'[k].root = row[k].root
             /\ row'[l].status = "active" /\ row'[l].root = row[k].root
             /\ \A j \in Keys \ {k, l} : row'[j] = row[j]
      BY <1>8, RotateStep
    <2>2. row[k].status = "active" /\ UNCHANGED expired
      BY <1>8 DEF LineInv, Rotate
    <2>3. row[l].status = "none"
      BY <2>1 DEF Exists
    <2> HIDE DEF k
    <2>4. \A g \in Keys :
             (\E j \in Keys : row'[j].status # "none" /\ row'[j].root = g) <=> Is(g)
      BY <2>1, <2>2, <2>3
    <2>5. \A g \in Keys :
             (\E j \in Keys : row'[j].status = "active" /\ row'[j].root = g) <=> Has(g)
      BY <2>1, <2>2, <2>3
    <2> HIDE DEF Is, Has
    <2>6. \A g : (g \in Live' <=> g \in Live) /\ (g \in Ended' <=> g \in Ended)
      BY <1>1, <1>2, <1>3, <1>4, <2>2, <2>4, <2>5
    <2>7. Live' = Live /\ Ended' = Ended
      BY <2>6 DEF Live, Ended
    <2>8. QED
      BY <2>7
  <1>9. ASSUME NEW k \in Keys, Expire(k)
        PROVE  Life!End(k) \/ UNCHANGED <<Live, Ended>>
    <2>1. UNCHANGED row /\ expired' = expired \cup {k} /\ Is(k)
      BY <1>9 DEF Expire, Exists
    <2>2. \A g \in Keys :
             (\E j \in Keys : row'[j].status # "none" /\ row'[j].root = g) <=> Is(g)
      BY <2>1
    <2>3. \A g \in Keys :
             (\E j \in Keys : row'[j].status = "active" /\ row'[j].root = g) <=> Has(g)
      BY <2>1
    <2> HIDE DEF Is, Has
    <2>4. \A g \in Keys \ {k} : (g \in Live' <=> g \in Live) /\ (g \in Ended' <=> g \in Ended)
      BY <1>1, <1>2, <1>3, <1>4, <2>1, <2>2, <2>3
    <2>5. k \notin Live' /\ k \in Ended' /\ (k \in Live <=> k \notin Ended)
      BY <1>1, <1>2, <1>3, <1>4, <2>1, <2>2
    <2>6. Live \subseteq Keys /\ Ended \subseteq Keys /\ Live' \subseteq Keys /\ Ended' \subseteq Keys
      BY DEF Live, Ended
    <2>7. CASE k \in Live
      <3>1. Live' = Live \ {k} /\ Ended' = Ended \cup {k}
        BY <2>4, <2>5, <2>6
      <3>2. QED
        BY <2>7, <3>1 DEF Life!End, Live, Ended
    <2>8. CASE k \notin Live
      <3>1. Live' = Live /\ Ended' = Ended
        BY <2>4, <2>5, <2>6, <2>8
      <3>2. QED
        BY <3>1
    <2>9. QED
      BY <2>7, <2>8
  <1>10. CASE UNCHANGED <<row, expired>>
    BY <1>10 DEF Live, Ended, Lineage, Exists, Active
  <1>11. QED
    BY <1>5, <1>7, <1>8, <1>9, <1>10
       DEF Next, Begin, CreateStart, UpdateStart, RevokeStart, RotateStart, Start, Abort, vars

\* Four handlers on rows implement the credential of KeyLife: a lineage begins
\* once, and its end, by revocation or by expiry, is final; rotation is
\* invisible (routes/apikeys.py:195-245).  It takes a rotation that runs alone.
THEOREM LineageIsACredential ==
  ASSUME "rotate" \notin Races
  PROVE  Spec => ImplementsLife
  <1>1. TypeOK /\ Worked /\ LineInv /\ [Next]_vars => [Life!Next]_(Life!vars)
    BY LifeNext DEF Life!Next, Life!vars, Live, Ended
  <1>2. QED
    BY <1>1, LifeInit, LineCorrect, PTL DEF Spec, ImplementsLife, Life!Spec

=============================================================================
