-------------------------- MODULE SessionsProofs --------------------------
(***************************************************************************)
(* Theorems about the sessions of an account, for any number of requests   *)
(* in flight, of token pairs and of revocations.                           *)
(***************************************************************************)
EXTENDS Sessions, TLAPS

-----------------------------------------------------------------------------
(* Type correctness *)

LEMMA TypeInit == Init => TypeOK
  <1> SUFFICES ASSUME Init PROVE TypeOK
    OBVIOUS
  <1>1. pair \in [Pairs -> PairInfo]
    BY DEF Init, PairInfo, AllOps, MintingOps
  <1>2. row \in [Pairs -> RowState]
    BY DEF Init, RowState
  <1>3. req \in [Clients -> Request]
    BY DEF Init, Request
  <1>4. QED
    BY <1>1, <1>2, <1>3 DEF Init, TypeOK

LEMMA EnterType ==
  ASSUME TypeOK, NEW c \in Clients, NEW r \in Request, Enter(c, r)
  PROVE  TypeOK'
  BY DEF TypeOK, Enter

LEMMA BeginType ==
  ASSUME TypeOK, NEW c \in Clients, NEW op \in MintingOps \cup RevokingOps,
         NEW pc \in {"issue", "commit", "delete"},
         op \in MintingOps => pc # "delete",
         NEW mfa \in BOOLEAN,
         Begin(c, op, pc, mfa)
  PROVE  TypeOK'
  <1> DEFINE r == Snapshot(op, pc, NoPair, version, mfa, epoch)
  <1>1. r \in Request
    BY DEF TypeOK, Snapshot, Request, RequestOf
  <1>2. QED
    BY <1>1, EnterType DEF Begin

LEMMA DoneType ==
  ASSUME TypeOK, NEW c \in Clients, Done(c)
  PROVE  req' \in [Clients -> Request]
  BY DEF TypeOK, Done, Request

LEMMA DeleteRowsType ==
  ASSUME TypeOK, NEW S, DeleteRows(S)
  PROVE  row' \in [Pairs -> RowState]
  BY DEF TypeOK, DeleteRows, RowState

\* What a request holds at each point of its handler.
LEMMA RequestShape ==
  ASSUME TypeOK, NEW c \in Clients
  PROVE  /\ req[c] = IdleRequest <=> Idle(c)
         /\ ~Idle(c) => /\ req[c].op \in AllOps
                        /\ req[c].ver \in Nat
                        /\ req[c].mfa \in BOOLEAN
                        /\ req[c].epoch \in Nat
                        /\ req[c].tok \in Pairs \cup {NoPair}
         /\ req[c].op = "refresh" => req[c].tok \in Pairs
         /\ req[c].pc \in {"reuse", "expired", "check", "drop", "consume"}
               => req[c].op = "refresh"
  BY DEF TypeOK, Request, RequestOf, IdleRequest, Snapshot, Idle, AllOps, MintingOps, RevokingOps

LEMMA IssueType ==
  ASSUME TypeOK, NEW c \in Clients, Issue(c)
  PROVE  TypeOK'
  <1> DEFINE r == req[c]
             new(p) == [fam    |-> IF r.op = "refresh" THEN pair[r.tok].fam ELSE p,
                        parent |-> IF r.op = "refresh" THEN r.tok ELSE p,
                        ver    |-> r.ver, mfa |-> r.mfa, via |-> r.op,
                        born   |-> r.epoch]
  <1>1. PICK p \in Pairs :
           /\ row[p] = "none"
           /\ row' = [row EXCEPT ![p] = "fresh"]
           /\ pair' = [pair EXCEPT ![p] = new(p)]
    BY DEF Issue
  <1>2. new(p) \in PairInfo
    BY RequestShape DEF Issue, Idle, TypeOK, PairInfo
  <1>3. QED
    BY <1>1, <1>2, DoneType DEF Issue, TypeOK, RowState

LEMMA MintType ==
  ASSUME TypeOK, NEW c \in Clients, Mint(c)
  PROVE  TypeOK'
  <1>1. CASE LoginStart(c)
    BY <1>1, BeginType DEF LoginStart, MintingOps
  <1>2. CASE TravelLoginStart(c)
    BY <1>2, BeginType DEF TravelLoginStart, MintingOps
  <1>3. CASE OAuthStart(c)
    BY <1>3, BeginType DEF OAuthStart, MintingOps
  <1>4. ASSUME NEW p \in Pairs, TotpStart(c, p)
        PROVE  TypeOK'
    BY <1>4, BeginType DEF TotpStart, MintingOps
  <1>5. CASE Issue(c)
    BY <1>5, IssueType
  <1>6. QED
    BY <1>1, <1>2, <1>3, <1>4, <1>5 DEF Mint

LEMMA RefreshType ==
  ASSUME TypeOK, NEW c \in Clients, Refresh(c)
  PROVE  TypeOK'
  <1>1. ASSUME NEW p \in Pairs, RefreshStart(c, p)
        PROVE  TypeOK'
    <2> DEFINE pc == CASE row[p] = "fresh"    -> "check"
                       [] row[p] = "expired"  -> "expired"
                       [] row[p] = "consumed" -> "reuse"
               r  == Snapshot("refresh", pc, p, 0, FALSE, 0)
    <2>1. r \in Request
      BY <1>1 DEF RefreshStart, Snapshot, Request, RequestOf
    <2>2. QED
      BY <1>1, <2>1, EnterType DEF RefreshStart
  <1>2. CASE RefreshReuse(c)
    <2>1. burned' \subseteq Pairs
      BY <1>2, RequestShape DEF RefreshReuse, TypeOK, PairInfo
    <2>2. QED
      BY <1>2, <2>1, DoneType, DeleteRowsType DEF RefreshReuse, TypeOK
  <1>3. CASE RefreshExpired(c)
    BY <1>3, DoneType, DeleteRowsType DEF RefreshExpired, TypeOK
  <1>4. CASE RefreshCheck(c)
    <2>1. req[c] \in RequestOf({"refresh"}, {"check"}, Pairs)
      BY <1>4 DEF RefreshCheck, TypeOK, Request, RequestOf, IdleRequest, Snapshot
    <2>2. pair[req[c].tok].mfa \in BOOLEAN
      BY <2>1 DEF TypeOK, PairInfo, RequestOf
    <2>3. req' \in [Clients -> Request]
      BY <1>4, <2>1, <2>2 DEF RefreshCheck, TypeOK, Goto, Snapshot, Request, RequestOf
    <2>4. QED
      BY <1>4, <2>3 DEF RefreshCheck, TypeOK
  <1>5. CASE RefreshDrop(c)
    BY <1>5, DoneType, DeleteRowsType DEF RefreshDrop, TypeOK
  <1>6. CASE RefreshConsume(c)
    <2>1. req[c] \in RequestOf({"refresh"}, {"consume"}, Pairs)
      BY <1>6 DEF RefreshConsume, TypeOK, Request, RequestOf, IdleRequest, Snapshot
    <2>2. CASE row[req[c].tok] = "deleted"
      BY <1>6, <2>2, DoneType DEF RefreshConsume, TypeOK
    <2>3. CASE row[req[c].tok] # "deleted"
      <3>1. req' \in [Clients -> Request]
        BY <1>6, <2>1, <2>3 DEF RefreshConsume, TypeOK, Goto, Request, RequestOf
      <3>2. QED
        BY <1>6, <2>3, <3>1 DEF RefreshConsume, TypeOK, RowState
    <2>4. QED
      BY <2>2, <2>3
  <1>7. QED
    BY <1>1, <1>2, <1>3, <1>4, <1>5, <1>6 DEF Refresh

LEMMA RevokeType ==
  ASSUME TypeOK, NEW c \in Clients, Revoke(c)
  PROVE  TypeOK'
  <1>1. ASSUME NEW p \in Pairs, LogoutStart(c, p)
        PROVE  TypeOK'
    BY <1>1, BeginType DEF LogoutStart, MintingOps, RevokingOps
  <1>2. ASSUME NEW p \in Pairs, PasswordStart(c, p)
        PROVE  TypeOK'
    BY <1>2, BeginType DEF PasswordStart, MintingOps, RevokingOps
  <1>3. CASE LogoutDelete(c)
    <2>1. req[c] \in RequestOf(RevokingOps, {"delete"}, {NoPair})
      BY <1>3 DEF LogoutDelete, TypeOK, Request, RequestOf, IdleRequest, Snapshot
    <2>2. req' \in [Clients -> Request]
      BY <1>3, <2>1 DEF LogoutDelete, TypeOK, Goto, Request, RequestOf
    <2>3. QED
      BY <1>3, <2>2, DeleteRowsType DEF LogoutDelete, TypeOK
  <1>4. CASE LogoutBump(c)
    BY <1>4, DoneType, RequestShape DEF LogoutBump, Idle, TypeOK
  <1>5. CASE ResetStart(c)
    BY <1>5, BeginType DEF ResetStart, MintingOps, RevokingOps
  <1>6. CASE PasswordCommit(c)
    BY <1>6, DoneType, DeleteRowsType, RequestShape DEF PasswordCommit, Idle, TypeOK
  <1>7. CASE AdminFreezeStart(c)
    BY <1>7, BeginType DEF AdminFreezeStart, MintingOps, RevokingOps
  <1>8. CASE RiskFreezeStart(c)
    BY <1>8, BeginType DEF RiskFreezeStart, MintingOps, RevokingOps
  <1>9. CASE FreezeCommit(c)
    <2>1. req[c] \in RequestOf(MintingOps \cup RevokingOps, {"commit"},
                               {NoPair})
      BY <1>9 DEF FreezeCommit, TypeOK, Request, RequestOf, IdleRequest, Snapshot
    <2>2. req' \in [Clients -> Request]
      <3>1. CASE req[c].op = "travel"
        <4> DEFINE r == Snapshot("travel", "issue", NoPair, req[c].ver + 1,
                                 FALSE, epoch + 1)
        <4>1. r \in Request
          BY <2>1 DEF TypeOK, Snapshot, Request, RequestOf, MintingOps
        <4>2. req' = [req EXCEPT ![c] = r]
          BY <1>9, <3>1 DEF FreezeCommit
        <4>3. QED
          BY <4>1, <4>2 DEF TypeOK
      <3>2. CASE req[c].op # "travel"
        BY <1>9, <3>2, DoneType DEF FreezeCommit
      <3>3. QED
        BY <3>1, <3>2
    <2>3. QED
      BY <1>9, <2>1, <2>2, DeleteRowsType DEF FreezeCommit, TypeOK, RequestOf
  <1>10. QED
    BY <1>1, <1>2, <1>3, <1>4, <1>5, <1>6, <1>7, <1>8, <1>9 DEF Revoke

LEMMA TypeStep == TypeOK /\ [Next]_vars => TypeOK'
  <1> SUFFICES ASSUME TypeOK, [Next]_vars PROVE TypeOK'
    OBVIOUS
  <1>1. ASSUME NEW c \in Clients, Mint(c) \/ Refresh(c) \/ Revoke(c)
        PROVE  TypeOK'
    BY <1>1, MintType, RefreshType, RevokeType
  <1>2. ASSUME NEW c \in Clients, Abort(c)
        PROVE  TypeOK'
    BY <1>2, DoneType DEF Abort, TypeOK
  <1>3. ASSUME NEW p \in Pairs, EnableMfa(p) \/ DisableMfa(p) \/ ExpireRow(p)
        PROVE  TypeOK'
    BY <1>3 DEF EnableMfa, DisableMfa, ExpireRow, TypeOK, RowState
  <1>4. CASE Thaw
    BY <1>4 DEF Thaw, TypeOK
  <1>5. CASE UNCHANGED vars
    BY <1>5 DEF vars, TypeOK
  <1>6. QED
    BY <1>1, <1>2, <1>3, <1>4, <1>5 DEF Next

\* Whatever the interleaving, every row, claim and snapshot stays well formed.
THEOREM TypeCorrect == Spec => []TypeOK
  BY TypeInit, TypeStep, PTL DEF Spec

-----------------------------------------------------------------------------
(* Pairs: minted once, never changed *)

LEMMA DeleteRowsIssued ==
  ASSUME TypeOK, NEW S, DeleteRows(S)
  PROVE  Issued' = Issued
  BY DEF TypeOK, DeleteRows, Issued

LEMMA BeginFrame ==
  ASSUME NEW c \in Clients, NEW op, NEW pc, NEW mfa, Begin(c, op, pc, mfa)
  PROVE  UNCHANGED <<version, frozen, mfaEnabled, pair, row, epoch, burned>>
  BY DEF Begin, Enter

Rotating(c) == req[c].op = "refresh"

TokensIssued == \A c \in Clients : Rotating(c) => req[c].tok \in Issued

\* A step mints at most one pair, and only Issue does.
LEMMA MintsOnlyByIssue ==
  ASSUME TypeOK, TokensIssued, [Next]_vars, \A c \in Clients : ~Issue(c)
  PROVE  pair' = pair /\ Issued' = Issued
  <1>1. ASSUME NEW c \in Clients, Mint(c)
        PROVE  pair' = pair /\ row' = row
    BY <1>1, BeginFrame
    DEF Mint, LoginStart, TravelLoginStart, OAuthStart, TotpStart
  <1>2. ASSUME NEW c \in Clients, Refresh(c)
        PROVE  pair' = pair /\ Issued' = Issued
    <2>1. CASE RefreshConsume(c)
      BY <2>1, RequestShape
      DEF RefreshConsume, Rotating, TokensIssued, Issued, TypeOK
    <2>2. ASSUME NEW p \in Pairs, RefreshStart(c, p)
          PROVE  pair' = pair /\ row' = row
      BY <2>2 DEF RefreshStart, Enter
    <2>3. CASE RefreshReuse(c) \/ RefreshExpired(c) \/ RefreshDrop(c)
      BY <2>3, DeleteRowsIssued DEF RefreshReuse, RefreshExpired, RefreshDrop
    <2>4. CASE RefreshCheck(c)
      BY <2>4 DEF RefreshCheck, Issued
    <2>5. QED
      BY <1>2, <2>1, <2>2, <2>3, <2>4 DEF Refresh, Issued
  <1>3. ASSUME NEW c \in Clients, Revoke(c)
        PROVE  pair' = pair /\ Issued' = Issued
    <2>1. ASSUME NEW p \in Pairs, LogoutStart(c, p) \/ PasswordStart(c, p)
          PROVE  pair' = pair /\ row' = row
      BY <2>1, BeginFrame DEF LogoutStart, PasswordStart
    <2>2. CASE ResetStart(c) \/ AdminFreezeStart(c) \/ RiskFreezeStart(c)
      BY <2>2, BeginFrame DEF ResetStart, AdminFreezeStart, RiskFreezeStart, Issued
    <2>3. CASE LogoutDelete(c) \/ PasswordCommit(c) \/ FreezeCommit(c)
      BY <2>3, DeleteRowsIssued DEF LogoutDelete, PasswordCommit, FreezeCommit
    <2>4. CASE LogoutBump(c)
      BY <2>4 DEF LogoutBump, Issued
    <2>5. QED
      BY <1>3, <2>1, <2>2, <2>3, <2>4 DEF Revoke, Issued
  <1>4. ASSUME NEW c \in Clients, Abort(c)
        PROVE  pair' = pair /\ row' = row
    BY <1>4 DEF Abort
  <1>5. ASSUME NEW p \in Pairs, EnableMfa(p) \/ DisableMfa(p) \/ ExpireRow(p)
        PROVE  pair' = pair /\ Issued' = Issued
    BY <1>5 DEF EnableMfa, DisableMfa, ExpireRow, Issued, TypeOK
  <1>6. CASE Thaw \/ UNCHANGED vars
    BY <1>6 DEF Thaw, vars, Issued
  <1>7. QED
    BY <1>1, <1>2, <1>3, <1>4, <1>5, <1>6 DEF Next, Issued

\* The pair create_token_pair mints for request r under the identity p.
Minted(r, p) ==
    [fam    |-> IF r.op = "refresh" THEN pair[r.tok].fam ELSE p,
     parent |-> IF r.op = "refresh" THEN r.tok ELSE p,
     ver    |-> r.ver, mfa |-> r.mfa, via |-> r.op, born |-> r.epoch]

LEMMA IssueEffect ==
  ASSUME TypeOK, NEW c \in Clients, Issue(c)
  PROVE  \E p \in Pairs \ Issued :
            /\ Issued' = Issued \cup {p}
            /\ pair' = [pair EXCEPT ![p] = Minted(req[c], p)]
            /\ row' = [row EXCEPT ![p] = "fresh"]
            /\ req' = [req EXCEPT ![c] = IdleRequest]
            /\ UNCHANGED <<version, frozen, mfaEnabled, epoch, burned>>
  <1>1. PICK p \in Pairs :
           /\ row[p] = "none"
           /\ row' = [row EXCEPT ![p] = "fresh"]
           /\ pair' = [pair EXCEPT ![p] = Minted(req[c], p)]
    BY DEF Issue, Minted
  <1>2. p \in Pairs \ Issued /\ Issued' = Issued \cup {p}
    BY <1>1 DEF Issued, TypeOK
  <1>3. QED
    BY <1>1, <1>2 DEF Issue, Done

-----------------------------------------------------------------------------
(* A rotation carries its family's version and MFA state on *)

\* A rotation past the version check holds the claims of its own token.
SnapshotFaithful ==
    \A c \in Clients :
        (Rotating(c) /\ req[c].pc \in {"consume", "issue"}) =>
            /\ req[c].ver = pair[req[c].tok].ver
            /\ req[c].mfa = pair[req[c].tok].mfa

FamilyInv == FamilyUniform /\ TokensIssued /\ SnapshotFaithful

\* A request moves only itself.
LEMMA OwnRequest ==
  ASSUME TypeOK, NEW c \in Clients, Mint(c) \/ Refresh(c) \/ Revoke(c) \/ Abort(c),
         NEW d \in Clients, d # c
  PROVE  req'[d] = req[d]
  <1>1. CASE Mint(c)
    BY <1>1
    DEF TypeOK, Mint, LoginStart, TravelLoginStart, OAuthStart, TotpStart, Issue,
        Begin, Enter, Done
  <1>2. CASE Refresh(c)
    BY <1>2
    DEF TypeOK, Refresh, RefreshStart, RefreshReuse, RefreshExpired, RefreshCheck,
        RefreshDrop, RefreshConsume, Enter, Done, Goto
  <1>3. CASE Revoke(c)
    BY <1>3
    DEF TypeOK, Revoke, LogoutStart, PasswordStart, LogoutDelete, LogoutBump,
        ResetStart, PasswordCommit, AdminFreezeStart, RiskFreezeStart, FreezeCommit,
        Begin, Enter, Done, Goto
  <1>4. CASE Abort(c)
    BY <1>4 DEF TypeOK, Abort, Done
  <1>5. QED
    BY <1>1, <1>2, <1>3, <1>4

\* How a step leaves a request that is rotating after it.
RotationMoves(d) ==
    \/ req'[d] = req[d]
    \/ /\ req'[d].tok \in Issued
       /\ req'[d].pc \notin {"consume", "issue"}
       /\ RefreshStart(d, req'[d].tok)
    \/ /\ Rotating(d)
       /\ req'[d].tok = req[d].tok
       /\ req'[d].pc = "drop"
    \/ /\ Rotating(d)
       /\ req'[d] = Snapshot("refresh", "consume", req[d].tok, version,
                             pair[req[d].tok].mfa, epoch)
       /\ pair[req[d].tok].ver = version
       /\ RefreshCheck(d)
    \/ /\ Rotating(d)
       /\ req[d].pc = "consume"
       /\ req'[d] = Snapshot("refresh", "issue", req[d].tok, req[d].ver,
                             req[d].mfa, req[d].epoch)
       /\ RefreshConsume(d)

LEMMA RotationStep ==
  ASSUME TypeOK, [Next]_vars, NEW d \in Clients, Rotating(d)'
  PROVE  RotationMoves(d)
  <1>1. CASE req'[d] = req[d]
    BY <1>1 DEF RotationMoves
  <1>2. CASE Mint(d)
    BY <1>2, Rotating(d)'
    DEF TypeOK, Mint, LoginStart, TravelLoginStart, OAuthStart, TotpStart, Issue,
        Begin, Enter, Done, Rotating, Snapshot, IdleRequest
  <1>3. CASE Revoke(d)
    <2>1. CASE LogoutDelete(d)
      <3>1. req[d] \in RequestOf(RevokingOps, {"delete"}, {NoPair})
        BY <2>1 DEF LogoutDelete, TypeOK, Request, RequestOf, IdleRequest, Snapshot
      <3>2. req'[d].op = req[d].op
        BY <2>1, <3>1 DEF LogoutDelete, Goto, TypeOK, RequestOf
      <3>3. QED
        BY <3>1, <3>2, Rotating(d)' DEF Rotating, RequestOf, RevokingOps
    <2>2. CASE FreezeCommit(d) \/ PasswordCommit(d) \/ LogoutBump(d)
      BY <2>2, Rotating(d)'
      DEF TypeOK, FreezeCommit, PasswordCommit, LogoutBump, Done, Rotating,
          Snapshot, IdleRequest
    <2>3. QED
      BY <1>3, <2>1, <2>2, Rotating(d)'
      DEF TypeOK, Revoke, LogoutStart, PasswordStart, ResetStart, AdminFreezeStart,
          RiskFreezeStart, Begin, Enter, Rotating, Snapshot
  <1>4. CASE Refresh(d)
    <2>1. ASSUME NEW p \in Pairs, RefreshStart(d, p)
          PROVE  RotationMoves(d)
      <3>1. PICK pc \in {"check", "expired", "reuse"} :
               req' = [req EXCEPT ![d] = Snapshot("refresh", pc, p, 0, FALSE, 0)]
        BY <2>1 DEF RefreshStart, Enter
      <3>2. req'[d].tok = p /\ req'[d].pc = pc
        BY <3>1 DEF TypeOK, Snapshot
      <3>3. p \in Issued
        BY <2>1 DEF RefreshStart, Issued
      <3>4. QED
        BY <2>1, <3>2, <3>3 DEF RotationMoves
    <2>2. CASE RefreshReuse(d) \/ RefreshExpired(d) \/ RefreshDrop(d)
      BY <2>2, Rotating(d)'
      DEF TypeOK, RefreshReuse, RefreshExpired, RefreshDrop, Done, Rotating,
          IdleRequest, Snapshot
    <2>3. CASE RefreshCheck(d)
      <3>1. Rotating(d)
        BY <2>3, RequestShape DEF RefreshCheck, Rotating
      <3>2. CASE pair[req[d].tok].ver = version
        BY <2>3, <3>1, <3>2 DEF RefreshCheck, RotationMoves, TypeOK
      <3>3. CASE pair[req[d].tok].ver # version
        <4>1. req' = [req EXCEPT ![d].pc = "drop"]
          BY <2>3, <3>3 DEF RefreshCheck, Goto
        <4>2. req'[d].tok = req[d].tok /\ req'[d].pc = "drop"
          BY <4>1, <3>1 DEF TypeOK, Request, RequestOf, IdleRequest, Snapshot
        <4>3. QED
          BY <3>1, <4>2 DEF RotationMoves
      <3>4. QED
        BY <3>2, <3>3
    <2>4. CASE RefreshConsume(d)
      <3>1. Rotating(d)
        BY <2>4, RequestShape DEF RefreshConsume, Rotating
      <3>2. CASE row[req[d].tok] = "deleted"
        BY <2>4, <3>2, Rotating(d)'
        DEF RefreshConsume, Done, Rotating, IdleRequest, Snapshot, TypeOK
      <3>3. CASE row[req[d].tok] # "deleted"
        <4>1. req[d] \in RequestOf({"refresh"}, {"consume"}, Pairs)
          BY <2>4 DEF RefreshConsume, TypeOK, Request, RequestOf, IdleRequest, Snapshot
        <4>2. req'[d] = [req[d] EXCEPT !.pc = "issue"]
          BY <2>4, <3>3 DEF RefreshConsume, Goto, TypeOK
        <4>3. req'[d] = Snapshot("refresh", "issue", req[d].tok, req[d].ver,
                                 req[d].mfa, req[d].epoch)
          BY <4>1, <4>2 DEF RequestOf, Snapshot
        <4>4. QED
          BY <2>4, <3>1, <4>3 DEF RefreshConsume, RotationMoves
      <3>4. QED
        BY <3>2, <3>3
    <2>5. QED
      BY <1>4, <2>1, <2>2, <2>3, <2>4 DEF Refresh
  <1>5. CASE Abort(d)
    BY <1>5, Rotating(d)'
    DEF TypeOK, Abort, Done, Rotating, IdleRequest, Snapshot
  <1>6. ASSUME NEW c \in Clients, c # d, Mint(c) \/ Refresh(c) \/ Revoke(c) \/ Abort(c)
        PROVE  RotationMoves(d)
    BY <1>6, OwnRequest, <1>1
  <1>7. CASE UNCHANGED req
    BY <1>7, <1>1
  <1>8. QED
    BY <1>2, <1>3, <1>4, <1>5, <1>6, <1>7
    DEF Next, vars, EnableMfa, DisableMfa, ExpireRow, Thaw

LEMMA InitEmpty ==
  ASSUME Init
  PROVE  /\ Issued = {}
         /\ \A c \in Clients : req[c].op = "none" /\ req[c].pc = "idle"
  BY DEF Init, Issued, IdleRequest, Snapshot

LEMMA FamilyInit == Init => FamilyInv
  BY InitEmpty DEF FamilyInv, FamilyUniform, TokensIssued, SnapshotFaithful, Rotating

LEMMA PairsStable ==
  ASSUME TypeOK, FamilyInv, [Next]_vars
  PROVE  \A p \in Issued : p \in Issued' /\ pair'[p] = pair[p]
  <1>1. CASE \A c \in Clients : ~Issue(c)
    BY <1>1, MintsOnlyByIssue DEF FamilyInv
  <1>2. ASSUME NEW c \in Clients, Issue(c)
        PROVE  \A p \in Issued : p \in Issued' /\ pair'[p] = pair[p]
    <2>1. PICK p \in Pairs \ Issued :
             /\ Issued' = Issued \cup {p}
             /\ pair' = [pair EXCEPT ![p] = Minted(req[c], p)]
      BY <1>2, IssueEffect
    <2>2. QED
      BY <2>1 DEF TypeOK, Issued
  <1>3. QED
    BY <1>1, <1>2

LEMMA FamilyStep ==
  ASSUME TypeOK, FamilyInv, [Next]_vars
  PROVE  FamilyInv'
  <1> USE DEF FamilyInv
  <1>1. \A p \in Issued : p \in Issued' /\ pair'[p] = pair[p]
    BY PairsStable
  <1>2. FamilyUniform'
    <2>1. CASE \A c \in Clients : ~Issue(c)
      BY <2>1, MintsOnlyByIssue DEF FamilyUniform
    <2>2. ASSUME NEW c \in Clients, Issue(c)
          PROVE  FamilyUniform'
      <3>1. PICK p \in Pairs \ Issued :
               /\ Issued' = Issued \cup {p}
               /\ pair' = [pair EXCEPT ![p] = Minted(req[c], p)]
        BY <2>2, IssueEffect
      <3>2. pair'[p] = Minted(req[c], p)
        BY <3>1 DEF TypeOK
      <3>3. ASSUME NEW q \in Issued
            PROVE  /\ pair'[q].fam \in Issued'
                   /\ pair'[q].ver = pair'[pair'[q].fam].ver
                   /\ pair'[q].mfa = pair'[pair'[q].fam].mfa
        BY <1>1, <3>3 DEF FamilyUniform
      <3>4. /\ pair'[p].fam \in Issued'
            /\ pair'[p].ver = pair'[pair'[p].fam].ver
            /\ pair'[p].mfa = pair'[pair'[p].fam].mfa
        <4>1. CASE Rotating(c)
          <5> DEFINE t == req[c].tok
                     f == pair[t].fam
          <5>1. t \in Issued /\ req[c].ver = pair[t].ver /\ req[c].mfa = pair[t].mfa
            BY <2>2, <4>1 DEF Issue, TokensIssued, SnapshotFaithful
          <5>2. f \in Issued /\ pair[t].ver = pair[f].ver /\ pair[t].mfa = pair[f].mfa
            BY <5>1 DEF FamilyUniform
          <5>3. pair'[p].fam = f /\ pair'[p].ver = req[c].ver /\ pair'[p].mfa = req[c].mfa
            BY <3>2, <4>1 DEF Minted, Rotating
          <5>4. QED
            BY <1>1, <5>1, <5>2, <5>3
        <4>2. CASE ~Rotating(c)
          BY <3>1, <3>2, <4>2 DEF Minted, Rotating
        <4>3. QED
          BY <4>1, <4>2
      <3>5. QED
        BY <3>1, <3>3, <3>4 DEF FamilyUniform
    <2>3. QED
      BY <2>1, <2>2
  <1>3. TokensIssued'
    <2> SUFFICES ASSUME NEW d \in Clients, Rotating(d)'
                 PROVE  req'[d].tok \in Issued'
      BY DEF TokensIssued
    <2>1. CASE req'[d] = req[d]
      BY <1>1, <2>1 DEF TokensIssued, Rotating
    <2>2. CASE req'[d] # req[d]
      <3>1. req'[d].tok \in Issued
        <4>1. RotationMoves(d)
          BY RotationStep
        <4>2. req'[d].tok \in Issued \/ (Rotating(d) /\ req'[d].tok = req[d].tok)
          BY <2>2, <4>1 DEF RotationMoves, Snapshot
        <4>3. QED
          BY <4>2 DEF TokensIssued
      <3>2. QED
        BY <1>1, <3>1
    <2>3. QED
      BY <2>1, <2>2
  <1>4. SnapshotFaithful'
    <2> SUFFICES ASSUME NEW d \in Clients, Rotating(d)',
                        req'[d].pc \in {"consume", "issue"}
                 PROVE  /\ req'[d].ver = pair'[req'[d].tok].ver
                        /\ req'[d].mfa = pair'[req'[d].tok].mfa
      BY DEF SnapshotFaithful
    <2>1. CASE req'[d] = req[d]
      BY <1>1, <2>1 DEF SnapshotFaithful, TokensIssued, Rotating
    <2>2. CASE /\ Rotating(d)
               /\ req'[d] = Snapshot("refresh", "consume", req[d].tok, version,
                                     pair[req[d].tok].mfa, epoch)
               /\ pair[req[d].tok].ver = version
      BY <1>1, <2>2 DEF TokensIssued, Snapshot
    <2>3. CASE /\ Rotating(d)
               /\ req[d].pc = "consume"
               /\ req'[d] = Snapshot("refresh", "issue", req[d].tok, req[d].ver,
                                     req[d].mfa, req[d].epoch)
      BY <1>1, <2>3 DEF TokensIssued, SnapshotFaithful, Snapshot
    <2>4. QED
      BY <2>1, <2>2, <2>3, RotationStep DEF RotationMoves
  <1>5. QED
    BY <1>2, <1>3, <1>4

\* For any number of concurrent rotations, revocations, logins and crashes,
\* with every race allowed: a family never changes version or MFA state.
THEOREM FamilyIsUniform == Spec => []FamilyUniform
  <1>1. Init => TypeOK /\ FamilyInv
    BY TypeInit, FamilyInit
  <1>2. TypeOK /\ FamilyInv /\ [Next]_vars => (TypeOK /\ FamilyInv)'
    BY TypeStep, FamilyStep
  <1>3. FamilyInv => FamilyUniform
    BY DEF FamilyInv
  <1>4. QED
    BY <1>1, <1>2, <1>3, PTL DEF Spec

-----------------------------------------------------------------------------
(* Revocations that do not overlap *)

\* The request works from a snapshot of the User row.
Holds(c) ==
    /\ ~Idle(c)
    /\ Rotating(c) => req[c].pc \in {"consume", "issue"}

Fresh(r) == r.ver = version /\ r.epoch = epoch

\* How a step leaves a request that holds a snapshot after it.
SnapshotMoves(d) ==
    \/ req'[d] = req[d]
    \/ /\ Fresh(req'[d])
       /\ Revoking(d)' => MayRevoke(d)
       /\ UNCHANGED <<version, epoch>>
    \/ /\ Holds(d)
       /\ req'[d].op = req[d].op
       /\ req'[d].ver = req[d].ver
       /\ req'[d].epoch = req[d].epoch
       /\ req[d].pc # "issue"
       /\ UNCHANGED <<version, epoch>>
    \/ /\ Holds(d) /\ Revoking(d) /\ req[d].pc # "issue"
       /\ req'[d].op = req[d].op
       /\ req'[d].ver = req[d].ver + 1
       /\ req'[d].epoch = epoch + 1
       /\ req'[d].pc = "issue"
       /\ version' = req[d].ver + 1 /\ epoch' = epoch + 1

LEMMA BeginMoves ==
  ASSUME TypeOK, NEW d \in Clients, NEW op, NEW pc, NEW mfa,
         Begin(d, op, pc, mfa),
         op \in RevokingOps => MayRevoke(d)
  PROVE  SnapshotMoves(d)
  <1>1. req'[d] = Snapshot(op, pc, NoPair, version, mfa, epoch)
    BY DEF Begin, Enter, TypeOK
  <1>2. UNCHANGED <<version, epoch>>
    BY DEF Begin, Enter
  <1>3. QED
    BY <1>1, <1>2 DEF SnapshotMoves, Snapshot, Fresh, Revoking

LEMMA SnapshotStep ==
  ASSUME TypeOK, [Next]_vars, NEW d \in Clients, Holds(d)'
  PROVE  SnapshotMoves(d)
  <1>1. CASE req'[d] = req[d]
    BY <1>1 DEF SnapshotMoves
  <1>2. CASE Done(d)
    BY <1>2, Holds(d)' DEF Done, Holds, Idle, IdleRequest, Snapshot, TypeOK
  <1>3. CASE Mint(d)
    <2>1. CASE LoginStart(d) \/ TravelLoginStart(d) \/ OAuthStart(d)
      BY <2>1, BeginMoves DEF LoginStart, TravelLoginStart, OAuthStart, RevokingOps
    <2>2. ASSUME NEW p \in Pairs, TotpStart(d, p)
          PROVE  SnapshotMoves(d)
      BY <2>2, BeginMoves DEF TotpStart, RevokingOps
    <2>3. CASE Issue(d)
      BY <2>3, <1>2 DEF Issue
    <2>4. QED
      BY <1>3, <2>1, <2>2, <2>3 DEF Mint
  <1>4. CASE Rotating(d)'
    <2>1. ASSUME Rotating(d), req'[d] = Snapshot("refresh", "consume", req[d].tok,
                                       version, pair[req[d].tok].mfa, epoch),
                 RefreshCheck(d)
          PROVE  SnapshotMoves(d)
      BY <2>1 DEF RefreshCheck, SnapshotMoves, Snapshot, Fresh, Revoking, RevokingOps
    <2>2. ASSUME Rotating(d), req[d].pc = "consume",
                 req'[d] = Snapshot("refresh", "issue", req[d].tok, req[d].ver,
                                    req[d].mfa, req[d].epoch),
                 RefreshConsume(d)
          PROVE  SnapshotMoves(d)
      BY <2>2 DEF RefreshConsume, SnapshotMoves, Snapshot, Rotating, Holds, Idle
    <2>3. req'[d].pc \in {"consume", "issue"}
      BY <1>4, Holds(d)' DEF Holds
    <2>4. QED
      BY <1>1, <1>4, <2>1, <2>2, <2>3, RotationStep DEF RotationMoves
  <1>5. CASE Refresh(d) /\ ~Rotating(d)'
    <2>1. ASSUME NEW p \in Pairs, RefreshStart(d, p)
          PROVE  FALSE
      BY <1>5, <2>1 DEF RefreshStart, Enter, Snapshot, Rotating, TypeOK
    <2>2. CASE RefreshCheck(d) \/ RefreshConsume(d)
      <3>1. req[d] \in RequestOf({"refresh"}, {"check", "consume"}, Pairs)
        BY <2>2 DEF RefreshCheck, RefreshConsume, TypeOK, Request, RequestOf,
                    IdleRequest, Snapshot
      <3>2. QED
        BY <1>2, <1>5, <2>2, <3>1
        DEF RefreshCheck, RefreshConsume, Goto, Snapshot, Rotating, RequestOf, TypeOK
    <2>3. QED
      BY <1>2, <1>5, <2>1, <2>2
      DEF Refresh, RefreshReuse, RefreshExpired, RefreshDrop
  <1>6. CASE Revoke(d)
    <2>1. ASSUME NEW p \in Pairs, LogoutStart(d, p) \/ PasswordStart(d, p)
          PROVE  SnapshotMoves(d)
      BY <2>1, BeginMoves DEF LogoutStart, PasswordStart
    <2>2. CASE ResetStart(d) \/ AdminFreezeStart(d) \/ RiskFreezeStart(d)
      BY <2>2, BeginMoves DEF ResetStart, AdminFreezeStart, RiskFreezeStart
    <2>3. CASE LogoutDelete(d)
      <3>1. req[d] \in RequestOf(RevokingOps, {"delete"}, {NoPair})
        BY <2>3 DEF LogoutDelete, TypeOK, Request, RequestOf, IdleRequest, Snapshot
      <3>2. /\ req'[d].op = req[d].op /\ req'[d].ver = req[d].ver
            /\ req'[d].epoch = req[d].epoch
        BY <2>3, <3>1 DEF LogoutDelete, Goto, TypeOK, RequestOf
      <3>3. Holds(d) /\ req[d].pc # "issue"
        BY <3>1 DEF Holds, Idle, Rotating, RequestOf, RevokingOps
      <3>4. QED
        BY <2>3, <3>2, <3>3 DEF LogoutDelete, SnapshotMoves
    <2>4. CASE LogoutBump(d) \/ PasswordCommit(d)
      BY <1>2, <2>4 DEF LogoutBump, PasswordCommit
    <2>5. CASE FreezeCommit(d)
      <3>1. CASE req[d].op = "travel"
        <4>1. req'[d] = Snapshot("travel", "issue", NoPair, req[d].ver + 1, FALSE,
                                 epoch + 1)
          BY <2>5, <3>1 DEF FreezeCommit, TypeOK
        <4>2. Holds(d) /\ Revoking(d) /\ req[d].pc # "issue"
          BY <2>5, <3>1 DEF FreezeCommit, Holds, Idle, Rotating, Revoking, RevokingOps
        <4>3. QED
          BY <2>5, <3>1, <4>1, <4>2 DEF FreezeCommit, SnapshotMoves, Snapshot
      <3>2. CASE req[d].op # "travel"
        BY <1>2, <2>5, <3>2 DEF FreezeCommit
      <3>3. QED
        BY <3>1, <3>2
    <2>6. QED
      BY <1>6, <2>1, <2>2, <2>3, <2>4, <2>5 DEF Revoke
  <1>7. ASSUME NEW c \in Clients, c # d, Mint(c) \/ Refresh(c) \/ Revoke(c) \/ Abort(c)
        PROVE  SnapshotMoves(d)
    BY <1>1, <1>7, OwnRequest
  <1>8. CASE UNCHANGED req
    BY <1>1, <1>8
  <1>9. QED
    BY <1>2, <1>3, <1>4, <1>5, <1>6, <1>7, <1>8
    DEF Next, vars, EnableMfa, DisableMfa, ExpireRow, Thaw, Abort

\* Which steps move the counters.
Bump(c) ==
    /\ Holds(c) /\ Revoking(c) /\ req[c].pc # "issue"
    /\ version' = req[c].ver + 1
    /\ epoch' = epoch + 1
    /\ burned' = burned
    /\ Revoking(c)' => req'[c].pc = "issue"

LEMMA CounterStep ==
  ASSUME TypeOK, [Next]_vars
  PROVE  \/ UNCHANGED <<version, epoch, burned>>
         \/ \E c \in Clients : Bump(c)
         \/ \E c \in Clients : RefreshReuse(c)
  <1>1. ASSUME NEW c \in Clients, Mint(c)
        PROVE  UNCHANGED <<version, epoch, burned>>
    BY <1>1, BeginFrame
    DEF Mint, LoginStart, TravelLoginStart, OAuthStart, TotpStart, Issue
  <1>2. ASSUME NEW c \in Clients, Refresh(c), ~RefreshReuse(c)
        PROVE  UNCHANGED <<version, epoch, burned>>
    BY <1>2 DEF Refresh, RefreshStart, Enter, RefreshExpired, RefreshCheck, RefreshDrop,
                RefreshConsume
  <1>3. ASSUME NEW c \in Clients, Revoke(c)
        PROVE  UNCHANGED <<version, epoch, burned>> \/ Bump(c)
    <2>1. ASSUME NEW p \in Pairs, LogoutStart(c, p) \/ PasswordStart(c, p)
          PROVE  UNCHANGED <<version, epoch, burned>>
      BY <2>1, BeginFrame DEF LogoutStart, PasswordStart
    <2>2. CASE ResetStart(c) \/ AdminFreezeStart(c) \/ RiskFreezeStart(c) \/ LogoutDelete(c)
      BY <2>2, BeginFrame DEF ResetStart, AdminFreezeStart, RiskFreezeStart, LogoutDelete
    <2>3. CASE LogoutBump(c)
      <3>1. req[c].op \in RevokingOps
        BY <2>3 DEF LogoutBump, TypeOK, Request, RequestOf, IdleRequest, Snapshot,
                    MintingOps
      <3>2. ~Revoking(c)'
        BY <2>3 DEF LogoutBump, Done, Revoking, RevokingOps, IdleRequest, Snapshot, TypeOK
      <3>3. QED
        BY <2>3, <3>1, <3>2
        DEF LogoutBump, Bump, Holds, Idle, Rotating, Revoking, RevokingOps
    <2>4. CASE PasswordCommit(c)
      <3>1. ~Revoking(c)'
        BY <2>4 DEF PasswordCommit, Done, Revoking, RevokingOps, IdleRequest, Snapshot,
                    TypeOK
      <3>2. QED
        BY <2>4, <3>1
        DEF PasswordCommit, Bump, Holds, Idle, Rotating, Revoking, RevokingOps
    <2>5. CASE FreezeCommit(c)
      <3>1. Revoking(c)' => req'[c].pc = "issue"
        BY <2>5 DEF FreezeCommit, Done, Revoking, RevokingOps, IdleRequest, Snapshot,
                    TypeOK
      <3>2. QED
        BY <2>5, <3>1
        DEF FreezeCommit, Bump, Holds, Idle, Rotating, Revoking, RevokingOps
    <2>6. QED
      BY <1>3, <2>1, <2>2, <2>3, <2>4, <2>5 DEF Revoke
  <1>4. QED
    BY <1>1, <1>2, <1>3
    DEF Next, vars, Abort, EnableMfa, DisableMfa, ExpireRow, Thaw

\* With no two revocations of the account in flight together, token_version
\* counts them, and every claim and snapshot says how many had been committed
\* when the User row was read.
RevocationInv ==
    /\ version = epoch + 1
    /\ \A p \in Issued : pair[p].ver = pair[p].born + 1 /\ pair[p].born <= epoch
    /\ \A c \in Clients : Holds(c) => req[c].ver = req[c].epoch + 1 /\ req[c].epoch <= epoch
    /\ \A c \in Clients : (Revoking(c) /\ req[c].pc # "issue") => req[c].epoch = epoch
    /\ \A c, d \in Clients : (Revoking(c) /\ Revoking(d)) => c = d

BurnedInv == \A f \in burned : f \in Issued /\ pair[f].ver < version

LEMMA RevokingRequest ==
  ASSUME NEW r \in Request, r.op \in RevokingOps
  PROVE  r.pc # "idle" /\ r.op # "refresh"
  BY DEF Request, RequestOf, RevokingOps, IdleRequest, Snapshot

LEMMA RevocationInit == Init => RevocationInv /\ BurnedInv
  <1> SUFFICES ASSUME Init PROVE RevocationInv /\ BurnedInv
    OBVIOUS
  <1>1. version = 1 /\ epoch = 0 /\ burned = {}
    BY DEF Init
  <1>2. \A c \in Clients : ~Holds(c) /\ ~Revoking(c)
    BY InitEmpty DEF Holds, Idle, Revoking, RevokingOps
  <1>3. QED
    BY <1>1, <1>2, InitEmpty DEF RevocationInv, BurnedInv

LEMMA RevocationStep ==
  ASSUME "revocation" \notin Races,
         TypeOK, FamilyInv, RevocationInv, [Next]_vars
  PROVE  RevocationInv'
  <1> USE DEF RevocationInv
  <1> DEFINE Alone(c) == \A d \in Clients \ {c} : ~Revoking(d)
  <1>1. ASSUME NEW c \in Clients, MayRevoke(c)
        PROVE  Alone(c)
    BY <1>1 DEF MayRevoke
  <1>2. /\ version' = epoch' + 1
        /\ epoch' \in {epoch, epoch + 1}
    <2>1. ASSUME NEW c \in Clients, Bump(c)
          PROVE  version' = epoch' + 1 /\ epoch' = epoch + 1
      BY <2>1 DEF Bump, TypeOK
    <2>2. QED
      BY <2>1, CounterStep DEF RefreshReuse, TypeOK
  <1>3. ASSUME NEW p \in Issued'
        PROVE  pair'[p].ver = pair'[p].born + 1 /\ pair'[p].born <= epoch'
    <2>1. CASE \A c \in Clients : ~Issue(c)
      <3>1. p \in Issued /\ pair' = pair
        BY <2>1, MintsOnlyByIssue DEF FamilyInv
      <3>2. pair[p].born \in Nat
        BY <3>1 DEF TypeOK, PairInfo, Issued
      <3>3. QED
        BY <1>2, <3>1, <3>2 DEF TypeOK
    <2>2. ASSUME NEW c \in Clients, Issue(c)
          PROVE  pair'[p].ver = pair'[p].born + 1 /\ pair'[p].born <= epoch'
      <3>1. PICK q \in Pairs \ Issued :
               /\ Issued' = Issued \cup {q}
               /\ pair' = [pair EXCEPT ![q] = Minted(req[c], q)]
               /\ epoch' = epoch
        BY <2>2, IssueEffect
      <3>2. Holds(c)
        BY <2>2 DEF Issue, Holds, Idle
      <3>3. pair'[q].ver = req[c].ver /\ pair'[q].born = req[c].epoch
        BY <3>1 DEF TypeOK, Minted
      <3>4. QED
        BY <3>1, <3>2, <3>3 DEF TypeOK, Issued
    <2>3. QED
      BY <2>1, <2>2
  <1>4. ASSUME NEW d \in Clients, Holds(d)'
        PROVE  req'[d].ver = req'[d].epoch + 1 /\ req'[d].epoch <= epoch'
    <2>1. CASE req'[d] = req[d]
      <3>1. Holds(d)
        BY <1>4, <2>1 DEF Holds, Idle, Rotating
      <3>2. req[d].epoch \in Nat
        BY <3>1, RequestShape DEF Holds
      <3>3. QED
        BY <1>2, <2>1, <3>1, <3>2 DEF TypeOK
    <2>2. CASE Fresh(req'[d]) /\ UNCHANGED <<version, epoch>>
      BY <2>2 DEF Fresh, TypeOK
    <2>3. CASE Holds(d) /\ req'[d].ver = req[d].ver /\ req'[d].epoch = req[d].epoch
                /\ UNCHANGED <<version, epoch>>
      BY <2>3
    <2>4. CASE /\ Holds(d) /\ req'[d].ver = req[d].ver + 1 /\ req'[d].epoch = epoch + 1
               /\ version' = req[d].ver + 1 /\ epoch' = epoch + 1
      BY <1>2, <2>4 DEF TypeOK
    <2>5. QED
      BY <1>4, <2>1, <2>2, <2>3, <2>4, SnapshotStep DEF SnapshotMoves
  <1>5. ASSUME NEW c \in Clients, NEW d \in Clients, Revoking(c)', Revoking(d)', c # d
        PROVE  FALSE
    <2>1. Holds(c)' /\ Holds(d)'
      BY <1>5, TypeStep, RevokingRequest DEF Holds, Idle, Rotating, Revoking, TypeOK
    <2>2. SnapshotMoves(c) /\ SnapshotMoves(d)
      BY <2>1, SnapshotStep
    <2>3. Revoking(c) \/ MayRevoke(c)
      BY <1>5, <2>2 DEF SnapshotMoves, Revoking
    <2>4. Revoking(d) \/ MayRevoke(d)
      BY <1>5, <2>2 DEF SnapshotMoves, Revoking
    <2>5. req'[c] = req[c] \/ req'[d] = req[d]
      BY <1>5, OwnRequest DEF Next, vars, EnableMfa, DisableMfa, ExpireRow, Thaw
    <2>6. QED
      BY <1>1, <1>5, <2>3, <2>4, <2>5 DEF Revoking
  <1>6. ASSUME NEW d \in Clients, Revoking(d)', req'[d].pc # "issue"
        PROVE  req'[d].epoch = epoch'
    <2>1. Holds(d)'
      BY <1>6, TypeStep, RevokingRequest DEF Holds, Idle, Rotating, Revoking, TypeOK
    <2>2. CASE req'[d] = req[d]
      <3>1. Revoking(d) /\ req[d].epoch = epoch
        BY <1>6, <2>2 DEF Revoking
      <3>2. ASSUME NEW c \in Clients, Bump(c)
            PROVE  FALSE
        BY <1>6, <3>1, <3>2 DEF Bump
      <3>3. ASSUME NEW c \in Clients, RefreshReuse(c)
            PROVE  FALSE
        <4>1. Alone(c)
          BY <1>1, <3>3 DEF RefreshReuse
        <4>2. ~Revoking(c)
          BY <3>3, RequestShape DEF RefreshReuse, Revoking, RevokingOps
        <4>3. QED
          BY <3>1, <4>1, <4>2
      <3>4. QED
        BY <2>2, <3>1, <3>2, <3>3, CounterStep
    <2>3. CASE Fresh(req'[d]) /\ UNCHANGED <<version, epoch>>
      BY <2>3 DEF Fresh
    <2>4. CASE /\ req'[d].op = req[d].op /\ req'[d].epoch = req[d].epoch
               /\ req[d].pc # "issue" /\ UNCHANGED <<version, epoch>>
      BY <1>6, <2>4 DEF Revoking
    <2>5. QED
      BY <1>6, <2>1, <2>2, <2>3, <2>4, SnapshotStep DEF SnapshotMoves
  <1>7. QED
    BY <1>2, <1>3, <1>4, <1>5, <1>6

\* If revocations of the account do not overlap, an accepted token was minted
\* from a User row read after the last of them, whatever else interleaves.
THEOREM AcceptedIsRecent ==
  ASSUME "revocation" \notin Races
  PROVE  Spec => []AcceptedPostdatesRevocation
  <1>1. Init => TypeOK /\ FamilyInv /\ RevocationInv
    BY TypeInit, FamilyInit, RevocationInit
  <1>2. TypeOK /\ FamilyInv /\ RevocationInv /\ [Next]_vars
           => (TypeOK /\ FamilyInv /\ RevocationInv)'
    BY TypeStep, FamilyStep, RevocationStep
  <1>3. TypeOK /\ RevocationInv => AcceptedPostdatesRevocation
    <2> SUFFICES ASSUME TypeOK, RevocationInv, NEW p \in Issued, Accepted(p)
                 PROVE  pair[p].born = epoch
      BY DEF AcceptedPostdatesRevocation
    <2>1. pair[p].born \in Nat
      BY DEF TypeOK, PairInfo, Issued
    <2>2. QED
      BY <2>1 DEF RevocationInv, Accepted, TypeOK
  <1>4. QED
    BY <1>1, <1>2, <1>3, PTL DEF Spec

LEMMA BurnedStep ==
  ASSUME "revocation" \notin Races,
         TypeOK, FamilyInv, RevocationInv, BurnedInv, [Next]_vars
  PROVE  BurnedInv'
  <1>1. \A p \in Issued : p \in Issued' /\ pair'[p] = pair[p]
    BY PairsStable
  <1>2. version' \in {version, version + 1}
    <2>1. ASSUME NEW c \in Clients, Bump(c)
          PROVE  version' = version + 1
      BY <2>1 DEF Bump, RevocationInv
    <2>2. QED
      BY <2>1, CounterStep DEF RefreshReuse
  <1>3. ASSUME NEW f \in burned
        PROVE  f \in Issued' /\ pair'[f].ver < version'
    <2>1. f \in Issued /\ pair[f].ver < version
      BY <1>3 DEF BurnedInv
    <2>2. pair[f].ver \in Nat
      BY <2>1 DEF TypeOK, PairInfo, Issued
    <2>3. QED
      BY <1>1, <1>2, <2>1, <2>2 DEF TypeOK
  <1>4. ASSUME NEW c \in Clients, RefreshReuse(c)
        PROVE  BurnedInv'
    <2> DEFINE f == pair[req[c].tok].fam
    <2>1. req[c].tok \in Issued
      BY <1>4, RequestShape DEF RefreshReuse, FamilyInv, TokensIssued, Rotating
    <2>2. f \in Issued
      BY <2>1 DEF FamilyInv, FamilyUniform
    <2>3. pair[f].ver <= epoch + 1 /\ pair[f].ver \in Nat
      BY <2>2 DEF RevocationInv, TypeOK, PairInfo, Issued
    <2>4. version' = version + 1 /\ burned' = burned \cup {f}
      BY <1>4 DEF RefreshReuse
    <2>5. pair'[f].ver < version'
      BY <1>1, <2>2, <2>3, <2>4 DEF RevocationInv, TypeOK
    <2>6. QED
      BY <1>1, <1>3, <2>2, <2>4, <2>5 DEF BurnedInv
  <1>5. QED
    BY <1>3, <1>4, CounterStep DEF BurnedInv, Bump

\* ... and a family in which reuse was detected is dead for good.
THEOREM BurnedIsDead ==
  ASSUME "revocation" \notin Races
  PROVE  Spec => []BurnedFamilyIsDead
  <1> DEFINE IInv == TypeOK /\ FamilyInv /\ RevocationInv /\ BurnedInv
  <1>1. Init => IInv
    BY TypeInit, FamilyInit, RevocationInit
  <1>2. IInv /\ [Next]_vars => IInv'
    BY TypeStep, FamilyStep, RevocationStep, BurnedStep
  <1>3. IInv => BurnedFamilyIsDead
    <2> SUFFICES ASSUME IInv, NEW p \in Issued, pair[p].fam \in burned, Accepted(p)
                 PROVE  FALSE
      BY DEF BurnedFamilyIsDead
    <2> DEFINE f == pair[p].fam
    <2>1. pair[f].ver < version /\ pair[f].ver = pair[p].ver /\ f \in Pairs
      BY DEF BurnedInv, FamilyInv, FamilyUniform, Issued
    <2>2. pair[f].ver \in Nat
      BY <2>1 DEF TypeOK, PairInfo
    <2>3. QED
      BY <2>1, <2>2 DEF Accepted, TypeOK
  <1>4. QED
    BY <1>1, <1>2, <1>3, PTL DEF Spec

-----------------------------------------------------------------------------
(* Revocation is final, and the sessions implement the ledger *)

\* Without lost updates token_version only counts up.
LEMMA VersionStep ==
  ASSUME TypeOK, RevocationInv, [Next]_vars
  PROVE  version' = version \/ version' = version + 1
  <1>1. ASSUME NEW c \in Clients, Bump(c)
        PROVE  version' = version + 1
    BY <1>1 DEF Bump, RevocationInv
  <1>2. ASSUME NEW c \in Clients, RefreshReuse(c)
        PROVE  version' = version + 1
    BY <1>2 DEF RefreshReuse
  <1>3. QED
    BY <1>1, <1>2, CounterStep

\* If revocations of the account do not overlap, a token rejected for its
\* version is rejected for good.
THEOREM RevocationIsFinal ==
  ASSUME "revocation" \notin Races
  PROVE  Spec => RevokedStaysRevoked
  <1> DEFINE IInv == TypeOK /\ FamilyInv /\ RevocationInv
             Final == \A p \in Pairs : (p \in Issued /\ ~Accepted(p)) => ~Accepted(p)'
  <1>1. Init => IInv
    BY TypeInit, FamilyInit, RevocationInit
  <1>2. IInv /\ [Next]_vars => IInv'
    BY TypeStep, FamilyStep, RevocationStep
  <1>3. IInv /\ [Next]_vars => Final
    <2> SUFFICES ASSUME IInv, [Next]_vars, NEW p \in Issued, pair[p].ver # version
                 PROVE  ~Accepted(p)'
      BY DEF Accepted, Issued
    <2>1. pair'[p] = pair[p]
      BY PairsStable
    <2>2. pair[p].ver \in Nat /\ pair[p].ver <= version
      BY DEF RevocationInv, TypeOK, PairInfo, Issued
    <2>3. pair[p].ver # version'
      BY <2>2, VersionStep DEF TypeOK
    <2>4. QED
      BY <2>1, <2>3 DEF Accepted
  <1>4. QED
    BY <1>1, <1>2, <1>3, PTL DEF Spec, RevokedStaysRevoked

LEMMA LedgerStep ==
  ASSUME "revocation" \notin Races,
         TypeOK, FamilyInv, RevocationInv, [Next]_vars
  PROVE  [Ledger!Next]_(Ledger!vars)
  <1> DEFINE open   == {p \in Pairs : Accepted(p)}
             closed == {p \in Issued : ~Accepted(p)}
  <1>1. SUFFICES \/ Ledger!CloseAll
                 \/ \E p \in Pairs : Ledger!Open(p) \/ Ledger!BornClosed(p)
                 \/ open' = open /\ closed' = closed
    BY DEF Ledger!Next, Ledger!vars
  <1>2. CASE \E c \in Clients : Issue(c)
    <2>1. PICK c \in Clients : Issue(c)
      BY <1>2
    <2>2. PICK p \in Pairs \ Issued :
             /\ Issued' = Issued \cup {p}
             /\ pair' = [pair EXCEPT ![p] = Minted(req[c], p)]
             /\ version' = version
      BY <2>1, IssueEffect
    <2>3. \A q \in Issued : Accepted(q)' = Accepted(q)
      BY <2>2 DEF Accepted, TypeOK, Issued
    <2>4. p \notin open \cup closed
      BY <2>2 DEF Accepted, Issued
    <2>5. CASE Accepted(p)'
      <3>1. open' = open \cup {p} /\ closed' = closed
        BY <2>2, <2>3, <2>5 DEF Accepted, Issued
      <3>2. QED
        BY <2>2, <2>4, <3>1 DEF Ledger!Open
    <2>6. CASE ~Accepted(p)'
      <3>1. open' = open /\ closed' = closed \cup {p}
        BY <2>2, <2>3, <2>6 DEF Accepted, Issued
      <3>2. QED
        BY <2>2, <2>4, <3>1 DEF Ledger!BornClosed
    <2>7. QED
      BY <2>5, <2>6
  <1>3. CASE \A c \in Clients : ~Issue(c)
    <2>1. pair' = pair /\ Issued' = Issued
      BY <1>3, MintsOnlyByIssue DEF FamilyInv
    <2>2. CASE version' = version
      BY <2>1, <2>2 DEF Accepted, Issued
    <2>3. CASE version' = version + 1
      <3>1. \A p \in Issued : pair[p].ver \in Nat /\ pair[p].ver <= version
        BY DEF RevocationInv, TypeOK, PairInfo, Issued
      <3>2. \A p \in Issued : pair[p].ver # version + 1
        BY <3>1 DEF TypeOK
      <3>3. open' = {} /\ closed' = Issued /\ Issued = open \cup closed
        BY <2>1, <2>3, <3>2 DEF Accepted, Issued
      <3>4. QED
        BY <3>3 DEF Ledger!CloseAll
    <2>4. QED
      BY <2>2, <2>3, VersionStep
  <1>4. QED
    BY <1>2, <1>3

\* If revocations of the account do not overlap, the handlers together keep
\* the promise of token_version: every session opens at most once, all open
\* sessions close together, and none opens again.
THEOREM SessionsImplementLedger ==
  ASSUME "revocation" \notin Races
  PROVE  Spec => ImplementsLedger
  <1> DEFINE IInv == TypeOK /\ FamilyInv /\ RevocationInv
  <1>1. Init => IInv
    BY TypeInit, FamilyInit, RevocationInit
  <1>2. IInv /\ [Next]_vars => IInv'
    BY TypeStep, FamilyStep, RevocationStep
  <1>3. Init => Ledger!Init
    BY InitEmpty DEF Ledger!Init, Accepted, Issued
  <1>4. IInv /\ [Next]_vars => [Ledger!Next]_(Ledger!vars)
    BY LedgerStep
  <1>5. QED
    BY <1>1, <1>2, <1>3, <1>4, PTL DEF Spec, ImplementsLedger, Ledger!Spec

-----------------------------------------------------------------------------
(* Rotations of one token that do not overlap *)

Exchangeable(p) == row[p] \in {"fresh", "expired"}

Childless(p) ==
    \A q \in Issued : ~(pair[q].via = "refresh" /\ pair[q].parent = p)

\* With no two rotations of one token in flight together, a token that can
\* still be exchanged, or is being exchanged, has no child.
RotationInv ==
    /\ \A c, d \in Clients :
          (Rotating(c) /\ Rotating(d) /\ req[c].tok = req[d].tok) => c = d
    /\ \A p \in Issued : Exchangeable(p) => Childless(p)
    /\ \A c \in Clients :
          (Rotating(c) /\ req[c].pc \in {"check", "consume", "issue"})
             => Childless(req[c].tok)
    /\ \A c \in Clients :
          (Rotating(c) /\ req[c].pc = "issue") => ~Exchangeable(req[c].tok)
    /\ \A p \in Issued : pair[p].via = "refresh" => pair[p].parent \in Issued
    /\ SingleUse

\* A row that was consumed, deleted or has expired never becomes fresh again.
LEMMA RowsAge ==
  ASSUME TypeOK, TokensIssued, [Next]_vars, NEW p \in Issued, Exchangeable(p)'
  PROVE  Exchangeable(p)
  <1>1. CASE \E S : DeleteRows(S)
    BY <1>1 DEF DeleteRows, Issued, Exchangeable
  <1>2. CASE UNCHANGED row
    BY <1>2 DEF Exchangeable
  <1>3. ASSUME NEW c \in Clients, Mint(c)
        PROVE  Exchangeable(p)
    <2>1. CASE Issue(c)
      BY <2>1, IssueEffect DEF Exchangeable, TypeOK, Issued
    <2>2. CASE ~Issue(c)
      BY <1>2, <1>3, <2>2, BeginFrame
      DEF Mint, LoginStart, TravelLoginStart, OAuthStart, TotpStart
    <2>3. QED
      BY <2>1, <2>2
  <1>4. ASSUME NEW c \in Clients, Refresh(c)
        PROVE  Exchangeable(p)
    <2>1. CASE RefreshConsume(c)
      <3>1. CASE row[req[c].tok] = "deleted"
        BY <1>2, <2>1, <3>1 DEF RefreshConsume
      <3>2. CASE row[req[c].tok] # "deleted"
        BY <2>1, <3>2 DEF RefreshConsume, Exchangeable, TypeOK, Issued
      <3>3. QED
        BY <3>1, <3>2
    <2>2. CASE ~RefreshConsume(c)
      BY <1>1, <1>2, <1>4, <2>2
      DEF Refresh, RefreshStart, Enter, RefreshReuse, RefreshExpired, RefreshCheck,
          RefreshDrop
    <2>3. QED
      BY <2>1, <2>2
  <1>5. ASSUME NEW c \in Clients, Revoke(c)
        PROVE  Exchangeable(p)
    <2>1. ASSUME NEW q \in Pairs, LogoutStart(c, q) \/ PasswordStart(c, q)
          PROVE  row' = row
      BY <2>1, BeginFrame DEF LogoutStart, PasswordStart
    <2>2. CASE ResetStart(c) \/ AdminFreezeStart(c) \/ RiskFreezeStart(c)
      BY <1>2, <2>2, BeginFrame DEF ResetStart, AdminFreezeStart, RiskFreezeStart
    <2>3. CASE LogoutDelete(c) \/ PasswordCommit(c) \/ FreezeCommit(c)
      BY <1>1, <2>3 DEF LogoutDelete, PasswordCommit, FreezeCommit
    <2>4. CASE LogoutBump(c)
      BY <1>2, <2>4 DEF LogoutBump
    <2>5. QED
      BY <1>2, <1>5, <2>1, <2>2, <2>3, <2>4 DEF Revoke
  <1>6. ASSUME NEW q \in Pairs, EnableMfa(q) \/ DisableMfa(q) \/ ExpireRow(q)
        PROVE  Exchangeable(p)
    BY <1>6 DEF EnableMfa, DisableMfa, ExpireRow, Exchangeable, TypeOK, Issued
  <1>7. ASSUME NEW c \in Clients, Abort(c)
        PROVE  Exchangeable(p)
    BY <1>2, <1>7 DEF Abort
  <1>8. CASE Thaw
    BY <1>2, <1>8 DEF Thaw
  <1>9. CASE UNCHANGED vars
    BY <1>2, <1>9 DEF vars
  <1>10. QED
    BY <1>3, <1>4, <1>5, <1>6, <1>7, <1>8, <1>9 DEF Next

\* Who becomes the parent of the pair a step mints.
LEMMA ChildrenStep ==
  ASSUME TypeOK, FamilyInv, [Next]_vars, NEW q \in Issued', pair'[q].via = "refresh"
  PROVE  \/ q \in Issued /\ pair[q].via = "refresh" /\ pair'[q].parent = pair[q].parent
         \/ \E c \in Clients : /\ Issue(c) /\ Rotating(c)
                               /\ q \notin Issued
                               /\ Issued' = Issued \cup {q}
                               /\ pair'[q].parent = req[c].tok
  <1>1. CASE q \in Issued
    BY <1>1, PairsStable
  <1>2. CASE q \notin Issued
    <2>1. PICK c \in Clients : Issue(c)
      BY <1>2, MintsOnlyByIssue DEF FamilyInv
    <2>2. PICK p \in Pairs \ Issued :
             /\ Issued' = Issued \cup {p}
             /\ pair' = [pair EXCEPT ![p] = Minted(req[c], p)]
      BY <2>1, IssueEffect
    <2>3. q = p /\ pair'[q] = Minted(req[c], q)
      BY <1>2, <2>2 DEF TypeOK
    <2>4. Rotating(c)
      BY <2>3 DEF Minted, Rotating
    <2>5. QED
      BY <1>2, <2>1, <2>2, <2>3, <2>4 DEF Minted, Rotating
  <1>3. QED
    BY <1>1, <1>2

\* A client whose request is not idle after the step has not issued.
LEMMA IssueIdles ==
  ASSUME TypeOK, NEW c \in Clients, Issue(c), NEW d \in Clients
  PROVE  req'[c].op = "none" /\ (d # c => req'[d] = req[d])
  <1>1. req' = [req EXCEPT ![c] = IdleRequest]
    BY DEF Issue, Done
  <1>2. QED
    BY <1>1 DEF TypeOK, IdleRequest, Snapshot

\* Where a rotation starts: only a fresh token goes on to the version check.
LEMMA StartsAt ==
  ASSUME TypeOK, NEW c \in Clients, NEW p \in Pairs, RefreshStart(c, p)
  PROVE  row[p] = "fresh" \/ req'[c].pc \in {"expired", "reuse"}
  <1>1. CASE row[p] = "expired"
    <2>1. req' = [req EXCEPT ![c] = Snapshot("refresh", "expired", p, 0, FALSE, 0)]
      BY <1>1 DEF RefreshStart, Enter
    <2>2. QED
      BY <2>1 DEF TypeOK, Snapshot
  <1>2. CASE row[p] = "consumed"
    <2>1. req' = [req EXCEPT ![c] = Snapshot("refresh", "reuse", p, 0, FALSE, 0)]
      BY <1>2 DEF RefreshStart, Enter
    <2>2. QED
      BY <2>1 DEF TypeOK, Snapshot
  <1>3. QED
    BY <1>1, <1>2 DEF RefreshStart

LEMMA RotationInit == Init => RotationInv
  BY InitEmpty DEF RotationInv, Rotating, SingleUse

LEMMA RotationInvStep ==
  ASSUME "rotation" \notin Races,
         TypeOK, FamilyInv, RotationInv, [Next]_vars
  PROVE  RotationInv'
  <1> USE DEF RotationInv
  \* After a step, a childless token has a child only if a rotation of it issued.
  <1>1. ASSUME NEW p \in Issued, Childless(p),
               \A c \in Clients : ~(Issue(c) /\ Rotating(c) /\ req[c].tok = p)
        PROVE  Childless(p)'
    BY <1>1, ChildrenStep DEF Childless
  <1>2. ASSUME NEW p \in Issued, Exchangeable(p), NEW c \in Clients,
               Issue(c), Rotating(c), req[c].tok = p
        PROVE  FALSE
    BY <1>2 DEF Issue
  <1>3. ASSUME NEW c \in Clients, NEW d \in Clients, Rotating(c)', Rotating(d)',
               req'[c].tok = req'[d].tok, c # d
        PROVE  FALSE
    <2>1. RotationMoves(c) /\ RotationMoves(d)
      BY <1>3, RotationStep
    <2>2. PICK e \in {c, d} : \A f \in {c, d} : f # e => req'[f] = req[f]
      BY <1>3, OwnRequest DEF Next, vars, EnableMfa, DisableMfa, ExpireRow, Thaw
    <2>3. PICK f \in {c, d} : f # e
      BY <1>3
    <2>4. req'[f] = req[f] /\ Rotating(f) /\ req'[e].tok = req[f].tok
      BY <1>3, <2>2, <2>3 DEF Rotating
    <2>5. CASE Rotating(e) /\ req'[e].tok = req[e].tok
      BY <1>3, <2>3, <2>4, <2>5
    <2>6. CASE RefreshStart(e, req'[e].tok)
      BY <2>3, <2>4, <2>6 DEF RefreshStart, MayRotate, Rotating
    <2>7. RotationMoves(e)
      BY <2>1
    <2>8. QED
      BY <1>3, <2>5, <2>6, <2>7 DEF RotationMoves, Rotating, Snapshot
  <1>4. ASSUME NEW p \in Issued', Exchangeable(p)'
        PROVE  Childless(p)'
    <2>1. CASE p \in Issued
      BY <1>1, <1>2, <1>4, <2>1, RowsAge DEF FamilyInv
    <2>2. CASE p \notin Issued
      BY <2>2, ChildrenStep DEF Childless, FamilyInv, TokensIssued
    <2>3. QED
      BY <2>1, <2>2
  <1>5. ASSUME NEW d \in Clients, NEW t, Rotating(d)', t = req'[d].tok,
               req'[d].pc \in {"check", "consume", "issue"}
        PROVE  Childless(t)'
    <2>1. CASE req'[d] = req[d]
      <3>1. Rotating(d) /\ t = req[d].tok /\ req[d].pc \in {"check", "consume", "issue"}
        BY <1>5, <2>1 DEF Rotating
      <3>2. t \in Issued /\ Childless(t)
        BY <3>1 DEF FamilyInv, TokensIssued
      <3>3. ASSUME NEW c \in Clients, Issue(c), Rotating(c), req[c].tok = t
            PROVE  FALSE
        <4>1. c = d
          BY <3>1, <3>3
        <4>2. QED
          BY <1>5, <3>3, <4>1, IssueIdles DEF Rotating
      <3>4. QED
        BY <1>1, <3>2, <3>3
    <2>2. CASE req'[d] # req[d]
      <3>1. \A c \in Clients : ~Issue(c)
        BY <1>5, <2>2, IssueIdles DEF Rotating
      <3>2. t \in Issued /\ Childless(t)
        <4>1. ASSUME RefreshStart(d, t), t \in Issued
              PROVE  Exchangeable(t)
          BY <1>5, <4>1, StartsAt DEF Exchangeable, Issued
        <4>2. CASE Rotating(d) /\ t = req[d].tok /\ (RefreshCheck(d) \/ RefreshConsume(d))
          BY <4>2 DEF RefreshCheck, RefreshConsume, FamilyInv, TokensIssued
        <4>3. RotationMoves(d)
          BY <1>5, RotationStep
        <4>4. QED
          BY <1>5, <2>2, <4>1, <4>2, <4>3 DEF RotationMoves, Snapshot
      <3>3. QED
        BY <1>1, <3>1, <3>2
    <2>3. QED
      BY <2>1, <2>2
  <1>6. ASSUME NEW d \in Clients, NEW t, Rotating(d)', t = req'[d].tok,
               req'[d].pc = "issue"
        PROVE  ~Exchangeable(t)'
    <2>1. CASE req'[d] = req[d]
      <3>1. Rotating(d) /\ t = req[d].tok /\ req[d].pc = "issue"
        BY <1>6, <2>1 DEF Rotating
      <3>2. t \in Issued /\ ~Exchangeable(t)
        BY <3>1 DEF FamilyInv, TokensIssued
      <3>3. QED
        BY <3>2, RowsAge DEF FamilyInv
    <2>2. CASE req'[d] # req[d]
      <3>1. RotationMoves(d)
        BY <1>6, RotationStep
      <3>2. Rotating(d) /\ t = req[d].tok /\ RefreshConsume(d)
        BY <1>6, <2>2, <3>1 DEF RotationMoves, Snapshot
      <3>3. CASE row[t] = "deleted"
        BY <1>6, <3>2, <3>3 DEF RefreshConsume, Done, IdleRequest, Snapshot, TypeOK
      <3>4. CASE row' = [row EXCEPT ![t] = "consumed"]
        BY <3>2, <3>4 DEF Exchangeable, TypeOK, FamilyInv, TokensIssued, Issued
      <3>5. QED
        BY <3>2, <3>3, <3>4 DEF RefreshConsume
    <2>3. QED
      BY <2>1, <2>2
  <1>7. ASSUME NEW p \in Issued', pair'[p].via = "refresh"
        PROVE  pair'[p].parent \in Issued'
    <2>1. CASE p \in Issued /\ pair[p].via = "refresh" /\ pair'[p].parent = pair[p].parent
      BY <2>1, PairsStable
    <2>2. ASSUME NEW c \in Clients, Rotating(c), pair'[p].parent = req[c].tok
          PROVE  pair'[p].parent \in Issued'
      BY <2>2, PairsStable DEF FamilyInv, TokensIssued
    <2>3. QED
      BY <1>7, <2>1, <2>2, ChildrenStep
  <1>8. SingleUse'
    <2> SUFFICES ASSUME NEW p \in Issued', NEW q \in Issued',
                        pair'[p].via = "refresh", pair'[q].via = "refresh",
                        pair'[p].parent = pair'[q].parent
                 PROVE  p = q
      BY DEF SingleUse
    <2> DEFINE Old(x) == x \in Issued /\ pair[x].via = "refresh"
                           /\ pair'[x].parent = pair[x].parent
               New(x) == \E c \in Clients : /\ Issue(c) /\ Rotating(c)
                                            /\ x \notin Issued
                                            /\ Issued' = Issued \cup {x}
                                            /\ pair'[x].parent = req[c].tok
    <2>1. (Old(p) \/ New(p)) /\ (Old(q) \/ New(q))
      BY ChildrenStep
    <2>2. CASE Old(p) /\ Old(q)
      BY <2>2 DEF SingleUse
    <2>3. CASE New(p) /\ New(q)
      BY <2>3
    <2>4. ASSUME NEW x \in Issued', NEW y \in Issued', Old(x), New(y),
                 pair'[x].parent = pair'[y].parent
          PROVE  FALSE
      BY <2>4 DEF Childless, Issue
    <2>5. QED
      BY <2>1, <2>2, <2>3, <2>4
  <1>9. QED
    <2>1. \A c \in Clients :
             (Rotating(c)' /\ req'[c].pc \in {"check", "consume", "issue"})
                => Childless(req[c].tok)'
      BY <1>5 DEF Childless
    <2>2. \A c \in Clients :
             (Rotating(c)' /\ req'[c].pc = "issue") => ~Exchangeable(req[c].tok)'
      BY <1>6 DEF Exchangeable
    <2>3. QED
      BY <1>3, <1>4, <1>7, <1>8, <2>1, <2>2

\* If rotations of one token do not overlap, every refresh token is exchanged
\* at most once, whatever else interleaves and whichever handlers crash.
THEOREM RefreshIsSingleUse ==
  ASSUME "rotation" \notin Races
  PROVE  Spec => []SingleUse
  <1> DEFINE IInv == TypeOK /\ FamilyInv /\ RotationInv
  <1>1. Init => IInv
    BY TypeInit, FamilyInit, RotationInit
  <1>2. IInv /\ [Next]_vars => IInv'
    BY TypeStep, FamilyStep, RotationInvStep
  <1>3. IInv => SingleUse
    BY DEF RotationInv
  <1>4. QED
    BY <1>1, <1>2, <1>3, PTL DEF Spec

-----------------------------------------------------------------------------
(* MFA is earned by a code *)

\* How a step changes the kind of a request: it goes on, it ends, or it enters
\* as one of the operations that are performed.
OpMoves(d) ==
    \/ req'[d].op = req[d].op /\ req'[d].mfa = req[d].mfa
    \/ req'[d] = IdleRequest
    \/ /\ req'[d].op \in Ops
       /\ req'[d].mfa => req'[d].op \in {"totp", "oauth"}
    \/ /\ req[d].op = "refresh" /\ req'[d].op = "refresh"
    \/ /\ req[d].op = "travel" /\ req'[d].op = "travel" /\ ~req'[d].mfa

LEMMA EnterMoves ==
  ASSUME TypeOK, NEW d \in Clients, NEW r, Enter(d, r),
         r.mfa => r.op \in {"totp", "oauth"}
  PROVE  OpMoves(d)
  BY DEF OpMoves, Enter, TypeOK

LEMMA BeginOpMoves ==
  ASSUME TypeOK, NEW d \in Clients, NEW op, NEW pc, NEW mfa,
         Begin(d, op, pc, mfa), mfa => op \in {"totp", "oauth"}
  PROVE  OpMoves(d)
  <1> DEFINE r == Snapshot(op, pc, NoPair, version, mfa, epoch)
  <1>1. r.mfa = mfa /\ r.op = op
    BY DEF Snapshot
  <1>2. Enter(d, r)
    BY DEF Begin
  <1>3. QED
    BY <1>1, <1>2, EnterMoves

LEMMA OpStep ==
  ASSUME TypeOK, [Next]_vars, NEW d \in Clients
  PROVE  OpMoves(d)
  <1>1. CASE req'[d] = req[d]
    BY <1>1 DEF OpMoves
  <1>2. CASE Done(d)
    BY <1>2 DEF Done, OpMoves, TypeOK
  <1>3. ASSUME NEW pc, Goto(d, pc)
        PROVE  OpMoves(d)
    <2>1. req'[d] = [req[d] EXCEPT !.pc = pc]
      BY <1>3 DEF Goto, TypeOK
    <2>2. req'[d].op = req[d].op /\ req'[d].mfa = req[d].mfa
      BY <2>1 DEF TypeOK, Request, RequestOf, IdleRequest, Snapshot
    <2>3. QED
      BY <2>2 DEF OpMoves
  <1>4. CASE Mint(d)
    <2>1. CASE LoginStart(d) \/ TravelLoginStart(d) \/ OAuthStart(d)
      BY <2>1, BeginOpMoves DEF LoginStart, TravelLoginStart, OAuthStart
    <2>2. ASSUME NEW p \in Pairs, TotpStart(d, p)
          PROVE  OpMoves(d)
      BY <2>2, BeginOpMoves DEF TotpStart
    <2>3. CASE Issue(d)
      BY <2>3, <1>2 DEF Issue
    <2>4. QED
      BY <1>4, <2>1, <2>2, <2>3 DEF Mint
  <1>5. CASE Refresh(d)
    <2>1. ASSUME NEW p \in Pairs, RefreshStart(d, p)
          PROVE  OpMoves(d)
      BY <2>1, EnterMoves DEF RefreshStart, Snapshot
    <2>2. CASE RefreshCheck(d)
      <3>1. req[d].op = "refresh"
        BY <2>2, RequestShape DEF RefreshCheck
      <3>2. CASE pair[req[d].tok].ver = version
        BY <2>2, <3>1, <3>2 DEF RefreshCheck, OpMoves, Snapshot, TypeOK
      <3>3. CASE pair[req[d].tok].ver # version
        BY <2>2, <3>3, <1>3 DEF RefreshCheck
      <3>4. QED
        BY <3>2, <3>3
    <2>3. CASE RefreshConsume(d)
      BY <2>3, <1>2, <1>3 DEF RefreshConsume
    <2>4. QED
      BY <1>5, <1>2, <2>1, <2>2, <2>3
      DEF Refresh, RefreshReuse, RefreshExpired, RefreshDrop
  <1>6. CASE Revoke(d)
    <2>1. ASSUME NEW p \in Pairs, LogoutStart(d, p) \/ PasswordStart(d, p)
          PROVE  OpMoves(d)
      BY <2>1, BeginOpMoves DEF LogoutStart, PasswordStart
    <2>2. CASE ResetStart(d) \/ AdminFreezeStart(d) \/ RiskFreezeStart(d)
      BY <2>2, BeginOpMoves DEF ResetStart, AdminFreezeStart, RiskFreezeStart
    <2>3. CASE LogoutDelete(d) \/ LogoutBump(d) \/ PasswordCommit(d)
      BY <2>3, <1>2, <1>3 DEF LogoutDelete, LogoutBump, PasswordCommit
    <2>4. CASE FreezeCommit(d)
      <3>1. CASE req[d].op = "travel"
        BY <2>4, <3>1 DEF FreezeCommit, OpMoves, Snapshot, TypeOK
      <3>2. CASE req[d].op # "travel"
        BY <2>4, <3>2, <1>2 DEF FreezeCommit
      <3>3. QED
        BY <3>1, <3>2
    <2>5. QED
      BY <1>6, <2>1, <2>2, <2>3, <2>4 DEF Revoke
  <1>7. ASSUME NEW c \in Clients, c # d, Mint(c) \/ Refresh(c) \/ Revoke(c) \/ Abort(c)
        PROVE  OpMoves(d)
    BY <1>1, <1>7, OwnRequest
  <1>8. CASE UNCHANGED req
    BY <1>1, <1>8
  <1>9. QED
    BY <1>2, <1>4, <1>5, <1>6, <1>7, <1>8
    DEF Next, vars, EnableMfa, DisableMfa, ExpireRow, Thaw, Abort

\* Only a TOTP code, an OAuth callback or the rotation of a token that one of them
\* opened carries mfa_verified into a new pair.
MfaInv ==
    /\ MfaTraced
    /\ \A c \in Clients : req[c].mfa => req[c].op \in {"totp", "oauth", "refresh"}

LEMMA MfaInit == Init => MfaInv
  <1> SUFFICES ASSUME Init PROVE MfaInv
    OBVIOUS
  <1>1. \A c \in Clients : ~req[c].mfa
    BY DEF Init, IdleRequest, Snapshot
  <1>2. MfaTraced
    BY InitEmpty DEF MfaTraced
  <1>3. QED
    BY <1>1, <1>2 DEF MfaInv

LEMMA MfaStep ==
  ASSUME TypeOK, FamilyInv, MfaInv, [Next]_vars
  PROVE  MfaInv'
  <1>1. \A p \in Issued : p \in Issued' /\ pair'[p] = pair[p]
    BY PairsStable
  <1>2. MfaTraced'
    <2>1. CASE \A c \in Clients : ~Issue(c)
      BY <2>1, MintsOnlyByIssue DEF FamilyInv, MfaInv, MfaTraced
    <2>2. ASSUME NEW c \in Clients, Issue(c)
          PROVE  MfaTraced'
      <3> DEFINE r == req[c]
      <3>1. PICK p \in Pairs \ Issued :
               /\ Issued' = Issued \cup {p}
               /\ pair' = [pair EXCEPT ![p] = Minted(r, p)]
        BY <2>2, IssueEffect
      <3>2. \A q \in Issued : pair[q].fam \in Issued
        BY DEF FamilyInv, FamilyUniform
      <3>3. \A q \in Issued : pair'[q].mfa => pair'[pair'[q].fam].via \in {"totp", "oauth"}
        BY <1>1, <3>2 DEF MfaInv, MfaTraced
      <3>4. pair'[p] = Minted(r, p)
        BY <3>1 DEF TypeOK
      <3>5. CASE Rotating(c)
        <4>1. r.tok \in Issued /\ r.mfa = pair[r.tok].mfa
          BY <2>2, <3>5 DEF Issue, FamilyInv, TokensIssued, SnapshotFaithful
        <4>2. pair'[p].fam = pair[r.tok].fam /\ pair'[p].mfa = pair[r.tok].mfa
          BY <3>4, <3>5, <4>1 DEF Minted, Rotating
        <4>3. pair'[p].mfa => pair'[pair'[p].fam].via \in {"totp", "oauth"}
          <5> SUFFICES ASSUME pair'[p].mfa PROVE pair'[pair'[p].fam].via \in {"totp", "oauth"}
            OBVIOUS
          <5>1. pair[r.tok].mfa
            BY <4>2
          <5>2. pair[pair[r.tok].fam].via \in {"totp", "oauth"}
            BY <4>1, <5>1 DEF MfaInv, MfaTraced
          <5>3. QED
            BY <1>1, <3>2, <4>1, <4>2, <5>2
        <4>4. QED
          BY <3>1, <3>3, <4>3 DEF MfaTraced
      <3>6. CASE ~Rotating(c)
        <4>1. r.mfa => r.op \in {"totp", "oauth"}
          BY <3>6 DEF MfaInv, Rotating
        <4>2. pair'[p].fam = p /\ pair'[p].mfa = r.mfa /\ pair'[p].via = r.op
          BY <3>4, <3>6 DEF Minted, Rotating
        <4>3. QED
          BY <3>1, <3>3, <4>1, <4>2 DEF MfaTraced
      <3>7. QED
        BY <3>5, <3>6
    <2>3. QED
      BY <2>1, <2>2
  <1>3. ASSUME NEW d \in Clients
        PROVE  req'[d].mfa => req'[d].op \in {"totp", "oauth", "refresh"}
    BY OpStep DEF OpMoves, MfaInv, IdleRequest, Snapshot
  <1>4. QED
    BY <1>2, <1>3 DEF MfaInv

\* Whatever races and however the account signs in, a token that says
\* mfa_verified descends from one a TOTP code or an OAuth callback opened.
THEOREM MfaIsEarned == Spec => []MfaTraced
  <1> DEFINE IInv == TypeOK /\ FamilyInv /\ MfaInv
  <1>1. Init => IInv
    BY TypeInit, FamilyInit, MfaInit
  <1>2. IInv /\ [Next]_vars => IInv'
    BY TypeStep, FamilyStep, MfaStep
  <1>3. IInv => MfaTraced
    BY DEF MfaInv
  <1>4. QED
    BY <1>1, <1>2, <1>3, PTL DEF Spec

-----------------------------------------------------------------------------
(* A freeze leaves no session *)

\* A pair of the family a login that froze the account opened, and its rotation.
OfTravel(p) == pair[pair[p].fam].via = "travel"
RotatesTravel(c) == Rotating(c) /\ OfTravel(req[c].tok)

\* While the account is frozen, what was issued and what a handler is about
\* to mint is of an earlier version or of the login that froze it.
FreezeInv ==
    /\ \A c \in Clients : (Revoking(c) /\ req[c].pc = "issue") => req[c].op = "travel"
    /\ frozen => /\ \A p \in Issued : pair[p].ver < version \/ OfTravel(p)
                 /\ \A c \in Clients : (Holds(c) /\ ~Revoking(c))
                                         => req[c].ver < version \/ RotatesTravel(c)

LEMMA FreezeInit == Init => FreezeInv
  BY InitEmpty DEF Init, FreezeInv, Revoking, RevokingOps

LEMMA BeginSets ==
  ASSUME TypeOK, NEW d \in Clients, NEW op, NEW pc, NEW mfa,
         Begin(d, op, pc, mfa)
  PROVE  /\ req'[d] = Snapshot(op, pc, NoPair, version, mfa, epoch)
         /\ req'[d].op = op /\ req'[d].pc = pc
  BY DEF Begin, Enter, Snapshot, TypeOK

\* A rotation stays a rotation until it ends.
LEMMA RefreshStays ==
  ASSUME TypeOK, NEW d \in Clients, Refresh(d)
  PROVE  Rotating(d)' \/ req'[d] = IdleRequest
  <1>1. CASE Done(d)
    BY <1>1 DEF Done, TypeOK
  <1>2. ASSUME NEW p \in Pairs, RefreshStart(d, p)
        PROVE  Rotating(d)'
    BY <1>2 DEF RefreshStart, Enter, Snapshot, Rotating, TypeOK
  <1>3. CASE RefreshCheck(d) \/ RefreshConsume(d)
    <2>1. req[d] \in RequestOf({"refresh"}, {"check", "consume"}, Pairs)
      BY <1>3 DEF RefreshCheck, RefreshConsume, TypeOK, Request, RequestOf,
                  IdleRequest, Snapshot
    <2>2. QED
      BY <1>1, <1>3, <2>1
      DEF RefreshCheck, RefreshConsume, Goto, Snapshot, Rotating, RequestOf, TypeOK
  <1>4. QED
    BY <1>1, <1>2, <1>3 DEF Refresh, RefreshReuse, RefreshExpired, RefreshDrop

\* Only the travel login mints after it has revoked.
LEMMA RevokersDoNotMint ==
  ASSUME TypeOK, [Next]_vars, NEW d \in Clients, Revoking(d)', req'[d].pc = "issue",
         req'[d] # req[d]
  PROVE  req'[d].op = "travel"
  <1>1. CASE Mint(d)
    <2>1. CASE Issue(d)
      BY <2>1, Revoking(d)'
      DEF Issue, Done, Revoking, RevokingOps, IdleRequest, Snapshot, TypeOK
    <2>2. CASE ~Issue(d)
      BY <1>1, <2>2, Revoking(d)'
      DEF Mint, LoginStart, TravelLoginStart, OAuthStart, TotpStart, Begin, Enter,
          Revoking, RevokingOps, Snapshot, TypeOK
    <2>3. QED
      BY <2>1, <2>2
  <1>2. CASE Rotating(d)'
    BY <1>2, Revoking(d)' DEF Rotating, Revoking, RevokingOps
  <1>3. CASE Refresh(d) /\ ~Rotating(d)'
    BY <1>3, RefreshStays, Revoking(d)' DEF Revoking, RevokingOps, IdleRequest, Snapshot
  <1>4. CASE Revoke(d)
    <2>1. CASE Done(d)
      BY <2>1, Revoking(d)'
      DEF Done, Revoking, RevokingOps, IdleRequest, Snapshot, TypeOK
    <2>2. CASE LogoutDelete(d)
      BY <2>2 DEF LogoutDelete, Goto, TypeOK, Request, RequestOf, IdleRequest, Snapshot
    <2>3. ASSUME NEW p \in Pairs, LogoutStart(d, p) \/ PasswordStart(d, p)
          PROVE  FALSE
      BY <2>3 DEF LogoutStart, PasswordStart, Begin, Enter, Snapshot, TypeOK
    <2>4. CASE ResetStart(d) \/ AdminFreezeStart(d) \/ RiskFreezeStart(d)
      BY <2>4
      DEF ResetStart, AdminFreezeStart, RiskFreezeStart, Begin, Enter, Snapshot, TypeOK
    <2>5. CASE FreezeCommit(d)
      BY <2>1, <2>5 DEF FreezeCommit, Snapshot, TypeOK
    <2>6. QED
      BY <1>4, <2>1, <2>2, <2>3, <2>4, <2>5 DEF Revoke, LogoutBump, PasswordCommit
  <1>5. ASSUME NEW c \in Clients, c # d, Mint(c) \/ Refresh(c) \/ Revoke(c) \/ Abort(c)
        PROVE  FALSE
    BY <1>5, OwnRequest
  <1>6. CASE Abort(d)
    BY <1>6, Revoking(d)'
    DEF Abort, Done, Revoking, RevokingOps, IdleRequest, Snapshot, TypeOK
  <1>7. QED
    BY <1>1, <1>2, <1>3, <1>4, <1>5, <1>6
    DEF Next, vars, EnableMfa, DisableMfa, ExpireRow, Thaw

\* What a step of a frozen account does to a handler that will mint: it goes on, or
\* it is the rotation of a token of the current version.
FrozenMoves(d) ==
    \/ req'[d] = req[d]
    \/ /\ Holds(d) /\ ~Revoking(d)
       /\ req'[d].ver = req[d].ver
       /\ Rotating(d) => Rotating(d)' /\ req'[d].tok = req[d].tok
    \/ /\ Rotating(d)'
       /\ req'[d].tok \in Issued
       /\ pair[req'[d].tok].ver = version

\* A frozen account starts no other handler that mints.
LEMMA FrozenStep ==
  ASSUME TypeOK, FamilyInv, [Next]_vars, frozen,
         NEW d \in Clients, Holds(d)', ~Revoking(d)'
  PROVE  FrozenMoves(d)
  <1>1. CASE Mint(d)
    <2>1. Issue(d)
      BY <1>1 DEF Mint, LoginStart, TravelLoginStart, OAuthStart, TotpStart, Admitted
    <2>2. QED
      BY <2>1, Holds(d)' DEF Issue, Done, Holds, Idle, IdleRequest, Snapshot, TypeOK
  <1>2. CASE Rotating(d)'
    <2>1. req'[d].pc \in {"consume", "issue"}
      BY <1>2, Holds(d)' DEF Holds
    <2>2. CASE /\ Rotating(d)
               /\ req'[d] = Snapshot("refresh", "consume", req[d].tok, version,
                                     pair[req[d].tok].mfa, epoch)
               /\ pair[req[d].tok].ver = version
      BY <1>2, <2>2 DEF FamilyInv, TokensIssued, FrozenMoves, Snapshot
    <2>3. CASE /\ Rotating(d)
               /\ req[d].pc = "consume"
               /\ req'[d] = Snapshot("refresh", "issue", req[d].tok, req[d].ver,
                                     req[d].mfa, req[d].epoch)
      BY <1>2, <2>3 DEF Holds, Idle, Rotating, Revoking, RevokingOps, Snapshot, FrozenMoves
    <2>4. QED
      BY <1>2, <2>1, <2>2, <2>3, RotationStep DEF RotationMoves, FrozenMoves
  <1>3. CASE ~Rotating(d)' /\ (Refresh(d) \/ Revoke(d))
    <2>1. SnapshotMoves(d)
      BY SnapshotStep
    <2>2. CASE Refresh(d)
      BY <1>3, <2>2, RefreshStays, Holds(d)' DEF Holds, Idle, IdleRequest, Snapshot
    <2>3. CASE Revoke(d)
      <3>1. CASE Done(d)
        BY <3>1, Holds(d)' DEF Done, Holds, Idle, IdleRequest, Snapshot, TypeOK
      <3>2. CASE LogoutDelete(d)
        <4>1. req[d] \in RequestOf(RevokingOps, {"delete"}, {NoPair})
          BY <3>2 DEF LogoutDelete, TypeOK, Request, RequestOf, IdleRequest, Snapshot
        <4>2. Revoking(d)'
          BY <3>2, <4>1 DEF LogoutDelete, Goto, TypeOK, RequestOf, Revoking
        <4>3. QED
          BY <4>2
      <3>3. ASSUME NEW p \in Pairs, LogoutStart(d, p) \/ PasswordStart(d, p)
            PROVE  FALSE
        BY <3>3, BeginSets, ~Revoking(d)' DEF LogoutStart, PasswordStart, Revoking, RevokingOps
      <3>4. CASE ResetStart(d) \/ AdminFreezeStart(d) \/ RiskFreezeStart(d)
        BY <3>4, BeginSets, ~Revoking(d)'
        DEF ResetStart, AdminFreezeStart, RiskFreezeStart, Revoking, RevokingOps
      <3>5. CASE FreezeCommit(d)
        BY <3>1, <3>5, ~Revoking(d)'
        DEF FreezeCommit, Snapshot, TypeOK, Revoking, RevokingOps
      <3>6. QED
        BY <2>3, <3>1, <3>2, <3>3, <3>4, <3>5 DEF Revoke, LogoutBump, PasswordCommit
    <2>4. QED
      BY <1>3, <2>1, <2>2, <2>3 DEF SnapshotMoves, Revoking, Rotating, FrozenMoves
  <1>4. ASSUME NEW c \in Clients, c # d, Mint(c) \/ Refresh(c) \/ Revoke(c) \/ Abort(c)
        PROVE  FrozenMoves(d)
    BY <1>4, OwnRequest DEF FrozenMoves
  <1>5. CASE Abort(d)
    BY <1>5, Holds(d)' DEF Abort, Done, Holds, Idle, IdleRequest, Snapshot, TypeOK
  <1>6. QED
    BY <1>1, <1>2, <1>3, <1>4, <1>5
    DEF Next, vars, EnableMfa, DisableMfa, ExpireRow, Thaw, FrozenMoves

\* Freezing an account bumps its version past everything that exists.
LEMMA FreezeCommits ==
  ASSUME TypeOK, FamilyInv, RevocationInv, [Next]_vars,
         NEW c \in Clients, FreezeCommit(c)
  PROVE  /\ version' = version + 1
         /\ pair' = pair /\ Issued' = Issued
         /\ \A d \in Clients : (Holds(d)' /\ ~Revoking(d)') => Holds(d) /\ req'[d] = req[d]
  <1>1. Revoking(c) /\ Holds(c) /\ req[c].pc # "issue"
    BY DEF FreezeCommit, Revoking, RevokingOps, Holds, Idle, Rotating
  <1>2. version' = version + 1
    BY <1>1 DEF FreezeCommit, RevocationInv
  <1>3. pair' = pair /\ Issued' = Issued
    BY DeleteRowsIssued DEF FreezeCommit
  <1>4. \A d \in Clients \ {c} : req'[d] = req[d]
    BY OwnRequest DEF Revoke
  <1>5. req'[c] = IdleRequest \/ req'[c].op = "travel"
    BY DEF FreezeCommit, Done, Snapshot, TypeOK
  <1>6. ASSUME NEW d \in Clients, Holds(d)', ~Revoking(d)'
        PROVE  Holds(d) /\ req'[d] = req[d]
    <2>1. d # c
      BY <1>5, <1>6 DEF Holds, Idle, Revoking, RevokingOps, IdleRequest, Snapshot
    <2>2. QED
      BY <1>4, <1>6, <2>1 DEF Holds, Idle, Rotating
  <1>7. QED
    BY <1>2, <1>3, <1>6

LEMMA FreezesOnlyByCommit ==
  ASSUME TypeOK, [Next]_vars, frozen', ~frozen
  PROVE  \E c \in Clients : FreezeCommit(c)
  <1>1. ASSUME NEW c \in Clients, Mint(c)
        PROVE  FALSE
    BY <1>1, BeginFrame
    DEF Mint, LoginStart, TravelLoginStart, OAuthStart, TotpStart, Issue
  <1>2. ASSUME NEW c \in Clients, Refresh(c)
        PROVE  FALSE
    BY <1>2
    DEF Refresh, RefreshStart, Enter, RefreshReuse, RefreshExpired, RefreshCheck,
        RefreshDrop, RefreshConsume
  <1>3. ASSUME NEW c \in Clients, Revoke(c), ~FreezeCommit(c)
        PROVE  FALSE
    BY <1>3, BeginFrame
    DEF Revoke, LogoutStart, PasswordStart, LogoutDelete, LogoutBump, ResetStart,
        PasswordCommit, AdminFreezeStart, RiskFreezeStart
  <1>4. QED
    BY <1>1, <1>2, <1>3
    DEF Next, vars, Abort, EnableMfa, DisableMfa, ExpireRow, Thaw

\* The families of a step that mints at most one pair stay what they were opened as.
LEMMA TravelStays ==
  ASSUME TypeOK, FamilyInv, [Next]_vars, NEW p \in Issued
  PROVE  p \in Issued' /\ OfTravel(p)' = OfTravel(p) /\ pair'[p].ver = pair[p].ver
  <1>1. \A q \in Issued : q \in Issued' /\ pair'[q] = pair[q]
    BY PairsStable
  <1>2. pair[p].fam \in Issued
    BY DEF FamilyInv, FamilyUniform
  <1>3. QED
    BY <1>1, <1>2 DEF OfTravel

\* What is minted while the account is frozen is of an earlier version or of the
\* login that froze it.
LEMMA FrozenMint ==
  ASSUME TypeOK, FamilyInv, FreezeInv, frozen, [Next]_vars, NEW c \in Clients, Issue(c),
         NEW q \in Pairs \ Issued, pair' = [pair EXCEPT ![q] = Minted(req[c], q)],
         version' = version
  PROVE  pair'[q].ver < version' \/ OfTravel(q)'
  <1>1. pair'[q] = Minted(req[c], q)
    BY DEF TypeOK
  <1>2. CASE Revoking(c)
    <2>1. req[c].op = "travel"
      BY <1>2 DEF FreezeInv, Issue
    <2>2. pair'[q].fam = q /\ pair'[q].via = "travel"
      BY <1>1, <2>1 DEF Minted
    <2>3. QED
      BY <2>2 DEF OfTravel
  <1>3. CASE ~Revoking(c)
    <2>1. req[c].ver < version \/ RotatesTravel(c)
      BY <1>3 DEF FreezeInv, Issue, Holds, Idle
    <2>2. pair'[q].ver = req[c].ver
      BY <1>1 DEF Minted
    <2>3. CASE RotatesTravel(c)
      <3>1. req[c].tok \in Issued /\ pair[pair[req[c].tok].fam].via = "travel"
        BY <2>3 DEF RotatesTravel, OfTravel, FamilyInv, TokensIssued
      <3>2. pair'[q].fam = pair[req[c].tok].fam
        BY <1>1, <2>3 DEF Minted, RotatesTravel, Rotating
      <3>3. pair[req[c].tok].fam \in Issued
        BY <3>1 DEF FamilyInv, FamilyUniform
      <3>4. QED
        BY <3>1, <3>2, <3>3, PairsStable DEF OfTravel
    <2>4. QED
      BY <2>1, <2>2, <2>3
  <1>4. QED
    BY <1>2, <1>3

LEMMA FreezeStep ==
  ASSUME "revocation" \notin Races,
         TypeOK, FamilyInv, RevocationInv, FreezeInv, [Next]_vars
  PROVE  FreezeInv'
  <1>1. ASSUME NEW d \in Clients, Revoking(d)', req'[d].pc = "issue"
        PROVE  req'[d].op = "travel"
    BY <1>1, RevokersDoNotMint DEF FreezeInv, Revoking
  <1>2. ASSUME NEW c \in Clients, FreezeCommit(c)
        PROVE  /\ \A p \in Issued' : pair'[p].ver < version'
               /\ \A d \in Clients : (Holds(d) /\ ~Revoking(d))' => req'[d].ver < version'
    <2>1. \A p \in Issued : pair[p].ver \in Nat /\ pair[p].ver <= version
      BY DEF RevocationInv, TypeOK, PairInfo, Issued
    <2>2. \A d \in Clients : Holds(d) => req[d].ver \in Nat /\ req[d].ver <= version
      BY RequestShape DEF RevocationInv, TypeOK, Holds
    <2>3. QED
      BY <1>2, <2>1, <2>2, FreezeCommits DEF TypeOK
  <1>3. ASSUME frozen, \A c \in Clients : ~FreezeCommit(c)
        PROVE  /\ \A p \in Issued' : pair'[p].ver < version' \/ OfTravel(p)'
               /\ \A d \in Clients : (Holds(d) /\ ~Revoking(d))'
                                      => req'[d].ver < version' \/ RotatesTravel(d)'
    <2>1. version' \in {version, version + 1} /\ version \in Nat
      BY VersionStep DEF TypeOK
    <2>2. \A p \in Issued : pair[p].ver \in Nat
      BY DEF TypeOK, PairInfo, Issued
    <2>3. \A p \in Issued : pair'[p].ver < version' \/ OfTravel(p)'
      BY <1>3, <2>1, <2>2, TravelStays DEF FreezeInv
    <2>4. ASSUME NEW p \in Issued'
          PROVE  pair'[p].ver < version' \/ OfTravel(p)'
      <3>1. CASE \A c \in Clients : ~Issue(c)
        BY <2>3, <3>1, MintsOnlyByIssue DEF FamilyInv
      <3>2. ASSUME NEW c \in Clients, Issue(c)
            PROVE  pair'[p].ver < version' \/ OfTravel(p)'
        <4>1. PICK q \in Pairs \ Issued :
                 /\ Issued' = Issued \cup {q}
                 /\ pair' = [pair EXCEPT ![q] = Minted(req[c], q)]
                 /\ version' = version
          BY <3>2, IssueEffect
        <4>2. pair'[q].ver < version' \/ OfTravel(q)'
          BY <1>3, <3>2, <4>1, FrozenMint
        <4>3. QED
          BY <2>3, <4>1, <4>2
      <3>3. QED
        BY <3>1, <3>2
    <2>5. ASSUME NEW d \in Clients, Holds(d)', ~Revoking(d)'
          PROVE  req'[d].ver < version' \/ RotatesTravel(d)'
      <3>1. FrozenMoves(d)
        BY <1>3, <2>5, FrozenStep
      <3>2. CASE Rotating(d)' /\ req'[d].tok \in Issued /\ pair[req'[d].tok].ver = version
        <4>1. OfTravel(req'[d].tok)
          BY <1>3, <2>1, <3>2 DEF FreezeInv
        <4>2. pair'[pair'[req'[d].tok].fam].via = "travel"
          BY <3>2, <4>1, PairsStable DEF OfTravel, FamilyInv, FamilyUniform
        <4>3. QED
          BY <3>2, <4>2 DEF RotatesTravel, OfTravel
      <3>3. CASE /\ Holds(d) /\ ~Revoking(d) /\ req'[d].ver = req[d].ver
                 /\ Rotating(d) => Rotating(d)' /\ req'[d].tok = req[d].tok
        <4>1. req[d].ver \in Nat
          BY <3>3, RequestShape DEF Holds
        <4>2. req[d].ver < version \/ RotatesTravel(d)
          BY <1>3, <3>3 DEF FreezeInv
        <4>3. CASE RotatesTravel(d)
          <5>1. req[d].tok \in Issued /\ OfTravel(req[d].tok)
            BY <4>3 DEF RotatesTravel, FamilyInv, TokensIssued
          <5>2. pair'[pair'[req[d].tok].fam].via = "travel"
            BY <5>1, PairsStable DEF OfTravel, FamilyInv, FamilyUniform
          <5>3. QED
            BY <3>3, <4>3, <5>2 DEF RotatesTravel, OfTravel
        <4>4. QED
          BY <2>1, <3>3, <4>1, <4>2, <4>3
      <3>4. CASE req'[d] = req[d]
        BY <2>5, <3>3, <3>4 DEF Holds, Idle, Rotating, Revoking
      <3>5. QED
        BY <3>1, <3>2, <3>3, <3>4 DEF FrozenMoves
    <2>6. QED
      BY <2>4, <2>5
  <1>4. QED
    BY <1>1, <1>2, <1>3, FreezesOnlyByCommit DEF FreezeInv

\* If revocations do not overlap, no session survives a freeze or is born in one,
\* but for the family of the login that froze the account.
THEOREM FreezeEndsSessions ==
  ASSUME "revocation" \notin Races
  PROVE  Spec => []FrozenNoSession
  <1> DEFINE IInv == TypeOK /\ FamilyInv /\ RevocationInv /\ FreezeInv
  <1>1. Init => IInv
    BY TypeInit, FamilyInit, RevocationInit, FreezeInit
  <1>2. IInv /\ [Next]_vars => IInv'
    BY TypeStep, FamilyStep, RevocationStep, FreezeStep
  <1>3. IInv => FrozenNoSession
    <2> SUFFICES ASSUME IInv, frozen, NEW p \in Issued, Accepted(p)
                 PROVE  OfTravel(p)
      BY DEF FrozenNoSession, OfTravel
    <2>1. pair[p].ver \in Nat /\ pair[p].ver = version
      BY DEF Accepted, TypeOK, PairInfo, Issued
    <2>2. QED
      BY <2>1 DEF FreezeInv
  <1>4. QED
    BY <1>1, <1>2, <1>3, PTL DEF Spec

=============================================================================
