------------------------------ MODULE Sessions ------------------------------
(***************************************************************************)
(* The sessions of one account: the (access token, refresh token) pairs of *)
(* gateway/core/tokens.py, the users.token_version counter that revokes    *)
(* them, and every handler that mints a pair or revokes all of them.       *)
(*                                                                         *)
(* A handler is a coroutine: between two awaits another request of the     *)
(* same account may run.  Each handler is therefore split where it goes to *)
(* the database, and keeps in req[c] the snapshot it took of the User row. *)
(* The session factory sets expire_on_commit=False and autoflush=False     *)
(* (db/database.py:32-37), so a handler never refreshes that snapshot, and *)
(* an UPDATE and its COMMIT are one step: SQLite lets one writer in.       *)
(***************************************************************************)
EXTENDS Naturals, FiniteSets

CONSTANTS
    Clients,         \* requests that may be in flight at the same time
    Pairs,           \* identities of token pairs, in any order
    NoPair,          \* "no token presented"
    Ops,             \* the operations the clients perform
    Races,           \* which overlaps of like operations may happen
    MaxSignIns,      \* bound: families opened in one behaviour
    MaxRevocations   \* bound: token_version bumps in one behaviour

MintingOps  == {"login", "oauth", "totp", "travel"}
RevokingOps == {"travel", "logout", "password", "reset", "freeze", "elevate"}
AllOps      == MintingOps \cup RevokingOps \cup {"refresh"}

ASSUME PairsAssumption == NoPair \notin Pairs
ASSUME OpsAssumption   == Ops \subseteq AllOps
ASSUME RacesAssumption == Races \subseteq {"revocation", "rotation"}
ASSUME BoundAssumption == MaxSignIns \in Nat /\ MaxRevocations \in Nat

VARIABLES
    version,      \* users.token_version
    frozen,       \* users.account_frozen_until lies in the future
    mfaEnabled,   \* users.mfa_enabled
    pair,         \* what each pair says: the claims of the JWT = the columns of the row
    row,          \* the refresh_tokens row of each pair
    req,          \* the request each client has in flight
    epoch,        \* history: revocations committed so far
    burned        \* history: families in which reuse was detected

vars == <<version, frozen, mfaEnabled, pair, row, req, epoch, burned>>

RowState == {"none", "fresh", "expired", "consumed", "deleted"}

PairInfo == [fam : Pairs, parent : Pairs, ver : Nat, mfa : BOOLEAN,
             via : AllOps, born : Nat]

\* The handler op of a request: its next step pc, the token presented, and
\* the snapshot of the User row it works from.
Snapshot(op, pc, tok, ver, mfa, ep) ==
    [op |-> op, pc |-> pc, tok |-> tok, ver |-> ver, mfa |-> mfa, epoch |-> ep]

IdleRequest == Snapshot("none", "idle", NoPair, 0, FALSE, 0)

RequestOf(ops, pcs, toks) ==
    [op : ops, pc : pcs, tok : toks, ver : Nat, mfa : BOOLEAN, epoch : Nat]

Request ==
    {IdleRequest}
    \cup RequestOf(MintingOps, {"issue", "commit"}, {NoPair})
    \cup RequestOf(RevokingOps, {"issue", "commit", "delete", "bump"}, {NoPair})
    \cup RequestOf({"refresh"}, {"reuse", "expired", "check", "drop", "consume",
                                "issue"}, Pairs)

-----------------------------------------------------------------------------

Issued == {p \in Pairs : row[p] # "none"}

Family(f) == {p \in Issued : pair[p].fam = f}

\* The version check of require_authenticated_user: what an access token is
\* worth, whoever presents it.
Accepted(p) == row[p] # "none" /\ pair[p].ver = version

\* ... and the freeze check that follows it.
Admitted(p) == Accepted(p) /\ ~frozen

\* The MFA gate of every route that is not exempt.
PassesMfa(p) == mfaEnabled => pair[p].mfa

Idle(c) == req[c].pc = "idle"

Revoking(c) == req[c].op \in RevokingOps

\* Nothing in the code serialises two revocations of one account, or two
\* rotations of one token: Races names the overlaps a behaviour may contain.
MayRevoke(c) == "revocation" \in Races \/ \A d \in Clients \ {c} : ~Revoking(d)

MayRotate(c, p) ==
    "rotation" \in Races
    \/ \A d \in Clients \ {c} : ~(req[d].op = "refresh" /\ req[d].tok = p)

\* A request enters; with Begin it has read the User row.
Enter(c, r) ==
    /\ r.op \in Ops
    /\ Idle(c)
    /\ req' = [req EXCEPT ![c] = r]
    /\ UNCHANGED <<version, frozen, mfaEnabled, pair, row, epoch, burned>>

Begin(c, op, pc, mfa) ==
    Enter(c, Snapshot(op, pc, NoPair, version, mfa, epoch))

Goto(c, pc) == req' = [req EXCEPT ![c].pc = pc]

Done(c) == req' = [req EXCEPT ![c] = IdleRequest]

DeleteRows(S) ==
    row' = [p \in Pairs |-> IF p \in S /\ row[p] # "none" THEN "deleted" ELSE row[p]]

-----------------------------------------------------------------------------
(* Handlers that mint a pair *)

\* Mutant of LoginStart: a password counts as MFA while the account has none.
LoginAsMfa(c) == ~frozen /\ Begin(c, "login", "issue", ~mfaEnabled)

\* POST /auth/login with the right password: the freeze check passes on the
\* User row just read.  A login flagged as impossible travel raises the
\* account's risk first ("travel": the case in which that reaches critical).
LoginStart(c) == ~frozen /\ Begin(c, "login", "issue", FALSE)

TravelLoginStart(c) ==
    ~frozen /\ MayRevoke(c) /\ Begin(c, "travel", "commit", FALSE)

\* An OAuth callback: mfa_verified is set when the account has no MFA.
OAuthStart(c) == ~frozen /\ Begin(c, "oauth", "issue", ~mfaEnabled)

\* POST /auth/mfa/verify with a right code: exempt from the MFA gate.
TotpStart(c, p) ==
    /\ Admitted(p)
    /\ mfaEnabled
    /\ Begin(c, "totp", "issue", TRUE)

\* Mutant of Issue: mint with the version of the moment, not the snapshot's.
IssueCurrent(c) ==
    /\ req[c].pc = "issue"
    /\ \E p \in Pairs :
          /\ row[p] = "none"
          /\ row' = [row EXCEPT ![p] = "fresh"]
          /\ pair' = [pair EXCEPT ![p] =
                [fam |-> p, parent |-> p, ver |-> version, mfa |-> req[c].mfa,
                 via |-> req[c].op, born |-> req[c].epoch]]
    /\ Done(c)
    /\ UNCHANGED <<version, frozen, mfaEnabled, epoch, burned>>

\* create_token_pair: a new access token and a new row, from the snapshot.
Issue(c) ==
    LET r        == req[c]
        rotating == r.op = "refresh"
    IN  /\ r.pc = "issue"
        /\ rotating \/ Cardinality({pair[p].fam : p \in Issued}) < MaxSignIns
        /\ \E p \in Pairs :
              /\ row[p] = "none"
              /\ row' = [row EXCEPT ![p] = "fresh"]
              /\ pair' = [pair EXCEPT ![p] =
                    [fam    |-> IF rotating THEN pair[r.tok].fam ELSE p,
                     parent |-> IF rotating THEN r.tok ELSE p,
                     ver    |-> r.ver, mfa |-> r.mfa, via |-> r.op,
                     born   |-> r.epoch]]
        /\ Done(c)
        /\ UNCHANGED <<version, frozen, mfaEnabled, epoch, burned>>

-----------------------------------------------------------------------------
(* POST /auth/refresh: rotate_refresh_token.  No freeze check, no access token. *)

RefreshStart(c, p) ==
    /\ row[p] \in {"fresh", "expired", "consumed"}
    /\ MayRotate(c, p)
    /\ LET pc == CASE row[p] = "fresh"    -> "check"
                   [] row[p] = "expired"  -> "expired"
                   [] row[p] = "consumed" -> "reuse"
       IN  Enter(c, Snapshot("refresh", pc, p, 0, FALSE, 0))

\* Mutant of RefreshReuse: revoke the family's rows but no access token.
RefreshReuseRowsOnly(c) ==
    LET f == pair[req[c].tok].fam
    IN  /\ req[c].pc = "reuse"
        /\ DeleteRows(Family(f))
        /\ burned' = burned \cup {f}
        /\ Done(c)
        /\ UNCHANGED <<version, frozen, mfaEnabled, pair, epoch>>

\* A consumed token is theft: the DELETE takes the write lock, so the User
\* row read after it is current and the bump is not a lost update.
RefreshReuse(c) ==
    LET f == pair[req[c].tok].fam
    IN  /\ req[c].pc = "reuse"
        /\ MayRevoke(c)
        /\ epoch < MaxRevocations
        /\ DeleteRows(Family(f))
        /\ version' = version + 1
        /\ epoch' = epoch + 1
        /\ burned' = burned \cup {f}
        /\ Done(c)
        /\ UNCHANGED <<frozen, mfaEnabled, pair>>

RefreshExpired(c) ==
    /\ req[c].pc = "expired"
    /\ DeleteRows({req[c].tok})
    /\ Done(c)
    /\ UNCHANGED <<version, frozen, mfaEnabled, pair, epoch, burned>>

\* Mutant of RefreshCheck: rotate a revoked token, at the current version.
RefreshUnchecked(c) ==
    LET tok == req[c].tok
    IN  /\ req[c].pc = "check"
        /\ req' = [req EXCEPT ![c] = Snapshot("refresh", "consume", tok, version,
                                             pair[tok].mfa, epoch)]
        /\ UNCHANGED <<version, frozen, mfaEnabled, pair, row, epoch, burned>>

\* The User row is read after the token row: the version binding.
RefreshCheck(c) ==
    LET tok == req[c].tok
    IN  /\ req[c].pc = "check"
        /\ IF pair[tok].ver = version
           THEN req' = [req EXCEPT ![c] = Snapshot("refresh", "consume", tok,
                                                   version, pair[tok].mfa, epoch)]
           ELSE Goto(c, "drop")
        /\ UNCHANGED <<version, frozen, mfaEnabled, pair, row, epoch, burned>>

RefreshDrop(c) ==
    /\ req[c].pc = "drop"
    /\ DeleteRows(Family(pair[req[c].tok].fam))
    /\ Done(c)
    /\ UNCHANGED <<version, frozen, mfaEnabled, pair, epoch, burned>>

\* is_consumed = True.  Marking a row that a revocation deleted meanwhile
\* matches no row: StaleDataError, and the request fails.
RefreshConsume(c) ==
    LET t == req[c].tok
    IN  /\ req[c].pc = "consume"
        /\ IF row[t] = "deleted"
           THEN Done(c) /\ UNCHANGED row
           ELSE Goto(c, "issue") /\ row' = [row EXCEPT ![t] = "consumed"]
        /\ UNCHANGED <<version, frozen, mfaEnabled, pair, epoch, burned>>

-----------------------------------------------------------------------------
(* Handlers that revoke every session *)

\* POST /auth/logout takes any access token whose signature verifies, a
\* revoked one too; it deletes the rows in one commit and bumps in another.
LogoutStart(c, p) ==
    p \in Issued /\ MayRevoke(c) /\ Begin(c, "logout", "delete", FALSE)

LogoutDelete(c) ==
    /\ req[c].pc = "delete"
    /\ DeleteRows(Pairs)
    /\ Goto(c, "bump")
    /\ UNCHANGED <<version, frozen, mfaEnabled, pair, epoch, burned>>

LogoutBump(c) ==
    /\ req[c].pc = "bump"
    /\ epoch < MaxRevocations
    /\ version' = req[c].ver + 1
    /\ epoch' = epoch + 1
    /\ Done(c)
    /\ UNCHANGED <<frozen, mfaEnabled, pair, row, burned>>

PasswordStart(c, p) ==
    /\ Admitted(p) /\ PassesMfa(p)
    /\ MayRevoke(c)
    /\ Begin(c, "password", "commit", FALSE)

\* POST /auth/reset-password with a valid mailed link.
ResetStart(c) == MayRevoke(c) /\ Begin(c, "reset", "commit", FALSE)

\* Both write the bump in the commit that deletes the rows.
PasswordCommit(c) ==
    /\ req[c].op \in {"password", "reset"}
    /\ req[c].pc = "commit"
    /\ epoch < MaxRevocations
    /\ DeleteRows(Pairs)
    /\ version' = req[c].ver + 1
    /\ epoch' = epoch + 1
    /\ Done(c)
    /\ UNCHANGED <<frozen, mfaEnabled, pair, burned>>

\* An administrator's freeze, and a risk elevation that reaches critical for
\* an account it read as not frozen.
AdminFreezeStart(c) == MayRevoke(c) /\ Begin(c, "freeze", "commit", FALSE)

RiskFreezeStart(c) ==
    ~frozen /\ MayRevoke(c) /\ Begin(c, "elevate", "commit", FALSE)

\* Mutant of FreezeCommit: the rows go, the access tokens stay.
FreezeRowsOnly(c) ==
    /\ req[c].op \in {"freeze", "elevate", "travel"}
    /\ req[c].pc = "commit"
    /\ epoch < MaxRevocations
    /\ DeleteRows(Pairs)
    /\ epoch' = epoch + 1
    /\ frozen' = TRUE
    /\ Done(c)
    /\ UNCHANGED <<version, mfaEnabled, pair, burned>>

\* The login that raised the risk goes on with the User row it bumped itself.
FreezeCommit(c) ==
    LET r == req[c]
    IN  /\ r.op \in {"freeze", "elevate", "travel"}
        /\ r.pc = "commit"
        /\ epoch < MaxRevocations
        /\ DeleteRows(Pairs)
        /\ version' = r.ver + 1
        /\ epoch' = epoch + 1
        /\ frozen' = TRUE
        /\ IF r.op = "travel"
           THEN req' = [req EXCEPT ![c] = Snapshot("travel", "issue", NoPair,
                                                   r.ver + 1, FALSE, epoch + 1)]
           ELSE Done(c)
        /\ UNCHANGED <<mfaEnabled, pair, burned>>

-----------------------------------------------------------------------------
(* The rest of the account, time and failure *)

\* Mutant of Thaw: the end of a freeze hands the sessions back.
ThawRestores ==
    /\ frozen
    /\ frozen' = FALSE
    /\ version' = version - 1
    /\ UNCHANGED <<mfaEnabled, pair, row, req, epoch, burned>>

\* The hour passes, or an administrator unfreezes: token_version stays.
Thaw ==
    /\ frozen
    /\ frozen' = FALSE
    /\ UNCHANGED <<version, mfaEnabled, pair, row, req, epoch, burned>>

EnableMfa(p) ==
    /\ Admitted(p)
    /\ ~mfaEnabled
    /\ mfaEnabled' = TRUE
    /\ UNCHANGED <<version, frozen, pair, row, req, epoch, burned>>

DisableMfa(p) ==
    /\ Admitted(p)
    /\ mfaEnabled
    /\ mfaEnabled' = FALSE
    /\ UNCHANGED <<version, frozen, pair, row, req, epoch, burned>>

\* Seven days pass over an unconsumed row.
ExpireRow(p) ==
    /\ row[p] = "fresh"
    /\ row' = [row EXCEPT ![p] = "expired"]
    /\ UNCHANGED <<version, frozen, mfaEnabled, pair, req, epoch, burned>>

\* A handler dies between two commits: a locked database, a crash.
Abort(c) ==
    /\ ~Idle(c)
    /\ Done(c)
    /\ UNCHANGED <<version, frozen, mfaEnabled, pair, row, epoch, burned>>

Init ==
    /\ version = 1
    /\ frozen = FALSE
    /\ mfaEnabled = FALSE
    /\ pair = [p \in Pairs |-> [fam |-> p, parent |-> p, ver |-> 0, mfa |-> FALSE,
                                via |-> "login", born |-> 0]]
    /\ row = [p \in Pairs |-> "none"]
    /\ req = [c \in Clients |-> IdleRequest]
    /\ epoch = 0
    /\ burned = {}

Mint(c) ==
    \/ LoginStart(c) \/ TravelLoginStart(c) \/ OAuthStart(c)
    \/ \E p \in Pairs : TotpStart(c, p)
    \/ Issue(c)

Refresh(c) ==
    \/ \E p \in Pairs : RefreshStart(c, p)
    \/ RefreshReuse(c) \/ RefreshExpired(c) \/ RefreshCheck(c)
    \/ RefreshDrop(c) \/ RefreshConsume(c)

Revoke(c) ==
    \/ \E p \in Pairs : LogoutStart(c, p) \/ PasswordStart(c, p)
    \/ LogoutDelete(c) \/ LogoutBump(c)
    \/ ResetStart(c) \/ PasswordCommit(c)
    \/ AdminFreezeStart(c) \/ RiskFreezeStart(c) \/ FreezeCommit(c)

Next ==
    \/ \E c \in Clients : Mint(c) \/ Refresh(c) \/ Revoke(c) \/ Abort(c)
    \/ \E p \in Pairs : EnableMfa(p) \/ DisableMfa(p) \/ ExpireRow(p)
    \/ Thaw

Spec == Init /\ [][Next]_vars

-----------------------------------------------------------------------------
(* Properties *)

\* Every variable holds what its column or snapshot can hold.
TypeOK ==
    /\ version \in Nat
    /\ frozen \in BOOLEAN
    /\ mfaEnabled \in BOOLEAN
    /\ pair \in [Pairs -> PairInfo]
    /\ row \in [Pairs -> RowState]
    /\ req \in [Clients -> Request]
    /\ epoch \in Nat
    /\ burned \subseteq Pairs

\* Rotation carries a session on, it never upgrades it: every pair of a
\* family has the version and the MFA state the family was opened with,
\* whatever happened to the account while a rotation was under way
\* (core/tokens.py:156-188).
FamilyUniform ==
    \A p \in Issued :
        LET root == pair[p].fam
        IN  /\ root \in Issued
            /\ pair[p].ver = pair[root].ver
            /\ pair[p].mfa = pair[root].mfa

\* A token that is still accepted was minted from a User row read after the
\* last revocation committed: a login, rotation or MFA check that was under
\* way during a password change, reset, logout, freeze or reuse detection
\* yields a token that is dead on arrival (dependencies.py:71).
AcceptedPostdatesRevocation ==
    \A p \in Issued : Accepted(p) => pair[p].born = epoch

\* Once rejected for its version, a token is rejected for good: no later
\* step makes a revoked access or refresh token acceptable again
\* (routes/auth.py:329-335, routes/user.py:87-93).
RevokedStaysRevoked ==
    [][\A p \in Pairs : (p \in Issued /\ ~Accepted(p)) => ~Accepted(p)']_vars

\* The sessions of the account are the ledger's: they open once, close
\* together and stay closed (core/security.py:99-102).
Ledger == INSTANCE SessionLedger WITH
              Session <- Pairs,
              open    <- {p \in Pairs : Accepted(p)},
              closed  <- {p \in Issued : ~Accepted(p)}

ImplementsLedger == Ledger!Spec

\* A refresh token is exchanged at most once (core/tokens.py:8).
SingleUse ==
    \A p, q \in Issued :
        (pair[p].via = "refresh" /\ pair[q].via = "refresh"
            /\ pair[p].parent = pair[q].parent) => p = q

\* Detected reuse ends the family: none of its tokens is accepted again, not
\* even a child whose rotation was half done when the theft was noticed
\* (core/tokens.py:113-137).
BurnedFamilyIsDead == \A p \in Issued : pair[p].fam \in burned => ~Accepted(p)

\* A freeze leaves no session to come back to, whatever logins, rotations and
\* MFA checks were under way: while the account is frozen only the family of
\* the login that froze it is accepted (detection/account_risk.py:218-219), an
\* exception the code makes where it mints after its own elevation.
FrozenNoSession ==
    frozen => \A p \in Issued : Accepted(p) => pair[pair[p].fam].via = "travel"

\* The mark mfa_verified comes from a TOTP code or from an OAuth callback, which
\* sets it for an account without MFA (db/models.py:282): no rotation and no
\* password login brings it in.
MfaTraced ==
    \A p \in Issued : pair[p].mfa => pair[pair[p].fam].via \in {"totp", "oauth"}

=============================================================================
