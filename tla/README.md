# Zero-trust secure API gateway: a TLA+ verification project

This directory holds a formal model of the gateway in `src/gateway`: TLA+
modules, TLC configurations that check them on small instances, and proofs that
TLAPS checks for every value of the constants. Paths below are relative to
`src/gateway` unless they start with `frontend`.

## 1. Inventory

The gateway is one asyncio process (FastAPI on SQLite through async
SQLAlchemy). Every request is a coroutine; between two `await`s any other
request may run, and nothing locks an account. A request-scoped database
session reads a row once and never refreshes it (`expire_on_commit=False`,
`autoflush=False`, `db/database.py:31-37`), so most of the hard behaviour is a
handler working from a row that others have changed since.

| component | source | state | operations | what makes it correct |
|---|---|---|---|---|
| Token pairs | `core/tokens.py`, `core/security.py` | `refresh_tokens` rows (hash, family, consumed, version, MFA state); JWT claims | create a pair, rotate, detect reuse, revoke all | a refresh token is used once; reuse kills its family; rotation never upgrades a session; revocation is final |
| Login, logout, reset | `routes/auth.py` | `users.token_version`, `password_resets` | login (with impossible-travel check), refresh, logout, forgot/reset | a login under way during a revocation yields nothing; a reset link works once |
| OAuth | `routes/oauth.py` | users | callback | same gates as the password login; no MFA claim without a code |
| MFA | `routes/mfa.py` | `mfa_enabled`, secret, step-up columns | setup, verify-setup, verify, disable | `mfa_verified` means a code was checked; a step-up demand is met by whoever passes it |
| Authentication gate | `dependencies.py` | none (reads the user row) | version, freeze, MFA and step-up checks; API keys | no revoked, frozen or unverified caller passes |
| Account risk | `detection/account_risk.py` | score, its timestamps, step-up flag and date, freeze end, `account_freezes` | elevate, decay, apply policy, freeze check and clean-up | a freeze lasts and ends every session; demand and date agree |
| User administration | `routes/user.py` | users and their rows | password, freeze, unfreeze, role, delete, block/unblock IP | one administrator remains; a freeze survives until lifted |
| API keys | `routes/apikeys.py`, `core/apikeys.py` | `api_keys` rows; failures and blocks per IP | create, rename, revoke, rotate; guard | active names are unique; revocation is terminal; five failures block |
| Rate limiter | `middleware/rate_limit.py` | a window of timestamps per client (Redis or memory) | admit, refuse, evict | never more than the limit in a window |
| IP blocker | `middleware/ip_blocker.py` | WAF hits per IP, `blocked_ips` rows | count, block, check, expire | a block in force refuses; expiry removes only what expired |
| Risk scoring | `middleware/risk_scoring.py` | request times per IP, events | score, evict, elevate | the decision follows from the parts |
| WAF | `middleware/waf.py` | none | match, report | hits reach the blocker and the risk engine |
| Audit log | `middleware/logging.py`, `observability.py` | `audit_logs`, counters | classify, write, elevate | every request leaves a row |
| Behaviour | `detection/behavior.py`, `detection/ml_anomaly.py` | event windows, profiles, cached models | count, profile, fit, evict | a window counts what happened |
| Services and proxy | `routes/services.py`, `routes/proxy.py` | `services` rows | register, update, revoke, reactivate, delete, resolve | a name resolves to at most one service |
| Attack lab | `routes/attack_lab.py`, `detection/attack_sim.py` | running flag, task, counters, sockets | start, stop, stream | one engine at a time; the cap holds |
| Browser client | `frontend/js/api.js`, `frontend/js/pages/stepup.js` | tokens in local storage | request, single-flight refresh | one refresh per token |

How they interact: the middlewares run in the order IP blocker, security
headers, logging, risk scoring, rate limiter, WAF (`main.py`), then a route with
its dependency. Risk scoring, logging and `login` call `elevate_account_risk`,
each with a database session of its own or the request's; that function may
freeze the account and revoke its sessions while other requests of the same
account are between two awaits. Token pairs, the account row and the risk
engine meet in one column, `users.token_version`. That is why sessions come
first here.

The hard behaviours, each at its line, are the `hazards` of `PROJECT.json`,
with the property that catches each or the reason why none does.

## 2. The modules

| module | what it is about | proofs |
|---|---|---|
| **Sessions**, **SessionLedger** | token pairs, rotation, every revocation, MFA state, the freeze as sessions see it; the ledger is the abstract specification | SessionsProofs |
| **AccountRisk** | the step-up demand, the freeze, its clean-up, unfreeze, and the gate that enforces them | AccountRiskProofs |
| **RiskScore** | the stored score and its decay | DetectionProofs |
| **ApiKeys**, **KeyLife** | create, update, revoke and rotate against each other; KeyLife is the abstract life of a credential | ApiKeysProofs |
| **Windows** | the sliding window that KeyGuard, RateLimiter and Perimeter cut their timestamps with | WindowProofs, PerimeterProofs |
| **KeyGuard** | the brute-force guard of API keys | WindowProofs |
| **RateLimiter** | the Redis window shared by the workers, the store each falls back to, outages, eviction | WindowProofs |
| **RequestScore**, **Perimeter** | what one request scores; the block list, the scorer and the WAF as one address meets them; Perimeter extends RequestScore | PerimeterProofs |
| **Registry** | accounts with their roles, the services they own, and where the proxy sends a name | RegistryProofs |
| **Behaviour**, **Anomaly** | the verdict on a profiled request; histories, forests, the fit worker and the files behind it; Anomaly extends Behaviour | DetectionProofs |
| **AttackLab** | runs of the simulator that overlap their predecessors, their connection pools, the capped sockets | AttackLabProofs |

Each `MC` module adds model values, symmetry and the sets that a `.cfg` cannot
write. The modules meet where components do: the tokens a freeze revokes are in
Sessions and the freeze itself in AccountRisk; the score of AccountRisk is
RiskScore; the step-up demand that a band calls for, and everything that lifts it, is AccountRisk's
alone; the elevations of RequestScore and Behaviour are the `ElevateStart` of
AccountRisk; Perimeter leaves open whether the rate limiter refuses.

DetectionProofs extends both Anomaly and RiskScore, and WindowProofs both
RateLimiter and KeyGuard; the names that would clash have a prefix in RiskScore
and KeyGuard (`ScoreSpec`, `GuardSpec`).

Several modules have a constant `Races` (`Overlaps` in RiskScore): the overlaps a
behaviour may contain. The code serialises nothing, so with every race allowed the model is the code;
with fewer, the behaviours are those in which that overlap does not happen. A
property that an overlap breaks is checked, and proved, without it: that states
exactly which overlap is to blame, and that nothing else is.

## 3. The Sessions model

`Sessions.tla` is one account. A token pair (access token and refresh token
minted together by `create_token_pair`) is an identity in `Pairs`; `pair[p]` is
what the JWT claims and the `refresh_tokens` columns say, `row[p]` what became of
the row (`fresh`, `expired`, `consumed`, `deleted`). `version`, `frozen` and
`mfaEnabled` are the columns of `users`. `req[c]` is the handler a client has in
flight: its next step and the snapshot of the user row it works from.

Handlers are cut where the coroutine goes to the database and another may
commit first:

| handler | actions |
|---|---|
| `POST /auth/login` | `LoginStart` (read, password, freeze check), `Issue`; with an impossible-travel flag that reaches critical: `TravelLoginStart`, `FreezeCommit`, `Issue` |
| OAuth callbacks | `OAuthStart`, `Issue` |
| `POST /auth/mfa/verify` | `TotpStart`, `Issue` |
| `POST /auth/refresh` | `RefreshStart`, then `RefreshReuse`, or `RefreshExpired`, or `RefreshCheck` followed by `RefreshDrop` or by `RefreshConsume` and `Issue` |
| `POST /auth/logout` | `LogoutStart`, `LogoutDelete`, `LogoutBump` |
| password change, reset | `PasswordStart` or `ResetStart`, `PasswordCommit` |
| administrator freeze, risk freeze | `AdminFreezeStart` or `RiskFreezeStart`, `FreezeCommit` |
| unfreeze, end of the freeze | `Thaw` |
| MFA on and off | `EnableMfa`, `DisableMfa` |
| time, failure | `ExpireRow`, `Abort` |

Points a reader of the code may want confirmed:

- A revocation writes `snapshot version + 1` (`user.token_version = (... or 1) + 1`
  on the row the handler read), except reuse detection, whose DELETE takes
  SQLite's write lock before it reads the user row.
- Password change and reset commit the bump together with the deleted rows,
  because `revoke_all_user_tokens` commits the shared session; logout deletes in
  one commit and bumps in the next.
- `RefreshConsume` on a row deleted meanwhile raises `StaleDataError`: the
  request fails.
- `/auth/logout` accepts any token whose signature verifies, a revoked one too.
- `/auth/refresh` has no freeze check; what protects a frozen account is that
  the freeze revoked everything.
- An access token never expires in the model. The code expires it after 30
  minutes; the model therefore has more behaviours.

`Races` is a subset of `{"revocation", "rotation"}`: revocations of the account
that overlap, and rotations of one token that do. What they break is in
section 9.

`epoch` and `burned` are history variables: the number of revocations committed,
and the families in which reuse was detected. Neither guards an action except
through the bound `MaxRevocations`; `MaxSignIns` bounds the families opened.

`SessionLedger.tla` is the abstract promise: sessions open once, all open
sessions close together, and nothing reopens. `Ledger` in `Sessions.tla` maps a
session to a pair, open to "the version check accepts it".

## 4. The account risk models

`AccountRisk.tla` is what follows from the risk of one account. `user` holds the
columns `token_version`, `stepup_required`, `stepup_since` and
`account_frozen_until`; `row` is the `account_freezes` row that administrators
see; `session` the access tokens clients keep. A handler works from `snap`, the
row it read, and an UPDATE writes only the columns it changed there, as
SQLAlchemy does.

| code | actions |
|---|---|
| `elevate_account_risk` with `apply_risk_policy` | `ElevateStart`, then `ElevateFreeze`, `ElevateStepup`, `ElevateClear` or `ElevateOnly` by the band it reaches |
| a sensitive route behind `require_authenticated_user` | `SensitiveStart` (version and MFA check), `Check` (`is_user_frozen` with its clean-up, then the step-up gate), `Respond` |
| `POST /auth/login` | `LoginStart`, `Check`, `Mint` |
| `POST /auth/mfa/verify` | `TotpStart`, `Check`, `Verify` (lifts the demand), `Mint` |
| administrator freeze and unfreeze | `AdminFreezeStart`, `AdminFreeze`; `UnfreezeStart` (the users row), `UnfreezeRead` (the freeze row, in a second query), `Unfreeze` |

The band an elevation reaches is any band: what the score does is
`RiskScore.tla`. The two-second cooldown and the exemption of administrators
from the automatic freeze only drop an elevation (`ElevateOnly`, or no step at
all). `Unfreeze` deletes the `account_freezes` row by the id it read; SQLite may have
given that id to a newer row, so the newer row goes or stays. A tick is the duration of a freeze
divided by `FreezeTicks`.

`lock`, `demand` and `met` are history: the end of the freeze in force, the last
step-up demand that risk or an administrator has not withdrawn, and the last
right code given for the account.

`RiskScore.tla` is the score on a grid: a tick is the four-hour half-life, and
one unit is the smallest score that counts. Halving whole units keeps the law
the code relies on, that decaying twice is decaying once over the sum of the
times, and the run would notice if an anchor were left behind. The
seven-day cut to zero is the end of the halving. `peak` is the history of the
last event.

What the overlaps break:

- a freeze overlapping a handler that read an earlier, expired freeze can be
  erased by that handler's clean-up (`FreezeHolds`, `ShownIsEnforced`);
- a freeze committed between the two reads of an unfreeze has its row deleted,
  while the column, empty in the row that was read, is not written: the account
  stays frozen and no row shows it. No overlap that `Races` can exclude is needed, so
  `ShownIsEnforced` states one direction only: a row that is shown is in force;
- an elevation overlapping a handler that lifts the demand may leave the account
  in the step-up band without one: it writes a demand only if the row it read
  had none (`ElevationDemands`, which the run therefore does not check: it has
  this overlap, `Races = {"stepup"}`, for `StepupPaired` and `AccountReverified`);
- an elevation overlapping another elevation or a decay loses a contribution:
  `OnCurve` is checked without that overlap.

No property relates the demand to the score: an elevation, an unfreeze and a right
code lower the demand, the decay of the score does not.

## 5. The API key models

`ApiKeys.tla` is one account's `api_keys`. The plaintext and hash of a key are its
identity, its name stands for every column the owner may change, and `root`, the
first key of its lineage, is history. `CreateStart` and `Create`, `UpdateStart`
and `Update`, `RevokeStart` and `Revoke`, `RotateStart` and `Rotate` are the halves
of each handler before and after its last await; `Expire` lets the expiry that a
lineage shares pass, `Abort` ends a handler before its commit. `KeyLife.tla` is the
abstract promise: a key and the keys rotated from it are one credential, which
begins once and ends for good. `Life` maps a credential to the first key of a
lineage, live to "some key of it is accepted".

`Races` is `{}` or `{"rotate"}`; everything but a rotation overlaps freely. A
rotation past its `revoked_at` check that overlaps a revocation gives a revoked
key an active successor, and two that overlap give a key two
(`ImplementsLife`, `OneActiveKey`). A PATCH looks for no other key of its name,
and creations may overlap, so the model claims no uniqueness of names: with two
rows of a name the duplicate check of the next creation raises.

`KeyGuard.tla` is the brute-force guard of one address: `Check` is
`is_ip_blocked`, `Fail` is `record_failure` after the lookup found no key, `Leave`
everything else. Both functions hold a lock, so each is one action, but requests
that passed the check go on failing after a block. `failed` is the history of
every failure. `reset_ip` has no caller in the gateway and is left out.

## 6. The perimeter models

`RateLimiter.tla` is `middleware/rate_limit.py` in several workers. A worker
decides one request at a time, but a decision by Redis is two round trips, `Pipe`
(the transaction that cuts, counts and adds) and, for a refusal, `Drop` (take the
member out again); `FallBack` is a failure of either, after which the worker
decides from its own store (`Memory`, with `Survivors` for `_evict_idle_keys`).
`Outage` and `Recovery` happen between any two of them. `served` is the history of
admissions, by store.

- `Races` may hold `"outage"` (on in the run), `"stamp"` (two requests with the same
  timestamp share one member of the sorted set, so the count is short and a
  refusal takes the other's entry out) and `"stall"` (time passes between the clock
  reading and the transaction, so entries arrive out of order).
- With a shared Redis and falling back, one client can be admitted by each
  worker's store and by Redis in one window: (workers + 1) times the limit,
  where the comment at `middleware/rate_limit.py:203-205` counts the workers only.
  `StoreLimit` is therefore per store.

`RequestScore.tla` is the arithmetic of `middleware/risk_scoring.py` in
thousandths, `Perimeter.tla` one address in front of it. A request goes through
`Pass`, `FailOpen`, `Refuse` or `Lapsed` and `CleanUp` (`IPBlockerMiddleware`),
`Screen` (risk scoring, then the rate limiter, which may refuse), `Hit` (the WAF's
hit count) and, at the threshold, `AutoRead` and `AutoBlock`, `AutoLose` or
`AutoFail`; the administrator has `BlockStart`, `Block`, `UnblockStart`, `Unblock`,
`AdminLose`. `Races = {"cleanup"}` lets a clean-up of an expired row overlap a write
of the row; the clean-up then deletes the extended block and `BlockHolds` fails.

What a reader may want confirmed: an automatic block overwrites the end of a
longer or permanent block of an administrator; of two simultaneous inserts at the
threshold one is swallowed; an unblock does not reset the hits, so the next one
blocks again; a 403 of the IP blocker is not logged, although `main.py:136` has
every outcome recorded; `ip_blocker.py:44` speaks of a threshold "exceeded", which
the code takes as reached. The behaviour risk belongs to the
address, so the burst of one client charges the account of another:
`NormalUseHarmless` holds short of a burst only.

`RateAloneBlocks` is what the docstring of the scorer says
(`risk_scoring.py:15-17`): in a burst, a client with a clean token and clean headers
can be blocked. The run `perimeter_rate` refutes it, see section 9. What the code does
instead is `HonestNeverBlocked`, which is proved for every count and all bands.

## 7. The registry, anomaly and attack lab models

`Registry.tla` has the accounts (`role`), the `services` rows (`svc`) and the
handlers of `routes/services.py` and of the role and deletion routes of
`routes/user.py`, each from its read to its commit. `Route` is the resolution of
`routes/proxy.py`: two queries in one `try`, the service's row and then its owner's,
each of which may be answered or raise (`Answers`). An exception is swallowed; whether
the static route then serves the name depends on whether the row had been found.
SQLite gives freed ids out again, so a service or an account may
get the id of a deleted one (`Join`); `gen` is the history that tells accounts of
one id apart. Each race breaks one property:

| race | what overlaps | breaks |
|---|---|---|
| `"admins"` | two demotions or deletions, each counting two administrators | `AdminRemains` |
| `"names"` | two claims of one name | `RegisteredShadowsStatic` |
| `"row"` | a change of a service and its deactivation: a deactivation that read "inactive" writes nothing | `DeactivatedUnrouted` |
| `"inherit"` | the deletion of an account and a registration by it | `NoInheritance` |
| `"purge"` | `_purge_user_rows` skipping the services: an error of one table is swallowed | `NoInheritance` |

Registering over an inactive row of the same name leaves two rows; the lookup then
raises like a failing query for the row, and the name falls to its static route
or to 404. `RegisteredShadowsStatic` excepts those names (`reused`) and that failure
(`"no row"`); it and `DeactivatedUnrouted` cover the failure of the owner's
query (`"no owner"`), after which nothing is routed. A deleted
service with a demo route of its name keeps being proxied to that route, although
`routes/proxy.py:226-228` says that removal takes effect.

`Behaviour.tla` is the verdict of `detection/behavior.py` on one request, in
hundredths and thousandths; `Anomaly.tla` the state behind it. `Observe` is
`score_user` with its critical section and the profile update; the worker's fit is
`Snapshot`, then `Short`, `FitFail` or `Land`, and its file is `Open`, `Dump`, `Sign`
or `PersistFail`; `Restart` is a crash at any of these points and the load that
follows, `RotateKey` a start with another signing key. `models[u]` is the number of
samples the forest was fitted on and `work.size` that of the copy under way; a file is
what its bytes hold (`data`) and whether the signature beside it is that of these
bytes (`sig`). `ModelsFitted` is about each model, not about its user: a refit of
what an eviction or a restart left must not leave a model of too few samples, and
no file that is half written, unsigned or under the signature of an earlier one may
be loaded. With `Races = {"evict"}` a fit
under way brings back the model of a user evicted meanwhile (`MemoryBounded`
fails; `ml_anomaly.py:198,204`). The baseline is clamped to 10, so the spike
threshold is always 40; reading the failure window records a failure, so
every profiled request counts as one (`behavior.py:119`), which is why
`SpikeNotMasked` is worth asking; a crash while a model is written over an earlier
one loses the earlier one, which no property forbids.

`AttackLab.tla` has one object (`running`, `task`, `client`) shared by the tasks of
all runs. `Start` and `Stop` are the routes, `Begin`, `Resume` and `Reply` the
suspensions of a task. A task cancelled before its first step never runs its
finally block; one cancelled later clears the flag in it, whichever run the flag
now stands for (`attack_sim.py:197`). A run that ends by its deadline leaves its
pool open and the next start drops the reference, against the comment at
`attack_sim.py:158-159`. `overlaps`, `expired` and `foreign` are the history that
measures this: `FlagMeansEngine`, `PoolsReleased` and `CountsOwn` say that
nothing else goes wrong. Sockets go through `Knock`, `Accept` or `AcceptFail`, and
`Close`; the cap is checked before the handshake and counted after it, so handlers
suspended in `accept()` overtake it (`late`).

## 8. Runs that pass

| run | question |
|---|---|
| `sessions` | Every operation, overlapping rotations allowed: does a family keep version and MFA state (`FamilyUniform`), is a family dead after detected theft (`BurnedFamilyIsDead`), was every accepted token minted from a row read after the last revocation (`AcceptedPostdatesRevocation`), is every session gone while frozen but that of a login that froze its own account (`FrozenNoSession`), does `mfa_verified` come from a code or a provider (`MfaTraced`), do the handlers implement the ledger (`ImplementsLedger`)? |
| `account_policy` | Every operation on an account with two sessions: does a freeze last (`FreezeHolds`), is a freeze that administrators see in force (`ShownIsEnforced`), do flag and date of a demand agree (`StepupPaired`), was a code given before anyone passes one (`AccountReverified`)? |
| `risk_decay` | Three requests persisting decay at once: does the score stay on the curve of the last event (`OnCurve`)? |
| `apikeys_lifecycle` | Every operation, rotations alone: one active key per lineage (`OneActiveKey`), a final end (`ImplementsLife`), no late commit that brings a revoked key back (`RevokedStaysRevoked`)? |
| `keyguard_window` | Three requests around the window: do `FailLimit` failures block (`GuardBlocks`), does nothing less (`BlockEarned`)? |
| `ratelimit_windows` | Two workers, a Redis that goes and comes: is the limit of each store kept (`StoreLimit`), do refusals leave nothing behind (`RefusalsLeaveNoTrace`), is Retry-After enough (`RetryHonest`), is memory bounded (`StoreBounded`)? |
| `perimeter_block` | Two requests and an administrator: does a block last (`BlockHolds`), does a flood end in one (`FloodIsBlocked`), is ordinary use left alone (`NormalUseHarmless`)? |
| `registry_owners` | Two overlapping handlers: does an administrator remain (`AdminRemains`), does a registered name win over a static route, the owner's query failing included (`RegisteredShadowsStatic`), is a deactivated service out of traffic (`DeactivatedUnrouted`), does no account inherit services (`NoInheritance`)? |
| `anomaly_models` | Three users for two places, faults at every step: is memory bounded (`MemoryBounded`), is every model fitted on enough samples, in memory and in any file a start would load (`ModelsFitted`), is a spike reported (`SpikeNotMasked`), does every fit end (`FitsFinish`)? |
| `attacklab_runs` | Restarts that overtake dying tasks: does the flag mean an engine (`FlagMeansEngine`), are pools released (`PoolsReleased`) and counters a run's own (`CountsOwn`), is the socket counter exact and the cap kept (`SocketsBounded`), does everything end (`EverythingEnds`)? |

Bounds.

- Sessions: two clients suffice for every pairwise interleaving of handlers.
  Three pairs and two sign-ins make a login, its child and a grandchild, or two
  families of which one rotates. One revocation in the passing run is enough to
  catch what was read before it and is minted after; chains of revocations are
  covered by the theorems, which hold for any number. The lost update needs
  three clients and three revocations.
- AccountRisk: two requests for the pairwise interleavings; two sessions, so that
  one can meet a demand for the other; a clock of three ticks and freezes of one,
  so that a freeze ends and another follows; two version bumps. Liftings of the
  demand overlap elevations; a freeze and a handler that read an earlier one do not.
- RiskScore: three requests, since two decays may overlap a third; a score of
  twenty units, events of three and six, five half-lives, after which every score is zero.
- ApiKeys: three keys make a rotation of a rotated key, or a lineage and a second
  key; two names, so that a change is visible; two clients.
- KeyGuard: a limit of three, a window of two ticks and a block of four, so that
  attempts leave the window, and two blocks follow each other; six failures are
  two full windows. A failure whose block would outlast the clock is not taken.
- RateLimiter: two workers, so that round trips interleave and each has a store;
  a bucket of limit two and two of limit one, against a cap of one key,
  so that eviction has a choice; a window of two in a clock of four, five requests:
  every window is filled, slides and is filled again.
- Perimeter: two requests in flight and the administrator; a threshold of two, a
  block of three in a clock of five, so that a block expires and is renewed; bands
  at one, two and four requests; four requests and calls; two row ids, so that one
  is reused. `Stall` is the longest a commit takes after its WAF hit; the assumption
  `HitWindow + Stall < BlockTime` holds by orders of magnitude for the code's window
  and block of minutes.
- Registry: three accounts, so that two administrators can act on each other and
  a third be spared; two names, one of them static; two service ids, so that a name
  can be reused and an id given out again; five calls; each account id reused once.
- Anomaly: three users for two places; two samples to fit and to keep; four
  requests and two faults (crashes, failed fits, failed writes, new keys), so that a
  write can be cut short over an earlier file and a start then load what is left.
  The inputs are a calm request and a flood.
- AttackLab: three runs, so that a third may overlap two dying tasks; batches of one
  or two requests; a duration and a lifetime of nought, which is one tick until the
  deadline has passed; two handlers for one socket.

Equal model values are symmetric where a run has no fairness. No run disables the
deadlock check.

Fairness. `Anomaly` assumes `WF_vars(Worker)`: the executor has one thread, which is
scheduled as long as a fit is queued or under way, and none of its steps waits for
another actor. `AttackLab` assumes weak fairness of each task's step (the event loop
resumes a task whose sleep or request is over, and requests time out after five
seconds), of each handshake, of closing a socket past its lifetime, and of time.
`Start`, `Stop`, requests, faults and clients carry none. The other components retry
nothing and promise no progress, so no liveness is claimed of them.

## 9. Where code and documents disagree

The run `sessions_lost_update` allows revocations to overlap, and TLC finds
`RevokedStaysRevoked` violated: a slow revocation writes the `token_version` it read
plus one over later bumps, and rejected tokens are accepted again, where
`routes/auth.py:391-392` says that outstanding access tokens "are immediately
rejected".

The run `perimeter_rate` finds `RateAloneBlocks` violated: with a verified token and
clean headers a burst scores 0.05 x 0.30 + 0.90 x 0.40 + 0.25 = 0.625, and 0.79 if the
token is about to run out. Both are below the 0.80 that blocks, so the request is
monitored or challenged, while `middleware/risk_scoring.py:15-17` says that such a
client "can be blocked on request rate alone". These two are the findings of
`PROJECT.json`.

Other divergences are stated here and in the conditions of the properties:

- Two simultaneous refreshes of one token both get a pair (`SingleUse` fails with
  `"rotation"` among the races), against `core/tokens.py:8`.
- The login that freezes its own account (impossible travel) still gets a pair of
  the new version, even when nothing else runs: `FrozenNoSession` excepts the
  family of such a login.
- An OAuth login of an account without MFA yields `mfa_verified = True`
  (`routes/oauth.py:221`), which outlives enabling MFA: `MfaTraced` admits the
  families of OAuth logins.
- One session's code opens the gate to another session whose token is older than
  the demand, against `core/security.py:104-106`: `AccountReverified` therefore
  speaks of the account, not of the session.
- `decay_and_persist` lowers the score without applying the policy, so a demand
  outlives the risk that caused it, although the repository's `README.md:250` gives
  a low score full access.
- An unfreeze that reads the users row before a freeze and the freeze row after it
  deletes the row, answers that the account is unfrozen and leaves it frozen
  (`routes/user.py:128`, `135-138`), although `detection/account_risk.py:317-318` has
  the rows "kept in sync".
- `is_user_frozen` counts a failing query as "not frozen"
  (`detection/account_risk.py:353-355`). The models leave that failure out: what they
  say of a frozen account presumes that its check gets an answer.
- A lookup of the proxy that fails before it found the row sends a registered name to
  its static route, an inactive or orphaned one too, although
  `routes/proxy.py:270-271` falls back "only if the service has never been registered in
  the DB".
- The repository's `README.md:254` describes the freeze as IP-scoped; the code
  freezes the account, which is what is modelled.
- The attack lab's own token has `mfa_verified=True`, although the comment at
  `routes/attack_lab.py:66-70` says it is not set, and the token check of its
  socket looks at neither `token_version` nor the freeze; both lie outside Sessions.

## 10. Proofs

`SessionsProofs.tla` proves, for every `Clients`, `Pairs`, `Ops`, `Races` and
bound satisfying the named assumptions of `Sessions.tla`:

| theorem | result | assumption on the overlaps |
|---|---|---|
| `TypeCorrect` | `[]TypeOK` | none |
| `FamilyIsUniform` | `[]FamilyUniform` | none |
| `AcceptedIsRecent` | `[]AcceptedPostdatesRevocation` | revocations do not overlap |
| `BurnedIsDead` | `[]BurnedFamilyIsDead` | revocations do not overlap |
| `RevocationIsFinal` | `RevokedStaysRevoked` | revocations do not overlap |
| `SessionsImplementLedger` | `ImplementsLedger` | revocations do not overlap |
| `RefreshIsSingleUse` | `[]SingleUse` | rotations of one token do not overlap |
| `MfaIsEarned` | `[]MfaTraced` | none |
| `FreezeEndsSessions` | `[]FrozenNoSession` | revocations do not overlap |

The argument, by its inductive invariants:

- `FamilyInv`: `FamilyUniform` is not inductive alone, since `Issue` copies the
  snapshot of a request. The invariant adds that a rotation past its check holds
  the version and MFA state of the token it presented.
- `RevocationInv`: with revocations serialised `version = epoch + 1`; a
  revoking request that has yet to bump holds the current version; and whatever
  was minted or is about to be carries `ver = born + 1` with `born <= epoch`. An
  accepted pair therefore has `born = epoch`, and a bump leaves every
  issued pair behind for good, which is also why the ledger is implemented.
- `BurnedInv`: a burned family has an issued root whose version is below the
  current one; with `FamilyInv` no member of the family is accepted, half minted
  children included.
- `RotationInv`: with rotations of one token serialised, a token with a rotation
  past its consumption has no child yet, and a token still fresh or in a check
  has none either; so a token gets one child.
- `MfaInv`: only a TOTP code, an OAuth callback or the rotation of a token that one of
  them opened carries `mfa_verified` into a new pair; with `FamilyInv` a
  rotation hands on what its family has, whatever races.
- `FreezeInv`: while the account is frozen, every issued pair, and every version
  that a login or a rotation under way will mint with, is below the current
  one, unless it is of the family of a login that froze the account itself. A freeze commits flag and bump together, and with `RevocationInv` that bump
  leaves behind whatever was read before it. Nothing new is read while the freeze
  lasts: a login refuses, a code needs an accepted token, and a rotation
  compares its token with the version.

The exceptions in the two properties are the divergences of section 9: an OAuth login
is marked `mfa_verified` without a code, and the login that freezes its own account
still gets its pair.

`AccountRiskProofs.tla` proves, for every `Requests`, `Sessions`, `Ops`, `Races`,
`MfaEnabled`, duration of a freeze and bound:

| theorem | result | assumption on the overlaps |
|---|---|---|
| `TypeCorrect` | `[]TypeOK` | none |
| `PairedAlways` | `[]StepupPaired` | none |
| `DemandIsMet` | `[]AccountReverified` | none |
| `FreezeLasts` | `[]FreezeHolds` | no freeze overlaps a handler that read an earlier one |
| `ShownFreezeStands` | `[]ShownIsEnforced` | the same |
| `ElevationLeavesDemand` | `ElevationDemands` | no elevation overlaps a handler that lifts the demand |

- `StepupInv`: what keeps flag and date together is that every handler read a
  row in which they were together, so that clearing "what was set in the row I
  read" clears both or neither. `Answered` ties the history to the row: a demand
  is in force with its date in the row, or a code was given since. A handler
  holds the same of the row it read, and the gate turns it into
  `AccountReverified`.
- `FreezeInv`: a handler that read a freeze finds in the column that freeze or
  none, and no freezing handler beside it. So whatever it clears is the freeze
  it read, which was over. An unfreeze that read a freeze in the column and is
  about to commit finds the freeze row it read, or none.
- `DemandInv`: an elevation and a handler that lifts the demand are never under
  way together, so a demand that an elevation found in the row it read is there
  when it commits, and it is right to write none.

The run `account_policy` checks `StepupPaired` and `AccountReverified` with the
overlaps of elevations and liftings; the theorems give them with every overlap.
`ElevationDemands` is a theorem only.

The proofs of the other components, each for every value of the constants under
the named assumptions of its module:

| module | theorem | result | assumption on the overlaps |
|---|---|---|---|
| ApiKeysProofs | `TypeCorrect` | `[](TypeOK /\ Worked)` | none |
| | `RevocationIsFinal` | `RevokedStaysRevoked` | none |
| | `OneKeyActive` | `[]OneActiveKey` | rotations run alone |
| | `LineageIsACredential` | `ImplementsLife` | rotations run alone |
| WindowProofs | `LimiterTypeCorrect` | `[]TypeOK` of RateLimiter | none |
| | `StoreStaysBounded` | `[]StoreBounded` | none |
| | `RetryIsHonest` | `[]RetryHonest` | none |
| | `StoresKeepLimit` | `[]StoreLimit` | not `"stamp"`; stalls and outages allowed |
| | `RefusalsAreTraceless` | `[]RefusalsLeaveNoTrace` | the same |
| | `GuardTypeCorrect` | `[]GuardTypeOK` | none |
| | `GuardBlocksWhoFails` | `[]GuardBlocks` | none |
| | `BlocksAreEarned` | `[]BlockEarned` | none |
| PerimeterProofs | `TypeCorrect` | `[]TypeOK` | none |
| | `OrdinaryUseIsHarmless` | `[]NormalUseHarmless` | none |
| | `HonestIsNeverBlocked` | `[]HonestNeverBlocked` | none |
| | `BlocksHold` | `[]BlockHolds` | no clean-up overlaps a write |
| | `FloodsAreBlocked` | `[]FloodIsBlocked` | the same |
| RegistryProofs | `TypeCorrect` | `[]TypeOK` | none |
| | `AnAdminRemains` | `[]AdminRemains` | not `"admins"` |
| | `RegisteredFirst` | `[]RegisteredShadowsStatic` | not `"names"` |
| | `NoTrafficWhenOff` | `[]DeactivatedUnrouted` | not `"row"` |
| | `NobodyInherits` | `[]NoInheritance` | neither `"inherit"` nor `"purge"` |
| DetectionProofs | `AnomalyTypeCorrect` | `[]TypeOK` of Anomaly | none |
| | `ModelsAreFitted` | `[]ModelsFitted` | none |
| | `SpikeIsNotMasked` | `[]SpikeNotMasked` | none |
| | `MemoryIsBounded` | `[]MemoryBounded` | nobody is evicted while his model is fitted |
| | `ScoreTypeCorrect` | `[]ScoreTypeOK` | none |
| | `ScoreOnCurve` | `[]OnCurve` | an elevation or a reset overlaps nothing; decays overlap freely |
| AttackLabProofs | `TypeCorrect` | `[]TypeOK` | none |
| | `FlagIsEngine` | `[]FlagMeansEngine` | none |
| | `PoolsAreReleased` | `[]PoolsReleased` | none |
| | `CountsAreOwn` | `[]CountsOwn` | none |
| | `SocketsAreBounded` | `[]SocketsBounded` | none |

The inductive invariants:

- ApiKeys. `Worked`: a handler under way works on a row that exists. `LineInv`: the
  root of a key exists, at most one key of a lineage has an active row (expired or
  not: expiry ends the whole lineage), and a rotation finds its key as active as it
  read it, because it runs alone. The refinement lemmas map a creation to
  `KeyLife`'s beginning and every other step to an end or a stutter.
- RateLimiter. `StoreInv`: what eviction leaves is within the cap, and one request
  adds one window. No assumption on activity is needed, which is the point:
  eviction drops active windows too. `MemoryInv` adds that a window in memory is no
  longer than its limit and that what was admitted from it is what it holds of the
  last window; `RetryHonest` follows, since at the promised time the oldest entry of
  a full window is out. `RedisInv` is about the shared set: it has every admission
  of the last window (`BucketInv`), so an admission, which is granted when the set
  is small enough, keeps the limit; what else it has belongs to a refusal that is
  under way or was cut short; and every request under way has a timestamp of its
  own (`PendingInv`), so taking one out takes nobody else's.
- KeyGuard. The deque is emptied when it blocks, so what it lists is not what
  happened. `GuardInv` numbers the failures: each is still listed, or too old to
  count, or lies before the end of the block last set by a block time at least.
  If the address is not blocked the last kind is out of the window too (this is
  where `FailWindow < BlockSeconds` is needed), so the failures of the window
  are listed, and the list is shorter than the limit. `EarnedInv`: the failures that
  the deque listed when it blocked are in the history, which only grows.
- Perimeter. The two scoring theorems are a case analysis over every kind of
  request and every band. `BlockInv`: the row carries the end that the last commit
  gave it, a missing row means no block is due, and the row a clean-up holds is
  either gone or expired and unchanged, with no writer beside it. `FloodInv`: the
  last hit of a full window is covered by the block last committed, or its request
  is still about to write one (`LastHitCovered`); a writer that finds the row changed
  under it has lost to a block that covers it (`LostToCover`); writers are no later
  than `Stall` (`OnTime`).
- Registry. `AdminsInv`: at most one reducing handler is under way, and while it
  is, another administrator than its target exists. `HeirInv`: an owner exists and
  has the generation of the row, and so does an account that is registering.
  `OffInv`: services switched off are inactive rows, a change finds the row it
  read, and one handler at a time is about a service. `NamesInv`: a name
  never reused has one row, and a name that is being claimed has no other.
- RiskScore. `AgeInv`: nobody reads an anchor of the future. `CurveInv`: every
  decaying handler has read a row on the curve of the last event, and an event
  runs alone. That however many decays may follow each other, or overlap, is the law
  `HalvedTwice`, halving over `m` and then `n` half-lives is halving over `m + n`; the
  laws of powers it needs are proved by counting subsets, since the provers have no
  induction over data.
- Anomaly. `FittedInv`: `ModelsFitted` with the fit under way: past its snapshot it
  holds a copy of at least `MinSamples`, and at its signature the file holds all of
  what was dumped. A signature that matches was therefore made of a whole model
  of enough samples, and opening the file for the next one ends the match. `TypeInv`: the eviction order
  lists a user once, so its length is the number tracked; `MemInv`: a history, a
  model and a fit under way are of a tracked user. `SpikeNotMasked` needs only that a
  baseline is a natural number.
- AttackLab. `LabInv`: a raised flag has an uncancelled task; engines and forgotten
  pools are paid for by `overlaps` and `expired` in advance, where `Owed` is the
  overlap a start beside a cancelled task has yet to use up. `SocketsInv`: a closed
  handler carries nothing, and a handshake that was not late found room.

Every safety property that a passing run checks is thus a theorem, under the
condition the run has or a weaker one: the run of RateLimiter leaves stalls out,
which the theorems allow (with them its states triple and nothing breaks), that of
AccountRisk keeps freezes apart where `StepupPaired` and `AccountReverified` do not
need it. `SingleUse`, `ElevationDemands` and `HonestNeverBlocked` are theorems that no
run checks. What the proofs share are lemmas of their
own: what `Fresh` keeps, drops and bounds (in WindowProofs, and those that
`FloodIsBlocked` needs in PerimeterProofs), the order of eviction without a user
(`Without`, `Place`), and the laws of halving.

Only model-checked: the liveness properties `FitsFinish` and `EverythingEnds`, since
the prover has neither fairness nor `ENABLED`; and the two violations of section 9.
The theorems are about the models: that a definition says what the code does
remains a matter of reading, for which `PROJECT.json` names the lines.

## 11. Not modelled

Every component has its status and reason in `PROJECT.json`. Whole components:

- location and context validation: geometry over real numbers and header parsing
  of one request, whose verdict is an input of the login;
- request signing: an HMAC over one request, with no stored state;
- the browser client: the gateway's side of its refresh race is `RefreshReuse`;
- the demonstration upstreams and the scripts.

Inside the parts modelled: the password reset link and its expiry, the events and
audit rows that handlers write beside their state, the eviction of idle addresses
in the scorer, account deactivation, access-token expiry, the text of tokens and
hashes, the forwarding and the retries of the proxy, the payloads of the lab, what a
fitted forest says (any verdict), and databases that let two writers in at once.
