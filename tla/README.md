# Knuckles in TLA+

Knuckles (`knuckles/`) is a stateless-looking identity service: Flask, SQLAlchemy
and PostgreSQL behind a few gunicorn sync workers. It signs users in by magic
link, Google, Apple or passkey, and from then on a consuming app lives on a
rotating refresh token. All of its state is in database rows that several
workers read, decide on, and write in separate SQL statements, or in the memory
of those workers and of the apps that call them. That is where it can go wrong,
and what these modules are about.

## Inventory

| component | state | operations | hard behaviour | what makes it correct |
|---|---|---|---|---|
| refresh tokens (`services/tokens.py`, `api/v1/auth.py`) | `refresh_tokens` rows | issue, rotate, log out, log out everywhere | read then write over several statements, reuse alarm, crashes, lost responses | one-shot rotation, lineage, alarm and logout take effect and stay |
| request transaction (`core/database.py`, `app.py`) | session and identity map of a request | commit or roll back at teardown, errors turned into responses | identity map older than the row, commit after an error | what was reported is what was committed |
| app-client authentication (`core/app_client_auth.py`) | `app_clients` rows | authenticate, check redirect | loads the client's tokens early; origins compared as strings | only registered origins |
| magic link (`services/magic_link.py`, `scripts/cleanup_magic_links.py`) | `magic_link_tokens`, `users` rows, mails | start, verify, clean up | mail before commit, first-sight user creation, double click | single use, one account per address, link and account agree |
| OAuth (`services/_oauth_upsert.py`, `google_oauth.py`, `apple_oauth.py`) | `user_oauth_providers`, `users` rows | begin, complete | two completions at once, no unique constraint on the identity | one link per identity, sign-in stays possible |
| passkeys (`services/passkey.py`) | `passkey_credentials` rows | register, authenticate, list, delete | stale sign count, repeatable challenge, deletion during a sign-in | one row per credential, a replayed assertion or a deleted passkey signs nobody in |
| ceremony state (`core/state_jwt.py`) | none, the token carries it | issue, verify | five minutes of replay | bound to purpose, app and user |
| rate limiter (`core/rate_limit.py`) | one deque per key and process | allow | per process, lost on restart | at most `max` per window and process, so a known budget per deployment |
| access tokens, JWKS (`core/jwt.py`, `core/auth.py`) | signing key; caches at consumers | sign, verify, publish | rotation against caches | a rotation rolls out in bounded time, an accepted token stays accepted (Python SDK), a retired key dies |
| CORS cache (`core/cors.py`) | cached origin set, expiry | lookup, reload | stale by up to 60 s, per process | staleness bounded |
| email (`services/email.py`) | none | send | slow or failing provider | outcome reported |
| Python and TypeScript SDKs (`packages/`) | token pair kept by the app, key set of a process | sign in, refresh, log out here or everywhere, verify | time-out, retry of a consumed token, sessions ended from elsewhere | no reuse alarm without a doubtful call or a mass revocation; only documented errors |
| scripts, migrations, configuration, logging, examples | — | — | — | not modelled, see below |

Components talk through the database only, except that a magic-link start
calls the mail provider, an OAuth completion calls the identity provider, and a
consuming app calls Knuckles over HTTP. A gunicorn sync worker runs one request
at a time (`scripts/start.sh` sets no threads), so the actors are the workers,
and within a request things happen in program order.

`PROJECT.json` lists the components with their status, and the hazards of the
code at their lines with the properties that cover them.

## Modules

`RefreshTokens` (core). One record per worker, `txn[w]`, is the request it
serves together with its SQLAlchemy session. A step is one SQL statement with
the Python before the next one:

| code | action |
|---|---|
| `issue_session` entered by a sign-in | `StartSignIn` |
| `require_app_client` of `/token/refresh`, `/logout` | `StartRefresh`, `StartLogout` (fill the identity map: `CachedAtAuth`) |
| `/logout/all` | `StartLogoutAll` |
| `rotate_refresh_token` up to its first write | `RotateUnknown`, `RotateReused`, `RotateExpired`, `RotateForeign`, `RotateAccept` |
| `revoke_refresh_token` | `LogoutNothing`, `LogoutAccept` |
| `mark_refresh_token_used` | `MarkUsed` |
| `revoke_all_refresh_tokens_for_user` | `RevokeAll`: `RevokeRow` for each row lock, `RevokeDone`, `DeadlockAborts` |
| tail of `issue_session` | `IssueSession`, `IssueFails` |
| `_teardown_session` | `Commit` |
| response arrives, is lost | `Deliver`, `LoseResponse` |
| worker or database connection dies | `Crash` |

Three things deserve a reader's attention. `AppClient.refresh_tokens` is
`lazy="selectin"`, so authenticating loads the client's tokens and the later
lookup by hash does not refresh them: the decision is taken on the copy of
`CachedAtAuth`. The error handlers of `app.py` turn every exception into a
response, so the teardown commits after errors too (`Flushed`). And the
`UPDATE`s of PostgreSQL READ COMMITTED wait for row locks (`Locked`), see only
rows committed before they start (`targets`), and re-check a row they waited
for (`marks`). A mass revocation is one `UPDATE`, but takes its row locks one at a
time, in no fixed order, and keeps what it has while it waits. Two of one user
(reuse alarms or calls of `/logout/all`) can therefore wait for each other;
PostgreSQL then aborts one of them (`DeadlockAborts`), the error handler answers
500, and nothing of its revocation remains. A mark waits too, but holds no lock
meanwhile, so it is on no such circle.

What a logout promises is narrow. Once `/logout` has answered, the token is used,
and a refresh that arrives later is a replay (`LogoutSticks`, `ReplayNeverRotates`).
A rotation that was past its check by then waits for the logout's row lock, marks
the token again and commits a successor after the 204.

`SessionLedger` is the abstract specification: a set of grants, each request
one atomic step. `RefreshLedger` is the refinement mapping, which holds of a
single worker.
`RefreshTokensProofs` holds the proofs.

`RefreshClient` composes `RefreshTokens` with the apps that call it through an
SDK. A device is one signed-in session of an app; `session[d]` is the pair the
app stores for it, and `awaiting[w]` says whose call the request of worker `w`
answers. `Call` is `HttpTransport.request`, entered by `SignIn`, `Present`
(`client.refresh`, `client.logout`) and `SignOutEverywhere` (`client.logout_all`,
after which the app clears the session that called). A call ends in `Answered` (the app stores
the pair, or clears the session on the two errors `docs/python.md:325-347` and
`docs/recipes.md:83-121` name), `AnswerLost`, `WorkerDies` or `TimesOut`, the
last three being `KnucklesNetworkError`; after `TimesOut` the worker goes on.
`doubted` is history: users of whom an app could not know whether a token was
consumed (a lost answer, a timeout, a 500), sent one twice at once, or signed the
user out everywhere while there were other active tokens than its own. The last
belongs there because of what the code does: `/logout/all` sets `used_at` of
tokens that other devices store, the server cannot tell such a token from a rotated
one, and an ordinary refresh of one of these devices raises the alarm, which ends
the sessions the user has opened since. What `NoFalseAlarm` then says is that
nothing else raises it: signing in, refreshing and logging out on many devices,
each with its answer, and signing out everywhere from the only session, never do.
`RefreshClientProofs` holds the proofs.

`MagicLink` models the two magic-link routes with the same kind of record:
`StartLink`, `SendMail` / `SendFails`, then `VerifyUnknown`, `VerifyUsed`,
`VerifyExpired`, `VerifyAccept`, `FindUser`, `CreateUser` /
`CreateUserConflicts` (the unique index of `users.email`), `MarkLink` /
`MarkLinkGone`, `IssueSession` / `IssueFails`, `Commit`, `Reply`, and the
cleanup script as `Cleanup`. The session it issues is only counted; what
becomes of it is `RefreshTokens`' subject. `MagicLinkAccounts` puts `MagicLink`
over accounts that the operator deactivates. `MagicLinkProofs` holds the proofs.

`OAuthUpsert` models the completion of a Google or Apple sign-in. The exchange
with the provider yields the address the provider reports at that moment or
fails (`Exchange`, `ExchangeFails`). Then come the statements of
`upsert_oauth_user`: the link by identity (`LinkFound`, `NoLinkFound`,
`LinkAmbiguous`), its owner (`OwnerActive`, `OwnerInactive`, `RefreshLink`), or
the user by address (`FindUser`, `FindInactiveUser`, `FindNoUser`, `CreateUser`,
`CreateUserConflicts`, `LinkIdentity`), and `TouchUser`, `IssueSession` /
`IssueFails`, `Commit`. Around it, users sign up by mail (`SignUpByMail`, the
net effect of a first magic-link redemption), the operator deactivates accounts
and people change the address of their provider account. `OAuthUpsertProofs`
holds the proofs.

`Passkey` models both WebAuthn ceremonies and the removal of a passkey. The
begin routes mint a state token and store nothing (`RegisterBegin`,
`AuthenticateBegin`); the authenticator answers the challenge (`Sign`), with a
counter it may not use. The completions are transactions like the ones above:
`StartRegister`, `InsertPasskey` / `InsertConflicts`; `StartSignIn`,
`FindPasskey` / `SignInRefused`, `AssertionVerified` / `AssertionRefused`,
`UpdateCount` / `UpdateCountGone`, `TouchUser`, `IssueSession` / `IssueFails`;
`StartDelete`, `DeletePasskey`; then `Commit` or `Crash`. A state token is not
consumed, so any completion can be repeated until it expires. `PasskeyProofs`
holds the proofs.

`RateLimiter` is `allow()` on the deque of each worker, one step because it
holds a lock and touches nothing else. `CorsCache` is the copy of the allowed
origins that each worker keeps for a minute. `WorkerMemory` composes the two
over one clock: a magic-link start (`StartMagicLink`), the CORS headers of any
response (`AddCorsHeaders`), changes of the clients' origins, and a restart
that loses both. The proofs about the limiter are in `RateLimiterProofs`, those
about the copy and about the worker in `WorkerMemoryProofs`.

`JwksRotation` follows access tokens across a rotation of the signing key. Knuckles
signs with one key (`Issue`) and publishes a list with that key in it
(`Published`). A deployment (`Deploy`) chooses the signing key and the list. The code
as it stands lists the signing key alone, so that a new key replaces the old one on
the spot; the docstring of `get_published_public_keys` and
`docs/ONBOARDING.md:754-764` list both keys before and after the switch, which is
two or three `Deploy`s. A shared HTTP cache may keep the JWKS response for max-age
(`edge`). A process of a consuming app verifies with one of two libraries, chosen
once and for all in `sdk`:

- Python: `JwksVerifier` wraps `PyJWKClient`, which keeps the last key set for
  `Lifespan`, drops it when a fetch fails, and keeps every key it has resolved
  as long as the process lives (`known`);
- TypeScript: `verifyAccessToken` uses jose's `createRemoteJWKSet`, which keeps the
  last key set alone, reloads it when it is as old as `CacheMaxAge` (10 minutes),
  keeps it when the reload fails, and reloads for an unknown kid only when
  `Cooldown` (30 s) has passed since the last load.

`Verify` is either; its branches are `VerifyLocally`, `VerifyFetched`,
`VerifyUnknownKid`, `VerifyCoolingDown` (TypeScript only) and `VerifyUnreachable`.
With the TypeScript SDK a token that was accepted is refused as soon as the
set is reloaded without its key or cannot be reloaded, so `AcceptedStaysAccepted` is
stated for Python alone, and `client.ts:139` ("No network call after the first
verify on a fresh process") does not hold. `JwksRotationProofs` holds the proofs.

The `MC` modules add the symmetry sets for TLC; `MagicLink` and
`MagicLinkAccounts` are checked without one.

Tokens are model values: a plaintext, its SHA-256 and its row are one identity,
because the code only ever looks a row up by the hash of what was presented.
`used_at` is a flag, because the code only compares it with NULL.

In the modules, a definition that precedes a similarly named one and is used
nowhere (`SeesUsedNever` before `SeesUsed`) is a faulty version of it;
substituting it breaks the property it is kept for, which shows that the
property can fail.

## Runs

| run | question | answer |
|---|---|---|
| `refresh_concurrent` | two workers, two clients, three tokens: do committed rows agree with what was read and reported? | yes: lineage, delivered tokens stored, revocations and logouts effective before they are reported, replays never rotate, rows never un-consumed |
| `refresh_sequential` | does a single worker keep the documented promises? | yes: the alarm leaves no active token, and every request is one atomic step of `SessionLedger`, which rotates a token at most once |
| `refresh_client` | two devices over two workers, signing out here and everywhere, answers lost, timeouts, dead workers: what do apps see? | no unknown or foreign token, no alarm without doubt or mass revocation, and the server is `RefreshTokens` |
| `refresh_liveness` | do requests end that wait for row locks, two mass revocations that deadlock among them? | yes, one of the deadlocked ones with a 500 |
| `refresh_race` | one-shot with two workers? | no: two rotations in flight both succeed |
| `magic_link_concurrent` | two workers, cleanup, crashes: do links, users and answers agree, and do redemptions waiting for each other end? | yes |
| `magic_link_inactive` | does a deactivated account stay out? | no: no step of a magic-link sign-in reads `is_active` |
| `oauth_concurrent` | two workers, two identities, addresses that change and collide, deactivation: does an identity keep its account? | yes, and a deactivated account stays out, and none is left without its link |
| `oauth_duplicate` | one link per identity with two workers? | no: two first completions insert two, and the identity cannot sign in any more |
| `passkey_concurrent` | two workers, two users and one authenticator, replays, expiry, deletion, deactivation: who may sign in? | one row per credential; no replayed assertion, deleted passkey or deactivated account signs in; only the owner deletes |
| `worker_memory` | two workers with limiter and CORS copy, changes of origins, a restart: what do separate memories cost? | `Max` per window and process, `Max` more for every worker and restart, and a wrong CORS answer for less than the lifetime of the copy |
| `jwks_rotation` | a rotation, with or without overlap, against a shared cache and a consumer of either SDK: which token is refused, and until when does a retired key count? | a listed key is unknown within max-age (and jose's cooldown) of its listing at most; with Python an accepted token is not refused before it expires; a retired key counts no longer than a token lives |

The three runs answered "no" are the findings of `PROJECT.json`, each with the
line of the document or docstring that says otherwise.

Six more places where code and documents disagree are in the models without a
run of their own:

- A rotation in flight while an alarm revokes the user's tokens leaves an
  active one (`repositories/auth.py:624`), against `DECISIONS.md:320-330`.
- A request that fails after its mark commits the mark (`core/database.py:118`,
  reached without an exception because `app.py:122-196` has answered it), against
  the rollback `core/database.py:107` describes.
- A token that was logged out, or revoked by a sign-out everywhere on another
  device, raises the alarm when it is presented (`services/tokens.py:191`), against
  `DECISIONS.md:190-191` ("so the reuse case is distinguishable from the revoke
  case") and the two causes `docs/ONBOARDING.md:828-832` gives.
- Two redemptions of one link in flight both succeed
  (`services/magic_link.py:276`), against the mail's "can only be used once";
  `ReplayNeverRedeems` is what remains true.
- `docs/errors.md:190-194` says that after `KnucklesNetworkError` Knuckles never
  received the request; `_http.py:156-165` and `172-178` raise it for lost and
  unreadable answers as well, after which a retry of a refresh meets the alarm.
- The TypeScript SDK reloads its key set (`VerifyFetched` once `SetFresh` is over),
  against `client.ts:139`.

Outside the models, `app_client_auth.py:103-105` says that registered origins are
stored without default ports; `register_app_client.py:61` stores them as typed,
so an origin registered with `:443` or a capital never matches a redirect to it.

Bounds. Two workers show every interleaving of two requests; the default of
`WEB_CONCURRENCY` is two. Three refresh tokens are a sign-in, its rotation and
a rival's or a second rotation. Two clients are needed for foreign tokens and
for the identity map to miss; two users (`refresh_sequential`) for an alarm that
must spare the other user. `MaxTime` bounds the clock: 0 where expiry plays no
part, else far enough for what was made first to expire. In
`magic_link_concurrent` the clock reaches `TTL + GRACE + 1`, the first instant at
which the cleanup deletes a link; two links to one address compete for its
first sign-in. In `oauth_concurrent` two identities, two addresses and two users
let an address move from one account's owner to another's, and two links are
enough for a duplicate.

In `refresh_client` three tokens let two devices sign in and one of them
rotate and retry, or sign out everywhere and in again before the other refreshes;
once the clock has moved and tokens may expire, states with three stored tokens are
not explored further (`FewTokensLate`; the theorems have no such bound). In `refresh_liveness`
two rows are enough for two revocations to lock them in opposite orders. In
`passkey_concurrent` three challenges are a registration, a sign-in and either
again; two row ids are enough for a duplicate; one credential is one authenticator two users fight over; one client
means that the binding of a sign-in to its app is not exercised, only that of a
registration to its user. In `worker_memory` one key and `Max = 2` with a window
of one tick over two ticks show a window that slides past an admission; one
restart, and a copy whose lifetime ends within the clock. In `jwks_rotation`
two keys are one rotation and, by the lists a deployment may choose, an overlap of
any length or none; one process is enough because processes meet only in
the shared cache, which may hold any response Knuckles gave within max-age. The
shared cache keeps a response for two ticks, Python its key set for one, jose
for three (600 s, 300 s and 600 s in the deployment) with a cooldown of two
(30 s), so that a set is fresh and cooling down, fresh only, and old; a token
expires within the clock. The ratios differ from the deployment's, the theorems
hold for any.
`MaxRestarts`, `MaxTime` and `LateTokens` are the only bounds that are not
parameters of the code.

When ids run out, `IssueSession`, `StartLink`, `CreateUser` and `LinkIdentity`
are disabled, but a worker can still fail or crash and serve a request that
needs none, so those runs do not stop. `passkey_concurrent` can: its ceremonies
run out, so deadlock is not checked there.

Symmetry is used in the safety runs over the sets whose members the modules
treat alike, and nowhere in the liveness runs.

Fairness. `WF_vars(Serve(w))`: a worker goes on with its request, as gunicorn
kills it otherwise; PostgreSQL's deadlock detector is part of that, as it runs
once a wait has lasted `deadlock_timeout`. Strong fairness of the steps that wait
for a lock (`MarkUsed`, `RevokeRow`) or for the unique index: PostgreSQL queues
waiters, so one is not overtaken forever. Nothing is assumed of the arrival of
requests, of crashes, of the apps' timeouts or of time.

## Proofs

`RefreshTokensProofs` proves, for any users, clients, tokens and workers, any
TTL and any bound on the clock (assumptions `NoneAssumption` and
`TimeAssumption` only):

- `TypeCorrect`, `LineageKept`, `DeliveredKnown`, `ReplaySafe`,
  `RevocationReported`, `LogoutReported`: the invariants of
  `refresh_concurrent`;
- `ConsumedForever`: the action property `RowsOnlyConsumed`.

The properties are not inductive: what `Commit` writes was fixed by earlier
steps, while other requests committed in between. `Inv` adds what a request in
flight may rely on. `ReadsStay`: a token seen used stays used, and one that was
used on arrival is not cached as unused. `RotationBound`: a rotation that is
marking or inserting still knows the user and client of the stored token it
presented. `TargetsUsed`: each targeted row is marked by this request or used
already when it commits. `ChildFresh` and `ChildrenDistinct`: two requests
never insert the same row. `ReplayCaught`, `LogoutTargets` and
`PresentedStored` tie the answer to the branch taken. The proof goes by kind
of step: `BeginStep`, `LookUpStep`, `WriteStep` (through `LocalStep`: one
session changes, the table does not), `CommitStep` (the table changes for
everybody, lemmas `CommitTable` and `CommitOthers`), `EndStep`; `Inductive`
joins them. That a revocation locks row by row adds two lemmas: `RevokeStep`, that a
further row keeps `Inv`, and `OnCircle`, that only a revocation is ever aborted.

`RefreshClientProofs` proves, for any number of devices as well:

- `ImplementsServer`: the server under the apps is `RefreshTokens` (`ServerSpec`),
  so that every theorem above holds there;
- `ClientTypeCorrect`, `DocumentedOnly`, `AlarmNeverFalse`: the invariants of
  `refresh_client`.

That the alarm is never false follows from who can consume a token. `ClientInv`
adds to `Inv` that every token of a quiet user, one not in `doubted`, is held
by one device at most (`HeldInv`), presented by one call at most, the call of
that device (`CallInv`, `CallsDistinct`), consumed by that request alone
(`RequestConsumes`), and unused while no call of the device is under way
(`QuietSessions`). A sign-out everywhere leaves its user quiet only when the token of
its own session was the only active one (`SignsOutAll`); it then consumes that
token and no other. A request then presents an unused token of a quiet user, or
the user is in doubt. Without `doubted` in it the invariant is false at the
first lost answer. There is a lemma for each kind of step (`CallsStep`,
`WorksLocally`, `ClientCommitStep`, `AnsweredStep`, `CallFailsStep`).

The three sign-ins are proved from invariants of one form, again for any
constants: `TableInv` says what the committed rows promise, `SessionInv` what a
request in flight may rely on while others commit, `Apart` what two requests
cannot both hold. A property of a table is not inductive without the other two:
what a commit writes was decided statements earlier.

- `PasskeyProofs`: `CredentialsUnique`, `ReplaysSignNobodyIn`,
  `DeletedSignsNobodyIn`, `DeactivatedOut`, `DeletionIsFinal`, and the action
  property `OnlyOwnerDeletes` (`DeletionIsTheOwners`). A sign-in that has counted
  holds its row (`Found`, `Holds`) and no removal targets a held row (`Apart`),
  so its row is stored when it commits. A row covered on arrival is covered
  until the end (`Covered`), and a session needs a count that advances
  (`Verified`), so the two exclude each other. A registration in flight
  is of a credential whose ceremony is not over, hence not among the `buried`
  (`BuriedOver`).
- `MagicLinkProofs`: `ReplaysRefused`, `RedemptionIsAtomic`, `AccountsUnique`,
  `AcknowledgedIsStored`, and the action property `CleanupSparesRedeemable`
  (`CleanupIsSafe`). The request that marked a link names a user that is stored
  or that it inserts itself (`Account`); two open inserts never share an address
  or an id, and one of an address excludes a stored user with it (`Apart`).
  What was read of a link stays true of it while it is stored, except that it
  may become used (`LinkRead`). A link is stored, or past its expiry when the
  cleanup took it (`LinkStored`).
- `OAuthUpsertProofs`: `LinksOutliveEmails`, `DeactivatedOut`,
  `AccountsAreLinked`, and `AccountsUnique`, which is the abstract content of the
  unique index. A request that arrived after a link existed has either not looked
  yet or follows it (`FollowsLink`), because links are never deleted; the user it
  chose was active when it was read, so not barred on arrival (`ChosenActive`);
  a request that inserts a user also inserts its link by its commit (`Inserts`).

Each proof has one lemma for a kind of step: `LocalStep` (one session changes,
no table does), the commit, the end of a request, and the actions of the
environment.

Back in `RefreshTokensProofs`, two theorems assume a single worker (`OneWorker`),
without which `refresh_race` refutes them:

- `SingleWorkerIsAtomic`: every step maps to a step of `SessionLedger` or to a
  stutter (`ImplementsLedger`). The commit is that step (`CommitIsOneStep`); which
  one, a request decides while nobody else can commit, so `SoloInv` says that
  what it has read is still so, and what a closing transaction amounts to
  (`Grants`, `EndsOne`, `EndsAll`, `EndsNone`).
- `SingleWorkerAlarm`: `AlarmEndsEverySession`, from the same invariant.

What is left of one-shot rotation with several workers is `SuccessorsBounded`: a
token has at most as many successors as there are workers
(`OneSuccessorPerWorker`; assumes finitely many workers). `SuccessorInv` counts the
successors together with the requests that may still become one (`Rotators`:
they have not seen the token used, or are past the check, and have not
committed). A commit moves its request from the second set to the first
(`CommitCounts`), and once the token is used nobody joins the second, because
what arrives sees that it is used (`ActorKeeps`). No run checks it; with one
worker it is one-shot rotation.

`RateLimiterProofs` and `JwksRotationProofs` prove the invariants of their
modules for all parameters:

- `BudgetKept`, `RefusalsAreFree`. The deque is the tail of the admissions
  (`Suffix`), what is not in it has left the window (`DroppedAreOld`), hence
  admissions `Max` apart are more than a window apart (`Spaced`).
- `DeploymentBudget`: all workers together. The invariant is an account for each
  window (`Charged`): while the window is open, its admissions are covered by the
  living processes (`Alive`) and by `Max` for each restart in it; when it
  closes, `Alive` is replaced by its bound, `Max` a worker (`AliveBound`, by the
  injection of a process's admissions into its `Max` slots). Assumes finitely
  many workers (`WorkersAssumption`), else there is nothing to count.
- `RollsOut`, `AcceptanceLasts`, `KeyDies`. A response in the shared cache
  that lacks a listed key is older than the listing (`EdgeOrigin`), hence a key
  set of a process that lacks it was loaded less than max-age after the listing
  (`SetOrigin`), and jose asks again when the cooldown is over. A token outlives
  its key by `TTL` at most (`Lifetimes`), a process with the Python SDK keeps the
  keys of what it accepted (`AcceptedResolved`).

`WorkerMemoryProofs` proves that a worker implements both its parts
(`ImplementsLimiter`, `ImplementsCors`), carries the limiter's theorems over to it
(`WorkerBudgetKept`, `WorkerRefusalsAreFree`, `WorkersBudgetKept`) and bounds the staleness of its CORS
copy (`WorkerStalenessBounded`): where a copy differs from the table, it expires
within `TTL` of the change (`CopiesAge`; needs `TTL > 0`, see `Parameters`).

Only model-checked: the two `RequestsEnd`, of `RefreshTokens` and of `MagicLink`.
They are liveness, out of the prover's reach with every use of ENABLED, so the
fairness under which requests wait for row locks and for the unique index is shown
on the instances of the runs alone. Every invariant and action property of a
passing run has its theorem.
The three violations are shown on small instances, which is all a counterexample
needs.

## Plan

The order is by what a mistake would cost: the table every session lives in and
the apps on top of it, then the sign-ins that create accounts, then what is kept
in memory and in caches. What is left, in this order:

1. The count of `SuccessorsBounded` for the sessions of a magic link and for the
   links of an identity: as many as there are workers at most, because only
   requests already in flight when the link was first consumed, or the identity
   first linked, can still add one.
2. An abstract specification of accounts, in which an address gets its account in
   one step, and the mapping of `MagicLink` and of `OAuthUpsert` to it.
3. What the proofs of the three sign-ins repeat (`LocalStep`, `SamePlaceStep`), as
   lemmas they share.

## Not modelled

- Credential checking, hashing, cryptography and JSON shapes: data the
  properties do not distinguish. A forged or malformed input is refused before
  anything is written.
- The redirect check compares two strings of one request and keeps no state.
- Tenants' own relying parties and OAuth clients (`_resolve_config`,
  `configure_app_client.py`): constant while a ceremony is under way, so one
  stands for all.
- The wording and delivery of mails beyond accepted or failed, the wording of
  errors, observability, secrets backends: no state while serving.
- Migrations (generated; their constraints are read for the models), examples.
- `refresh_tokens` rows are never deleted by the code, and deleting a user or
  client by hand is left out. So is a change of `is_active` back to true.
- Permissive CORS, which never reads the cache.
- Knuckles' own `verify_access_token`, which knows the current key only: after a
  rotation its bearer routes refuse tokens that consumers still accept.
- A deployment reaches all workers at once in `Deploy`; workers that restart one
  after the other, and answer with two lists meanwhile, are not modelled.
- `PyJWKClient` keeps the last 16 resolved keys; in the model it keeps them all,
  so `AcceptedStaysAccepted` assumes that a process meets no more than 16.
