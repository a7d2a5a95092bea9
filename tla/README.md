# Meridian AMS: a formal model

Meridian AMS is an academy-management back end: a FastAPI application over
PostgreSQL (SQLAlchemy, asyncpg) with Redis as a "mandatory, non-authoritative"
store (`docs/adr/0004`).  Several application processes may run at once; inside
each, requests are coroutines that interleave at every `await`.  This directory
holds TLA+ models of the parts where that interleaving matters, TLC runs over
small instances, and proofs checked by TLAPS.  Paths below are relative to
`src/src/meridian_ams/` unless they begin with `docs`, `tests` or `migrations`.

## 1. Inventory

| Component | State it keeps | Operations | What is hard |
|---|---|---|---|
| Idempotency protocol, `core/idempotency/`, `core/advisory_locks.py` | table `idempotency_records` (unique on operation, actor, key; `expires_at`), transaction-scoped advisory locks, mirror entries in Redis | `acquire_idempotency_lock`, `store_idempotency_record`, `mirror_complete_to_redis`, `delete_expired`, `get_record` | two requests with one key; two clocks (`now()` stands still inside a transaction, the application's does not); a mirror that is written after the commit; crashes between commit and answer |
| Register-user use case, `users/use_cases/register_user.py` | none of its own | `execute`: acquire, register, store, commit, mirror | the record must commit with the operation |
| User registration, `users/services/system_admin.py`, `users/utils/`, `users/repositories/` | `user_identities`, `user_credentials`, activation, lockout and email rows | `register_user`, `acquire_contact_locks`, `check_contact_limit` | limits counted under advisory locks taken in an order, unique indexes as the second line, and as the only one for emails of non-students across account types |
| Login, `auth/services.py`, `auth/repositories/` | `user_login_lockouts`, `user_sessions`, `login_history` | `login`, `get_by_credentials_id` (FOR UPDATE), `get_by_device_id`, `get_session_count`, `evict_oldest_session` | snapshots that are stale after the password was verified, partial writes of a row, count-then-insert, row-lock order |
| Session authentication, `core/dependencies.py`, `utils/cache_keys.py` | `session:token_version:<id>` entries in Redis | `get_current_user`, `verify_status`, `require_roles` | an entry written from an old read after the session was evicted |
| Email queue and worker, `emails/`, `workers/email_worker.py` | table `emails` (status, retry count, scheduled time) | `get_pending_batch`, `mark_sent`, `mark_failed_attempt`, `_process_email`, `_run_sweep`, `run_email_worker` | at-least-once delivery, replies that are lost, crashes between send and commit, two workers on one table |
| Direct sending, `core/email/` | the set of background tasks | `send_email`, `send_email_safe`, `send_email_in_background` | fire and forget |
| Application lifespan, `main.py` | engine, Redis client, worker task | `lifespan`, `create_app` | shutdown after a failed start; a cancellation that reaches the worker inside a send; a step of the shutdown that fails |
| Middleware and exception handlers, `core/middleware.py`, `core/exceptions.py` | logging context of a request | six layers, six handlers, one of last resort | which layer sees which exception; headers and log of error answers |
| Health endpoints, `api/health.py` | none | `liveness`, `readiness` | services that come and go |
| Migrations, `migrations/` | the schema, `alembic_version` | fourteen scripts up and down, `do_run_migrations` | commands at once, scripts that fail midway, models and scripts kept in step by hand |
| Redis client and wrappers, `core/redis/` | none | `get_cache`, `set_cache`, `delete_cache_critical`, ... | which failures propagate |
| Database sessions, `database/` | none | `build_engine`, `build_session_factory`, column mixins, triggers | `autoflush=False`, `expire_on_commit=False` |
| Tokens, cookies, passwords, `auth/tokens.py`, `auth/cookies.py`, `core/security.py` | none | conversions | none |
| Rate limiter, configuration, logging, validators, schemas, templates | none that outlives a request | pure or I/O | none |

How they interact.  A registration runs `get_current_user` (Redis, then the
database), then `acquire_idempotency_lock` on the same database session, then
`register_user`, which adds an email row; the commit makes record, user and
email visible together.  The email worker of every process polls that table.
A login changes lockout and sessions in one transaction and then deletes the
cached token version of a session it evicted, which `get_current_user` reads.
All of them run in a process whose lifespan builds the engine and the Redis
client, and on a schema that the migrations have built.

What makes each component correct:

- *Idempotency*: an operation is committed at most once in the life of its
  record; whoever is shown a result is shown a committed one, for the same
  payload; the record is there as long as the effect is to be remembered; a
  waiter is answered; Redis can only make things faster.
- *Registration*: no contact is shared by more accounts than the limit; no
  deadlock between the three kinds of advisory lock.
- *Login*: no failure is lost; the failure that exhausts the attempts locks the
  account; no failure cuts a lock short; the number of sessions stays within
  the cap; an evicted session stays out; overlapping logins do not wait for
  each other in a circle.
- *Session authentication*: a token of a session that is gone stops working
  within the life of a cache entry and the time of one request.
- *Email*: SENT means delivered; a duplicate needs a disruption; retries are
  bounded; every queued email is settled.
- *Lifespan and middleware*: whoever uses a resource finds it open; a process
  that stops has released what it built; every answer, whatever went wrong, has
  passed every layer.
- *Migrations*: the schema is always the one its recorded revision stands for, at
  the newest revision it is what the models declare, and no command drops the
  records on which retries rely.

`PROJECT.json` lists every component, with the reason where it is not modelled,
and under `hazards` the places where a test would hardly reach.

## 2. Modules

| Module | Models | Status |
|---|---|---|
| `IdempotentOperation` | what a client may rely on when it repeats a request: the abstract specification | done |
| `Idempotency` | the protocol; implements `IdempotentOperation` | done |
| `IdempotencyProofs` | TLAPS proofs about `Idempotency` | done |
| `EmailWorker` | the queue and the workers that drain it | done |
| `Login` | lockout and sessions of one account under overlapping logins | done |
| `SessionAuth` | `get_current_user` and its cache against evictions | done |
| `SessionAuthProofs` | TLAPS proofs about `SessionAuth` | done |
| `Registry` | what an administrator who registers users may rely on: the abstract specification | done |
| `Registration` | `register_user` in the use case's transaction; implements `Registry` | done |
| `RegistrationProofs` | TLAPS proofs about `Registration` | done |
| `EmailWorkerProofs`, `LoginProofs` | TLAPS proofs about `EmailWorker` and `Login` | done |
| `SchemaHistory` | the fourteen migration scripts, and the tables the models declare | done |
| `Migrations` | operators that run upgrades and downgrades at once; extends `SchemaHistory` | done |
| `SchemaHistoryProofs`, `MigrationsProofs` | TLAPS proofs about `SchemaHistory` and `Migrations` | done |
| `Middleware` | the layers and handlers an answer passes | done |
| `Application` | lifespan, worker task, requests; extends `Middleware` | done |
| `ApplicationProofs` | TLAPS proofs about `Application` | done |
| `MCIdempotency`, `MCEmailWorker`, `MCLogin`, `MCSessionAuth`, `MCRegistration`, `MCMigrations`, `MCApplication` | model values, inputs and symmetry for TLC | done |

### Idempotency

One *attempt* is one HTTP request with a key and a payload hash; a retry of the
client is another attempt with the same key.  `pc[r]` says at which `await` the
coroutine stands, and each action is the code between two of them:

| `pc` | Code | Actions |
|---|---|---|
| `cache` | `_safe_redis_get` and the test of the hash | `CacheHit`, `CacheMiss` |
| `begin`, `lock` | `_take_key_lock`: `set_config`, `pg_advisory_xact_lock` | `SetLockTimeout`, `TakeLock`, `LockTimeout` |
| `rollback` | its `db_session.rollback()` after a timeout | `AnswerInProgress` |
| `lookup` | `delete_expired`, `get_record`, the test of the hash | `LookupNone`, `LookupMismatch`, `LookupReplay` |
| `execute` | `register_user` | `Execute` |
| `store` | `store_idempotency_record` | `Store` |
| `commit` | `db_session.commit()` | `Commit` |
| `mirror`, `set` | `mirror_complete_to_redis`, before and after its SET leaves | `MirrorSkip`, `MirrorSend`, `MirrorAnswer` |

A SET that has left is on the `wire`; Redis applies it (`RedisSet`) within
`RedisDelay` or never, whether or not the attempt still waits for the reply.

`records` are the *committed* rows.  What a transaction has written but not
committed is kept in `row[r]` (its insert); its deletions are recomputed at
`Commit` (`Kept`), since only rows already expired at `txStart[r]` are deleted
and `txStart[r]` does not move.  `holders` are the transactions with an advisory
lock; `LockOf` maps keys to 32-bit lock ids and need not be injective.
`txStart` is PostgreSQL's `now()`.  It may be the time of authentication, which
uses the same session and may have begun the transaction (`Start`,
`SetLockTimeout`).  A row is deleted by `expires_at <= now()` and found by
`expires_at > now()`, but `expires_at` is computed from the application's clock
at the insert.  One clock is assumed for application, database and Redis;
skew between hosts is not modelled.  `executed` is a history variable.

A miss of the cache is always possible (`CacheMiss`), which stands for an empty
cache, a `RedisError` and a malformed entry alike.  `Abort` stands for every
error that ends the request early, and for a crash of its process: the open
transaction rolls back, and after the commit only the answer is lost.

`IdempotencyRepository.add_record` does not exist at this commit (see section
6).  The model has the method that its caller expects: an insert of one row
subject to the table's unique constraint (`InsertWaits`, `InsertConflicts`).

`IdempotentOperation` knows who is at work on a key (`working`) and who has met
another at work (`met`); only the latter may be told "in progress".  The mapping
takes the holders of locks for the former, and for the latter the attempts whose
wait has run out and which roll back; so a `TakeLock` is `Begin` and a
`LockTimeout` is `Meet`, and the holder may well be done when the answer goes
out.  Keys with one lock id are of one `Class`.

### EmailWorker

Each row has a status, a retry count and `due`, the ticks until `scheduled_for`
(the delay after the n-th failure is `RETRY_DELAY * n`: n ticks).  A worker
loads a batch, keeps *copies* (`copy`; the session never refreshes them), sends
and commits one by one.  The provider is external: `Accept` is the moment it
takes the message, after which the worker may learn so (`SendReturns`), or get
an exception (`ReplyLost`), or be stopped.  `SweepFails` and `Stop` may leave
the pending UPDATE applied or not, since a COMMIT whose reply is lost may have
reached the server.  `Restart` is the next start of the process.

### Login

One account; a request is one call of `AuthService.login`.  The model follows
READ COMMITTED: a SELECT sees committed rows, an UPDATE or DELETE waits for the
row's lock, locks go at the end of the transaction.  Two points decide most of
what can happen, and both are properties of SQLAlchemy rather than of this
repository, so they are marked external:

- an UPDATE carries only the columns that differ from what was *loaded*
  (`ResetLockout`, `DirtyLockout`), so a reset to 0/NULL of a column that was
  0/NULL at load time writes nothing, whatever another login has committed;
- a flush writes lockout rows before session rows, deletions last
  (`FlushLockout` before `FlushReuse` and `FlushDelete`).

A session is named after the login that created it.  The device cookie is
chosen freely among the sessions (`FindDevice`).  `created_at` is the
transaction's begin (`now()`).  `last_active_at` is NULL (0) until a device is
used again, and is set from the application's clock when the device is found
(`FindDevice`).  The lockout row that a failure writes is computed from the row
read under the lock (`LockLockout`, `Raised`).
`overtaken` is history: the logins that had counted the sessions when another
one committed a new session.  The refresh token's hash is never NULL, so the first key of the
ORDER BY in `evict_oldest_session` does not distinguish rows and is left out.
`last_failed_at` moves with `failed_attempts` and is left out.  Not modelled:
refresh-token contents, login history rows, the notification email.

### SessionAuth

Sessions are rows that a login adds and another login, at the cap, deletes
(`LogIn`, one step, since only the commit is visible here; `Login` has the
steps).  After that commit the login deletes the session's entry from Redis:
`Purge`, or `PurgeFails` when Redis does not answer or the process dies.  A
request is one call of `get_current_user`:

| `pc` | Code | Actions |
|---|---|---|
| `idle` | `decode_access_token` | `Begin` |
| `cache` | `_read_atv_cache` | `Hit`, `Miss` |
| `select` | `UserSessionRepository.get_by_id`, `verify_status` | `Select` |
| `set` | `redis.set(..., ex=ACCESS_TOKEN_EXPIRES_MINUTES * 60)` | `Set` |

`Fail` is any error from `cache` on; Redis errors are not caught here, so they
become 503.  A lost reply to the SET may leave the entry (`Fail`) just as one to
the DEL may have removed it (`PurgeFails`).  Tokens and entries live
`ACCESS_TOKEN_EXPIRES_MINUTES`, so both are `TokenLife`.  A request carries a
token of some session made at any moment the session existed (`IssuedAt`).

Since no operation of this commit changes `access_token_version` or `status`,
and only an active account logs in, the cached version equals the token's and
the status test passes whenever the session exists: an entry is reduced to the
session, its expiry and, as history, the request that wrote it.

`RequestTime` is how long after its SELECT a request may still have its SET
applied.  The Redis client gives up after 2 seconds (`core/redis/client.py`), but
the SELECT of the credentials in between has no time limit in the code, so a
bound is an assumption about the deployment.  Without one the bounds below
would not hold: a request stalled for an hour could still write the entry.

### Registration

A request is one call of the use case; `Wants` are the payloads it may bring,
with the account type, the username, the contacts and the idempotency key.  One
transaction takes the advisory locks on key, phone and, for students, email, in
this order (`NextLock`), counts the accounts with the same contacts
(`CountPhone`, `CountEmail`), inserts (`InsertUsername`, `InsertEmail`,
`StoreRecord`) and commits (`Commit`).  Phones
are counted within a pool (students, or everybody else), emails within the
account type: for work and personal accounts, which form one pool, the partial
unique index `uix_non_student_unique_email` closes the gap.  `LockId` maps values
to lock ids per namespace and need not be injective.

The model follows READ COMMITTED: a count sees what is committed when it runs,
an entry of a unique index waits for the transaction that has made an equal one
(`UsernameWaits`, `EmailWaits`, `RecordWaits`) and then fails or goes through.
The entries are made one by one, in the order in which migration 03 creates the
indexes, and a request that waits for the second holds the first.  A clash of
idempotency records (`uix_idempotency_operation_actor_key`) would end in an error
that nothing handles ("conflict"): `Registry` has no such answer, so the
refinement shows that the lock of the key leaves nothing to the constraint.
Identity, credentials,
activation, lockout, email and idempotency record become visible in one
`Commit`; there is no earlier commit, so an account stands for all of its rows.
`lock_timeout` is set for the whole transaction; only a timeout of the key's
lock becomes 409, any other one is an error (`LockTimeout`, `Abort`).  As in
`Idempotency`, the missing `add_record` is taken to exist.  Records do not
expire here, which `Idempotency` covers.

`Registry` has the same three visible variables and neither lock, count nor
index: a registration is one step that adds an account within the limits, the
first of its key, or
is refused for a reason that holds at that moment.  The mapping is the
identity; the answer to the client is a step after the effect.

### SchemaHistory and Migrations

A schema is a set of objects, `<<kind, owner, name>>`: tables, required and
optional columns, defaults, unique constraints, indexes, foreign keys, triggers,
enum types.  `Migration01` to `Migration14` say what `upgrade` and `downgrade`
of each file drop and add; `SchemaAt[r]` is what the upgrades up to revision `r`
create in an empty database.  `Metadata` is the same for the models and their
mixins.  Types, lengths and the order of columns are left out.

An operator runs a command: it reads the version and makes its plan (`Begin`),
then for each migration runs the script (`Ddl`) and moves the version row
(`UpdateVersion`), and commits once at the end (`Commit`): `do_run_migrations`
wraps all of it in one transaction.  The behaviour of PostgreSQL and Alembic is
external: DDL waits for tables that another transaction has changed, is refused
when objects exist, are missing or are needed (`Applicable`), and the UPDATE of
the version row fails when the row no longer says where the command began
(`VersionMatches`).  The first command on an empty database inserts the row
instead, and there the DDL itself keeps two commands apart.  `Abort` is any
failure and a killed process.  `StoreRecord` is the application of this commit,
whose insert names the columns of its model (`Insertable`).

Migration 08 defines no `downgrade`, so no command goes below revision 8 once
it is there (`Reversible`).

### Middleware and Application

`Middleware` is pure: `Respond(q, result)` takes the result of a route, an
answer or an exception on its way, through the handler registered for it
(`Routed`; Starlette calls those around the router) and then through the layers
in the order of `add_middleware` (`OutOf`, a recursive function of the layer).  A result carries its status class, the
headers and request id added to it, and what `RequestLogging` wrote.

`Application` is one process; `phase` says where `lifespan` stands:

| `phase` | Code | Actions |
|---|---|---|
| `stopped` | before and after `lifespan` | `Start` |
| `check_database`, `check_redis` | `SELECT 1`, `redis.ping()`, then attachment and the worker task | `CheckDatabase`, `CheckRedis` |
| `serving` | `yield` | `Receive`, `AnswerRequest`, `StopSignal` |
| `draining` | the server ends the requests under way, then resumes `lifespan` | `CancelWorkers` |
| `gathering` | `asyncio.gather` | `Gather` |
| `close_redis`, `dispose_engine` | the loop over `shutdown` | `CloseRedis`, `DisposeEngine` |

A failed check goes to `close_redis`: `finally` with no task to wait for.
The worker is reduced to the await it is suspended at, since that decides how a
cancellation reaches it (`RaiseCancelled`); what it does to rows is in
`EmailWorker`.  Between its SELECT and the first commit of a batch it has a
transaction open (`send`, as opposed to `send_next`), and only then is there
something to roll back (`Rollback`).  That may succeed while PostgreSQL is up; it
may raise at any time, since the connection may have been broken earlier; and it
may hang, since a statement has no time limit.
`up` are the services that can be reached; they change at any moment.
A request takes one of the results its endpoint can have with these services
(`Results`).
As committed `main.py` cannot be imported, because it names the signal of a cached
response differently from the module that defines it (section 6); the model takes
the name to be corrected.

## 3. Runs and bounds

| Run | Instance | Shows |
|---|---|---|
| `idem_protocol` | 2 attempts, 2 keys on one lock id, 2 payloads, TTL 2, SET in flight up to 1 tick, clock to 3 | the type invariant, mutual exclusion across colliding keys, five safety properties, refinement of `IdempotentOperation`, every request answered |
| `email_single` | 1 worker, 3 emails, batches of 2, 2 retries, 2 disruptions | all properties of the worker, liveness included |
| `login_overlap` | 4 logins, two at a time, limit 2, cap 1, clock to 4 | who may cut a lock short, leave exhausted attempts without a lock, or pass the cap |
| `login_concurrent` | 3 logins at once, limit 2, cap 1, clock to 2 | lost updates, eviction against reuse, waiting |
| `login_evicts` | 4 logins one at a time, cap 2 | violation of `EvictsOldest` |
| `login_cap` | 3 logins at once, cap 1 | violation of `SessionCap` |
| `session_auth` | 2 sessions, 3 requests, tokens for 2, requests up to 1, clock to 4 | the cache contradicts the database for a bounded time only |
| `session_ttl` | 2 sessions, 1 request, clock to 4 | violation of `DisagreementWithinTTL` |
| `reg_requests` | 2 registrations, 3 account types, 2 phones, 2 emails on one lock id, 2 usernames, 2 keys, limit 1 | contact limits, refinement of `Registry`, answers |
| `migrations` | 2 operators, targets 0, 2, 7, 8, 10, 13, 14 | the schema follows its revision, matches the models at the newest, keeps its records |
| `application` | 2 connections, 7 kinds of request, PostgreSQL and Redis up or down | resources in use are open, answers are complete, shutdown releases |
| `application_hang` | 1 connection | violation of `GuaranteedCleanup` |

Why these are enough to meet the interesting cases.  Two attempts with one
key are an execution and a retry that overlaps it or comes after the record has
expired; two payloads give a mismatch, two keys on one lock id a collision; with
TTL 2 and a clock to 3 a transaction that began before an expiry ends after it.
The proofs cover any number of attempts.  Three emails with
batches of two make a full batch followed by a short one; two retries make one
that is due later and one that is the last.  Three concurrent logins can fill
the cap, find a session and evict it, while a third holds the lockout row.  Four,
two at a time, can exhaust the counter, let the lock run out, fail or succeed
again, and let a success that has loaded the row be overtaken by a failure that
locks: the plain statement that a lock in force is never shortened is violated in
this instance, so the exception in `LockNeverShortened` is met.  That in
`LockedWhenExhausted` needs six logins or more, and there it is the proof that
counts.  For `SessionAuth`, a
request that reads the row before the eviction, one that begins after the
invalidation and one that uses the entry in between are three; a clock to 4
covers one life of an entry after a late write.  Two registrations with a limit
of one compete for the last place and can hold the locks that each other waits
for.  The targets of `migrations` lie on both sides of every script that undoes or
replaces an earlier one, of the irreversible one and of the first; two operators
can meet at the version row and at any table.  The kinds of request in
`application` are one for each way an answer can come about: an endpoint of the
API with all of its errors, a preflight that is permitted or refused for its
method or its origin, an unknown path, both probes; two connections give one request under way while another is
answered or the process stops.  Each property has a
mutant of the code, a definition whose name starts with `Bug`, that makes TLC
find it violated under the same instance: this is what shows that the bounds
reach the case.  The mutants are listed in `PROJECT.json` and used nowhere else.

The deadlock check is on in every run: when all requests are answered and the
bounded clock has run out, `Done` stutters; anything else that stops is an error.
`Application` and `Migrations` never come to an end.

Fairness.  `WF` of an attempt's own steps: the event loop resumes a coroutine
whose await has completed; Redis and SMTP calls have finite timeouts;
PostgreSQL grants a free lock to a waiter or, for the advisory lock, lets
`lock_timeout` end the wait.  Nothing forces a crash, a request to arrive, an
entry to be lost or, but for the email worker, time to pass.  For the worker,
`Tick` is fair (a delay passes) and a stopped process is started again.
In `Application` the steps of `lifespan`, the delivery of a cancellation, the
rollback after it (which may end in `hung`) and the answer to a request are fair.
Connecting, Redis, SMTP and the probes (`CHECK_TIMEOUT_SECONDS`) have time limits.
An SQL statement that was sent has none (`database/connection.py` limits
connecting alone): that the statements of a request return, and the closing of
the worker's session after an email, is an assumption of the model.  Nobody has to start or stop the
process, and services need not come back.  `Migrations` states safety only: an
operator may leave a command unfinished for ever.

## 4. What is proved

`IdempotencyProofs` proves, for every set of attempts, keys and payloads, every
TTL, every mapping of keys to lock ids, every `RedisDelay` and every bound on
the clock:

| Theorem | Property |
|---|---|
| `TypeCorrect` | `TypeOK` |
| `MutualExclusion` | `LockExclusive` |
| `NoStoreConflict` | `StoreNeverConflicts` |
| `AtMostOnce` | `AtMostOncePerWindow` |
| `NewestRecorded` | `NewestExecutionRecorded` |
| `FaithfulReplay` | `ReplayFaithful` |
| `BoundedMirror` | `MirrorLifeBounded` |
| `Implements` | `Spec => ImplementsPromise` |

Assumptions: `TTL` is a positive natural, `RedisDelay` a natural.  Nothing is assumed of `LockOf`, so colliding ids are covered.

None of the safety properties is inductive.  The inductive invariant is

    IInv == TypeOK /\ LockInv /\ ClearInv /\ TableInv /\ MirrorInv /\ AnswerInv
            /\ StoreNeverConflicts /\ AtMostOncePerWindow /\ ReplayFaithful

- `LockInv`: an attempt in the critical section is a holder, and holders of one
  lock id are one.  Everything else rests on it: only the holder changes the
  rows of its key.
- `ClearInv`: an attempt that was told to execute still sees no live row of its
  key, that is, every committed row of the key has `expires <= txStart`.  It
  holds because `txStart` does not move and no rival can commit.
- `TableInv`: at most one row per key, each the record of a committed
  execution, and none older than any committed execution of the key.  From
  `ClearInv` the insert of `Commit` meets only rows that its own deletion
  removes.
- `MirrorInv`, `AnswerInv`: what is in the mirror, or carried towards it, is the
  record of a committed execution, except for the attempt's own row before its
  commit; the life a SET carries is bounded by the remainder at the time it left.

`AtMostOncePerWindow` follows at `Commit`: earlier executions of the key have
expired by `txStart` (`ClearInv` with `TableInv`).  There is one lemma per part
of the invariant that a step can disturb (`LockStep`, `TableStep`, `ClearStep`,
`MirrorStep`, `AnswerStep`, `WindowStep`, `ReplayStep`), each by cases on the
actions.  `Implements` maps `effects` to the committed executions; `Commit` is
`Effect`, `TakeLock` is `Begin`, `LockTimeout` is `Meet`, the answering steps are
`ShowResult` or a refusal, everything else stutters (`StepSimulation`).

`SessionAuthProofs` proves, for any sets of sessions and requests, any positive
`TokenLife`, any `RequestTime` and any bound on the clock:

| Theorem | Property |
|---|---|
| `TypeCorrect` | `TypeOK` |
| `BoundedDisagreement` | `DisagreementBounded` |
| `NeverRefilledLate` | `NoLateRefill` |
| `AcceptedRecentlyLive` | `AcceptsRecentlyLive` |

with

    IInv == TypeOK /\ LateInv /\ ReadInv /\ EntryInv /\ NoLateRefill

- `LateInv`: an invalidated session is gone for good, so a request that began
  after the invalidation never comes to the SET.
- `ReadInv`: a request about to write read its row before the eviction.
- `EntryInv`: hence an entry of an evicted session expires by the eviction plus
  `RequestTime` plus `TokenLife`; that of a live one within `TokenLife`, which is
  what an eviction turns into the former.

`RegistrationProofs` proves, for any finite set of requests, any payloads, any
lock ids and any positive limit:

| Theorem | Property |
|---|---|
| `TypeCorrect` | `TypeOK` |
| `LimitsHold` | `ContactLimits` |
| `OnePerKey` | `OneAccountPerKey`: no key registers two accounts |
| `Implements` | `Spec => ImplementsRegistry` |

with

    IInv == TypeOK /\ HeldInv /\ PlaceInv /\ KeyInv /\ CountInv /\ IndexInv
            /\ OneAccountPerKey

- `HeldInv`, `PlaceInv`: a lock has one holder, and a request that counts or
  inserts has all of its locks; so two of them share neither phone nor key nor,
  among students, email (`LocksExclude`).
- `CountInv`: a count that was below the limit stays below until its request
  commits, because whoever else commits has other contacts (`CountGrows`).
- `IndexInv`: committed accounts and entries to come do not clash in a unique
  index.
- `KeyInv`: whoever holds a key's lock finds no account with the key, also when
  it stores the record.

`LimitsHold` follows from `CountInv`, but for the emails of non-students, where it
is `IndexInv` that leaves room for one (`EmailPoolCount`).  In `Implements` each
`Commit` is `Register`, which the same two parts enable, and each answer is a
refusal that holds or a confirmation (`StepSimulation`).

`EmailWorkerProofs` proves, for any finite or infinite set of emails, any batch
size and any numbers of retries and disruptions:

| Theorem | Property | Workers |
|---|---|---|
| `TypeCorrect` | `TypeOK` | any |
| `SentDelivered` | `SentMeansDelivered` | any |
| `CopiesCurrent` | `BatchCurrent` | one |
| `GivenUp` | `GivenUpWhenExhausted` | one |
| `DuplicatesExplained` | `DuplicatesNeedDisruption` | one |
| `AttemptsLimited` | `AttemptsBounded` | one |
| `OutcomesFinal` | `OutcomeFinal` | one |

For any number of workers `IInv` is `TypeOK` with two facts about what a worker
is about to write: its copy allows another retry (`RetryLeft`), and where it
stands after a send the provider has the email (`AcceptedInv`).  For one worker
(`SingleWorker`) `SoloInv` adds that its copies are current, without any lock,
because nobody else writes the rows, and balances of what was delivered and
attempted against retries and disruptions (`DeliveryInv`, `AttemptInv`); with a
second worker these are false.

`LoginProofs` proves, for any finite set of logins and any limits:

| Theorem | Property | Logins |
|---|---|---|
| `TypeCorrect` | `TypeOK` | overlapping |
| `FailuresCounted` | `NoFailureLost` | overlapping |
| `EvictionFinal` | `EvictedStaysOut` | overlapping |
| `LockKept` | `LockNeverShortened` | overlapping |
| `ExhaustedIsLocked` | `LockedWhenExhausted` | overlapping |
| `CapHolds` | `CapKept` | overlapping |

`IInv` rests on the row locks: a request that has written the lockout or a
session holds its lock (`LockInv`, `RowInv`), so the counter is what was read
under the lock and nobody revives a row that another deletes.  `LoadedInv` says
what a request can have loaded or is about to write; with it the first two of
the last three follow step by step (`LockoutStep`).  For the cap `CapInv` says of
a login that has counted and was not overtaken that there is still room for its
session, or that one is deleted with it, since meanwhile sessions have only
become fewer (`CapInvStep`).
`LoginsAssumption`, that logins are finite, is needed to count sessions.

`ApplicationProofs` proves, for any requests and inputs:

| Theorem | Property |
|---|---|
| `TypeCorrect` | `TypeOK` |
| `ResourcesOpen` | `UsersHaveResources` |
| `AnswersAreComplete` | `AnswersComplete` |
| `NothingLeftOpen` | `ReleasedInv`: a process that has stopped left nothing open, and logs a clean stop only if it was one |

with `IInv == TypeOK /\ PhaseInv /\ ReleasedInv /\ AnswerInv`: `PhaseInv` ties the
resources, the worker and the requests to the phase of `lifespan`; `AnswerInv`
says that every answer is what `Respond` makes of something a route may end in
(`RouteResults`).  That such an answer is complete (`RespondComplete`) is shown
layer by layer, from the router outwards: a lemma for each layer (`AfterRouter`,
`AfterExceptionHandler`, `AfterCORS`, `AfterRequestLogging`,
`AfterCorrelationID`), and `OutOfIs`, by which the recursive function `OutOf`
satisfies its equations for the six layers there are.

`SchemaHistoryProofs` proves of the migration scripts:

| Theorem | States |
|---|---|
| `DowngradesUndo` | every `downgrade` there is takes the schema of its revision to that of the one before, types and extensions apart |
| `UpgradesMakeModels` | the fourteen upgrades leave exactly the tables the models declare |

The two cannot be computed by expanding the definitions, since a schema has
more than a hundred objects.  They rest on who owns what: each of the first nine
migrations creates the objects of one table of its own (`Origins`,
`PartFrom`), and the later ones add and drop single objects that are named one
by one (`Amends`, `AddedLate`).

`MigrationsProofs` proves, for any set of operators and any targets:

| Theorem | Property |
|---|---|
| `TypeCorrect` | `TypeOK` |
| `SchemaFollows` | `SchemaFollowsRevision` |
| `HeadMatches` | `HeadMatchesModels` |
| `RecordsKept` | `RecordsSurvive` |
| `CommandsApart` | `Alone`: no two open commands have claimed the version row or changed one table |

with

    IInv == TypeOK /\ Shape /\ (Course(o) /\ Work(o), for every operator o)
            /\ Alone /\ Follows /\ Kept

- `Alone`: one command at most is past the version row, and the open ones have
  changed disjoint sets of tables, because DDL waits.
- `Work`: a command that has claimed the row sees the schema of the revision it
  has reached.  One that has not has run its first script at most, and what it
  did is what that script would do to the committed schema *of now* (`Pending`),
  though others may have committed since; so when it may claim the row, because
  the revision is still the one it began at, its view is right (`Follows`).  This
  is why the row is enough and no lock is needed.
- `Kept`: once there are records the revision is the newest and stays so.  Every
  downgrade begins with that of migration 14, which adds a NOT NULL column to
  their table (`Fillable`).

The proof uses each of the three: the version check, the waits of DDL and the
wait of the application's insert for a table that a command has changed.

### Waiting in a circle

That every waiter gets its lock is liveness.  What it rests on is safety, and
proved for any number of requests:

| Theorem | States |
|---|---|
| `LocksNeverCircle` in `RegistrationProofs` | whom a registration waits for is further on in the order of the locks, key, phone, email, and then of the index entries, username, email, record |
| `LocksNeverCircle` in `LoginProofs` | whom a login waits for is further on in the order lockout row, session row |
| `HoldersNeverWait` in `IdempotencyProofs` | a holder of the advisory lock waits for no insert, and meets no live row |

`WaitsFor(r, s)` is read off the guards of the model, and `WaitsAreGuards` proves
that a request whose next lock or entry is refused waits for somebody in this
sense.  `Place` counts how far a transaction is in the order; since it grows
along every wait, there is no circle.  The proofs need invariants of their own
(`OrderInv`): a later lock is held together with the earlier ones and, for logins,
a request that has written a session row has written the lockout row before, if
at all.  The latter matters where an evicting login flushes a second time.

### Only model-checked

All safety properties of the passing runs are proved.  Only model-checked are
the liveness properties (`EventuallyAnswered` of three modules,
`EventuallySettled`, `ShutdownReleases`), which are out of the prover's reach, as is
that a request which waits for nobody has a step to take (`ENABLED`).  The
violations of section 6 are, by their nature, behaviours TLC finds.

## 5. Not modelled

`PROJECT.json` gives the reason for each component.  In short: pure
conversions (tokens, cookies, validators, templates), I/O set-up (engine,
logging) and libraries (slowapi, FastAPI) keep no state that
steps of two actors could disturb.  An additional account for an existing
identity is left out of `Registration`: its payload lacks fields that
`register_user` reads, so such a request always fails before it writes.  Also left
out there: the validation of the response.  At this commit there are no endpoints
for activation, refresh, logout or a change of status, so no action changes
`access_token_version` or `status`.  `Application` leaves out HSTS, the wording of
answers, pool limits and time (a fair step stands for a time limit), and a second
stop signal or a kill, after which the operating system closes everything;
`Migrations` leaves out column types, the offline mode of `env.py` and rows of
tables other than `idempotency_records`.

## 6. What the modelling turned up

Shown by a run:

1. "Delete the user's oldest session" (`auth/repositories/session.py:63`) orders
   by `last_active_at NULLS FIRST`, and a login leaves it NULL until the device
   is used again: the newest session goes before an older one that was used
   (run `login_evicts`).
2. `MAX_SESSIONS_PER_USER` is passed when two new devices log in at once
   (`auth/services.py:215-243`; run `login_cap`).  `CapKept` shows that the login
   that passes it was overtaken between its count and its commit.
3. "The cached value and the database can disagree for the length of a TTL ...
   the worst case is one TTL" (`docs/adr/0004:111`): a request that read the row
   before the eviction and writes the entry after it leaves the entry for longer
   (`core/dependencies.py:144`; run `session_ttl`).  The bound that holds is one
   TTL plus the time a request may take between its SELECT and its SET
   (`DisagreementBounded`).
4. "Guaranteed cleanup: `engine.dispose()` runs in `finally`"
   (`docs/adr/0001-database-engine-and-session-factory-lifecycle.md:30`).  If the
   worker is cancelled during the first send of a batch and its connection is
   broken, the rollback in `_process_email` (`workers/email_worker.py:37`) raises,
   its exception replaces the `CancelledError`, `run_email_worker` logs it and
   sleeps on, and `gather` (`main.py:107`) waits for ever (run
   `application_hang`).  A rollback that never returns has the same effect.
   `ShutdownReleases` shows that, in the model, a shutdown that does not release
   everything has lost its cancellation in one of these two ways.  The model
   assumes that closing a session returns, which nothing in the code limits
   either.

Seen while reading, not stated as findings since no document says otherwise or
no model reaches them:

- `store_idempotency_record` calls `IdempotencyRepository.add_record`, which does
  not exist (`core/idempotency/service.py:142`): the first execution under a key
  would end in `AttributeError`.  It is a fault that shows each time and needs no
  model; all properties of `Idempotency` are about the code with the method.
- With two workers, FAILED and SENT may overwrite each other and retries may be
  lost, since rows are neither locked nor skipped.  The code promises
  at-least-once delivery only.
- When logins overlap, a success may clear a lock that a failure has just set, or
  leave half of the lockout row, if the row it had loaded had a lock that had run
  out: `LockNeverShortened` and `LockedWhenExhausted` say so, and that there is no
  other way.
- `main.py` imports `_CachedResponseSignal`, which the service names
  `CachedResponseSignal`; `users/routers/system_admin.py` calls `execute`
  without its `request`; `tests/core/test_idempotency.py` is written for an
  earlier interface.
- The detail texts of `IdempotencyRequestInProgress` and
  `IdempotencyPayloadMismatch` are exchanged (`core/idempotency/utils/exceptions.py`).
- `docs/adr/0004` calls the ttl of `set_cache` a required argument; it defaults
  to 300 (`core/redis/wrappers.py`).
- The payload for an additional account has neither username nor email, both of
  which `register_user` reads.
- Downgrading past migration 09 leaves the type `idempotencystatus` behind, and
  the next upgrade fails at CREATE TYPE.  03 and 05 leave their types too, but
  08 has no `downgrade`, so only a database that never got to 08 meets those.
  Downgrading 14 fails as long as there are records (`Fillable`).
- "every error leaves the app in the standard shape" (`main.py:158`), but not a
  CORS preflight that is refused, which Starlette answers in plain text, nor the
  503 of readiness, which is a report of its checks; `ExceptionHandlerMiddleware` says `INTERNAL_SERVER_ERROR` where the
  handler of last resort says `INTERNAL_ERROR`.
- `validate_email` looks for the `+` of an alias in the part after the `@`
  (`users/utils/validators.py:149`), so no alias is refused.
- `CreateUserFromExistingIdentityAdmin` validates `self.email`, which it does not
  declare (`users/schemas/system_admin.py:168`).
- `close_email_client` is "Called in lifespan shutdown"
  (`core/email/providers.py:83`), but nothing calls it.
- `get_user_identifier` (`core/limiter.py:31`) catches `jwt.PyJWTError`, while
  `decode_access_token` raises application exceptions, so the fallback to the
  address of the client is never taken.  The login route has no rate limit, of
  which `docs/adr/0004` says that failing open "silently disables brute-force
  protection".

## 7. Plan

What is left, in this order:

1. Composition of `Login` with `SessionAuth`: the row of a session and its entry
   under overlapping logins, reuse included.
2. Pure operators: `calculate_age` and the age limits, the signed conversion of
   `compute_lock_key`, packing of cache values, against reference definitions.
