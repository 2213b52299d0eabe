# Models and proofs of fastapi-common

`fastapi-common` is a library of building blocks for FastAPI services: a job
queue, authentication, persistent state machines, notifications, caching, rate
limiting, audit trails, attachments, a repository layer, controllers, forms and
a good deal of plumbing. These TLA+ modules model what keeps state that several
processes, threads, requests or sessions share, and the algorithms that are
hard to get right; TLC checks them on small instances, and TLAPS proves most of
the safety properties, and that the job queue implements its abstract promise,
for any number of jobs, processes, sessions, tokens, rows, readers and files.

1. [The system](#1-the-system) — inventory
2. [Modules](#2-modules) — what models what, and what each leaves out
3. [Runs](#3-runs) — what is checked, bounds, fairness
4. [Proofs](#4-proofs)
5. [Divergences, and facts met while reading](#5-divergences-and-facts-met-while-reading)
6. [Not modelled, and what comes next](#6-not-modelled-and-what-comes-next)

Paths below are relative to the repository's root.

## 1. The system

| Component | State it keeps | Operations | What is hard |
|---|---|---|---|
| **Job queue** `jobs/adapters/db_adapter.py` | table `job_queues`; per process a scheduler thread, worker threads and their queue | enqueue, poll and claim, run, sweep, start, stop | several processes on one table; a worker writes back a row it loaded minutes ago; kills; the stale timeout |
| **Job outbox** `jobs/handle.py`, `DBAdapter.enlist` | the same table, listeners on the caller's session | perform_later, with_session; commit, rollback, close of the caller | two transactions and two listeners, racing with the poll loop |
| **Celery adapter, recurring jobs** `jobs/adapters/celery_adapter.py`, `jobs/schedule.py` | messages on a broker; triggers of APScheduler or of beat | send, dispatch, retry; add, fire | retries counted by hand; one schedule translated for two schedulers; restarts |
| **Refresh tokens** `auth/backends/jwt.py` | table `auth_refresh_tokens`, the browser's cookie | login, refresh, reuse detection, logout | overlapping requests, a crash between two transactions, a lost answer |
| **Sessions** `auth/backends/session.py` | table of sessions, a signed cookie | login, authenticate (slides expiry), logout, sweep | logout and expiry racing with a slide; two clocks |
| **One-time tokens and account routes** `auth/helpers/ott.py`, `auth/routers/` | table of token hashes; the user's flags | generate, mail, consume; magic link, recovery, reset, verification, change of e-mail, closing | check and stamp without a lock; a route failing after it consumed |
| **Registration and OAuth** `auth/helpers/flows.py`, `auth/providers/`, `auth/routers/` | users, linked accounts, state cookies | register, batches, redirect, callback | two flows of one identity; several tabs; several processes |
| **State machine** `fsm/` | a table of transitions per owner, a cached history per machine; class bodies | declaring classes; transition_to, retry_conflicts, commit, rollback | stale caches, the unique constraint, waiting on another transaction; inherited declarations |
| **Notifications** `notifications/` | notifications, subscriptions, in-memory queues | deliver over transports, list and mark, publish/subscribe, register and prune | retries that repeat deliveries, full queues, streams closing during a publish |
| **Cache** `cache/service.py` | Redis keys | get, set, get_or_set, delete, invalidate_pattern | a value computed before an invalidation and stored after it; outages |
| **Throttler** `throttler/` | counters of a moving window | hit, window statistics, clear, failing open | counters cleared under another key than they were hit; errors |
| **Audit** `audit/` | audit rows, creates that wait for their flush | record changes, flush, sweep | flush events around rollbacks and failed flushes |
| **Attachments** `attachments/` | files, the column that names one, purge jobs | direct upload, attach, replace, purge | a database and an object store that cannot commit together |
| **Database layer** `database/` | sessions, their identity maps and transactions | repository calls, Transaction blocks | who manages a transaction; instances out of date |
| **Slugs** `database/mixins/friendly/` | a unique column | before_flush | look, then insert |
| **Pagination** `pagination/`, `database/paginator.py` | none but the client's cursor | filter, sort, page | rows that change between pages, sort keys that tie |
| **Controllers** `ext/fastapi/controllers/` | class definitions, the route table | define, inherit, register, dispatch, respond | definitions shared by subclasses; the order of routes |
| **Forms and i18n** `forms/`, `i18n/` | translations, the form class | negotiate, render, validate, submit | requests of several locales share one class |
| **The rest** authorization, storage, templates, assets, validators, mailer, monitoring, openapi, logger, exceptions, testing | none that outlives a call | — | see section 6 |

How they interact: routes enqueue jobs (`perform_later`), also inside their own
transaction (`with_session`); jobs deliver notifications, send e-mail, purge
files and sweep tokens; the account routes sit on one of two backends and on
one-time tokens; cache and throttler share a Redis server; audit and attachments
follow the flushes and the fate of the caller's session, slugs and state
machines write in it. Everything meets in the database, so most hazards are
interleavings of short transactions, and most guarantees come from a row lock, a
unique constraint, or a status that excludes another actor.

What makes each part correct: a job has one holder, is not lost, ends, and is
not executed beyond its budget; an outboxed job follows its transaction; a
token family has one usable token and a revoked one none; a session that was
logged out stays out and one that was abandoned is deleted; a link is used once
and not in vain; an identity is one user; a history is a walk through declared
states; a delivery that is done finished every critical transport that is
configured; a client that pages through an ordered listing to the end misses
nothing; an invalidated value is not served; a limit is exact;
the audit trail's last word is the row; a column names a file that exists; what
a committed block reported is committed; hooks run before the routes they
guard; a page speaks one language; a schedule fires when it says.
`PROJECT.json` lists the hazards line by line.

## 2. Modules

| Module | Models |
|---|---|
| `JobPromise` | abstract: what the queue promises (wait, held by one process, settled) |
| `JobQueue` | `DBAdapter` in several processes |
| `JobOutbox` | extends `JobQueue`: sessions of callers that enlist jobs |
| `RefreshTokens` | `JWTBackend` and one browser |
| `Accounts` | one user's one-time links and server-side sessions, and the routes over them |
| `Providers` | Google, GitHub, Apple: state cookies, and what `handle_callback` makes of answers |
| `SignUps` | extends `Providers`: users, linked accounts, register, create_users, the OAuth flow |
| `Auth` | composes `Accounts` and `SignUps` |
| `Redis` | a server that answers or raises |
| `Cache`, `Throttler` | extend `Redis`: `CacheService` with readers and a writer; the registry, dependency and middleware |
| `RedisServices` | composes the two on one server |
| `Inbox`, `EventStreams`, `PushSubscriptions` | the rows and routes of a recipient; the in-memory emitter; web push registrations |
| `Notifications` | composes them with `DeliverNotificationJob` and the FCM transport |
| `AuditTrail`, `Attachments` | the flush listeners; one attachment column, storage and purge job |
| `Records` | composes the two in one session's transaction |
| `MachineClasses` | class bodies of state machines: states, transitions, guards, inheritance, removal, validation |
| `StateMachine` | extends it: `transition_to` over `SQLAlchemyAdapter` |
| `Repositories`, `Slugs`, `Paging`, `Controllers`, `Forms`, `CeleryJobs`, `Schedules` | one part each, as in the inventory |
| `Application` | composes these with `StateMachine`: what an application builds on the library |
| `MC...` | constants, scenes and symmetry for TLC |
| `JobQueueSafety`, `OutboxSafety`, `RefreshTokensSafety`, `AuthSafety`, `RedisServicesSafety`, `RecordsSafety`, `NotificationsSafety`, `ApplicationSafety` | theorems about the module they are named after (`Outbox`: `JobOutbox`) |

Composition comes in two forms. Where parts share rows or a server (`JobOutbox`
on `JobQueue`, the two services on `Redis`, `Notifications` over its three
parts, `Records`), actions of the composed module are conjunctions of actions
of its parts. Where they share nothing (`Application`, the halves of `Auth`), a
variable says what a behaviour is about, which keeps the product of unrelated
states out of the check without hiding any behaviour of a part.

Operators introduced as "Mutant" are variants of the next definition with a
plausible bug. No specification uses them; they show that a property notices.
History variables are marked as such where they are declared.

### Jobs

**JobQueue.** `row` is the table, `locked` the rows an open `SELECT ... FOR
UPDATE` holds. Per process: `poll` is where `_poll_and_dispatch` is (select,
commit and submits are three steps), `queued` the work items of its executor,
`run` the row each worker loaded, `sweep` the verdicts `_sweep_stale` has
formed but not committed, `mode` whether it is up. A run is `RunStart` and
`RunSucceed` or `RunFail`, which write the *loaded* attempts plus one and,
because SQLAlchemy sends only what changed, the status only if it differs from
the loaded one. `RunLost` is a run that ends without its commit: `perform`
raised what `except Exception` lets through, or the last commit failed. `Crash`
forgets a process's memory and releases its locks;
`Stop`/`Stopped` is `shutdown(wait=True)`, under which claimed jobs still run.
Time is two Booleans of a row, `due` and `stale`; `SlowTimesOut` ages a row that
is being worked on, at most `MaxSlow` times, and the job is `late` from then on:
a second worker gets it, and each of the two may write over what the other
did, so FAILED may become RETRYING again. The safety properties are about
the jobs that are not late (`Timely`), with late ones beside them; that a deleted
row stays deleted holds for all. Left out: the order among equal
priorities, the order inside the executor, error texts, ticks that change
nothing, statements the database aborts to resolve a deadlock.

**JobOutbox.** `perform_later` is `Enqueue`: it commits the row ENQUEUED in a
session of its own. `Enlist` then sets PENDING in the caller's session, `Flush`
sends and locks, `Commit` and `RolledBack` start a round of listener calls
(`Promote`, `Discard`), each in its own transaction. `Close` is what the
session dependencies do when a handler raises: the database rolls back and no
listener is called. `Die` is the death of the caller's process.

**CeleryJobs.** One Celery task runs every job class and retries it by hand. The
broker hands a message to one worker, which acknowledges before it runs (the
default). Hooks before, after and on failure may raise; a job class a worker has
not imported, `retry_on`, `max_attempts` of 0 and a worker's death are modelled.

**Schedules.** `AsApscheduler` and `AsCelery` are the translations of `cron`,
`interval` and `once_at` for the two schedulers, `Means` is what a crontab says
by its own reading, `Owed` what a trigger must do at an instant; servers start,
stop and start again. An instant is its calendar fields; patterns are
a star or one value, and days of the week are left out.

### Accounts

**RefreshTokens.** One browser, whose cookie is `jar`, may have several requests
under way. Each await of `refresh` and `logout` is a step of its own. `Attaches`
is the `attach` argument of `refresh`; `dead`, `mingled` and `lost` are
histories (revoked families, families with overlapping requests, lost answers).

**Accounts.** Every await of a route is a step: generate a token and mail it,
click, check, stamp, commit, do what the link is for. A route whose database
calls are not awaited (`Unawaited`) raises after the stamp. Sessions slide
their expiry in `authenticate`, are revoked by `logout`, marked by an expired
request and swept at night (`SweepRead`, `SweepCommit`). `aware` says whether
the database returns aware datetimes: it decides which half of the code works
(section 5).

**SignUps** and **Providers.** A flow redirects from a process with its own or a
shared `state_secret`, takes the provider's cookie along (a second tab
overwrites it), and returns with what the provider says: an address, none, or
an error. `find_or_create_oauth_user` is look for the account, look for the
address, insert, each a step of its own; addresses are unique, the pair of
provider and subject is not. Users may change their address or be deleted.

### Services

**Cache.** A call of `get_or_set` is look, compute, store; readers may also call
`get` alone; the writer changes a row and then sets its key, deletes it, or
scans and deletes by pattern, key by key. An outage may begin and end between
any two Redis calls; a call that raises counts as a miss, or as done.

**Throttler.** Counters are the ages of the entries in a moving window, as the
`limits` library keeps them. The dependency and the middleware both ask; the
registry may be unconfigured, enabled or disabled at any time.

**Notifications.** `DatabaseTransport` writes, then the others run together:
web push suspends, SSE and FCM do not. A transport that
`configure_notifications()` did not equip returns at once: it finishes and
delivers nothing (`Equipped`). A run that raises, in a transport or before any
(`PerformRaises`), is repeated; one that is killed is repeated without being
counted. **Inbox** has the listing in its
two statements, the marking request with its own commit, and archiving.
**EventStreams** has `publish` looping by index over a list from which closing
streams remove themselves. **PushSubscriptions** has the read and the write of a
registration as steps, unregistration, and pruning after a 410.

### Records

**AuditTrail.** A flush is before_flush, the audit INSERT with its stamp, the
write (which waits for the row's lock) and after_flush, which queues the CREATE
record for the next flush. `blur` names why the last writer's record may not
tell the row. **Attachments.** Presigned upload and confirmation (of one key by
any number of requests: nothing in the code stops the second), assignment,
replacement, `purge()` with its job committed on its own, rollback and commit
with what sqlalchemy-file deletes at each.

### What an application builds

**MachineClasses** executes class bodies statement by statement, as the
metaclass and the decorators do, with bases before classes. **StateMachine**:
one owner, several workers, each with a machine on a session; `Decide` reads
the history from the cache if there is one; guards, callbacks, the SELECT of
the most recent rows and the flush follow as steps; `FlushConflicts` rolls the
whole transaction back and keeps the cache, as the code does. Guards and
callbacks may pass, fail or raise; that they call the same machine again is left
out.

**Repositories.** A session has an identity map, what its transaction has
written, and the stack of `Transaction` blocks it is in, each with the
`_should_manage` it was built with. Calls are one step each. **Slugs**: each
row's search for a free slug is a step of a flush, and writing them all is
another. **Paging**: filter, sort
columns (none asked for, and models without an id, included), cursor or offset, a to-many join that multiplies rows; a page is the
entries with few enough others ahead, and cutting it is fastapi-pagination's.
**Controllers**: metaclass, decorators, the order in which routes are tried
(`Patterns` and `Braced` tell a segment `{id}` from one like `n{id}`, which the
code does not count as a parameter),
dispatch, hooks with `only`/`exclude`, and the response helpers under
each template engine. **Forms**: locale negotiation, rendering field by field
with an await between, the translation of labels (twice) and of options (in
place), validation and submission.

## 3. Runs

Deadlock checking is off: inputs are bounded (calls, flushes, crashes are
counted), so every system may come to rest; what must not stop is stated as
liveness.

| Run | Shows |
|---|---|
| `job_queue` | `OneHolder`, `OrphanOnlyByCrash`, `BudgetLeft`, `AttemptsCounted`, `EndedForGood`; the refinement `KeepsPromise` of `JobPromise` |
| `job_queue_wild` | without row locks, with a slow job and a kill, every job still ends (`Settles`) |
| `job_outbox` | a job with a wait that outlasts its transaction runs only once that committed (`WaitersRunCommitted`), committed jobs are kept (`CommittedIsKept`) and end (`CommittedSettles`), PENDING is promoted (`PendingIsPromised`) |
| `refresh_tokens` | one usable token per family, revoked families stay dead, reuse is no accident, REVOKED is final |
| `accounts` | `LogoutIsFinal`, `SecondUseOverlaps`, `SpentServes`, `OneUserPerIdentity`, `SessionsAreSwept` |
| `redis_services` | `ReadsAfterInvalidation`, `LimitHolds`, `RefusedOnlyWhenUsedUp` |
| `notifications` | `DoneMeansDelivered`, `PagingMissesNothing`, `OpenStreamsAreServed`, `KeysStayHome` |
| `records` | `TrailTellsRow`, `RecordsHaveTheirFiles` |
| `application` | `HistoryIsAWalk`, `OneMostRecent`, `EveryCallEnds`; `ReportsAreTrue`; `ClashesAreRaces`; `PagesMissNothing`; `HooksGuardRoutes`, `StaticRoutesFirst`; `PagesSpeakTheirLanguage`; `CeleryBudget`; `FiresWhenItShould` |
| `outbox_early` | *violation*: a job enlisted without a wait runs before its transaction commits |
| `cookie_rotation` | *violation*: the second refresh of a well-behaved browser revokes its family |
| `transaction_blocks` | *violation*: a block entered after a statement ends well and nothing is committed |

Each property is stated, and explained, where it is defined.

### Bounds

Two of each actor give every pairwise race; the other bounds are the smallest at
which each case happens.

| Run | Instance |
|---|---|
| `job_queue` | 2 processes x 2 threads (alike), 2 jobs of different priority, 2 attempts (retry, last retry, failure), 1 job that outlives the stale timeout, 1 kill or lost run, 1 graceful stop |
| `job_queue_wild` | 2 processes x 1 thread, 1 job, 2 attempts, no SKIP LOCKED, 1 run slower than the stale timeout, 1 kill or lost run |
| `job_outbox` | 1 process x 1 thread, 2 jobs, one of which may come due early, 1 attempt, 1 session with 2 transactions that may be closed, 1 death of the caller; no SKIP LOCKED, slow sweeps, 1 slow run |
| `refresh_tokens` | 3 tokens (a login and two successors, or two logins and one), 2 families, 2 requests, 1 lost answer or dead handler |
| `accounts` | links and sessions: 1 token, 1 session, 2 requests, lifetimes and grace of 1 on a clock to 6, 1 database error, naive or aware datetimes; people: 2 users, 2 addresses, 1 identity at any of the 3 providers, 2 flows (idle tabs are alike), 1 form with one address or a batch, 2 processes with different secrets, 1 move |
| `redis_services` | 2 keys, 2 readers, 2 writes, 2 outages; limits of 1 (namespace) and 2 (custom) in a window of 2 |
| `notifications` | 3 rows in pages of 1, 3 streams with queues of 1, 2 users on 1 endpoint, 2 callers, 2 devices, 2 attempts, 1 kill; all transports without clients, all of them with only FCM configured, or the transport a kind of client meets with that kind |
| `records` | 2 sessions, 2 values, 2 files, 3 flushes, 2 rollbacks, 2 tries of a purge; two writers, two owners and clients that upload directly, or one session that is both |
| `application` | machine: 2 workers of a class and its subclass, states with a cycle, 1 retry, 3 calls; repositories: 2 sessions, 1 row, 2 values, 2 nested blocks; slugs: 2 sessions, 3 posts, empty and equal titles, 3 tables to begin with; paging: 3 rows, size 1, 3 orders or none, a model with or without an id, 1 change; controllers: a base, a class that inherits it and one apart with a parameter inside a segment, 3 template engines; forms: 2 requests, 2 locales, strict or lenient; Celery: 2 tasks, 2 workers, 2 attempts, 1 kill; schedules: 2 servers and beat, 5 instants, 4 schedules, 4 starts |

Scenes and subjects are not abstractions of an interaction: the clients of
`Notifications` meet the delivery, never one another, and the subjects of
`Application` have no variable in common. `records` keeps one scene with both
parts in one session because that is where they meet. Symmetry is used only in
runs without liveness, over sets whose members play the same part.

Conditions in the properties are those under which the code gives the
guarantee. `OneHolder`, `BudgetLeft`, `AttemptsCounted` and `KeepsPromise`, and
`EndedForGood` as far as DONE and FAILED go, leave out the jobs that have
outlived the stale timeout, while such jobs run beside the others;
`OrphanOnlyByCrash` is about behaviours without any. `DoneMeansDelivered` is
about critical transports that are configured. `OneActive` and `RevokedStaysDead` exclude families with overlapping
requests, since two overlapping refreshes do leave two usable tokens.
`ReuseIsNoAccident` excludes lost answers. `HistoryIsAWalk` excludes machines
that re-read their history, had their session rolled back and went on
(`phantom`). `SpentServes` is about the routes that await their calls.
`OneUserPerIdentity` excludes two flows that both found the identity unlinked.
`ReadsAfterInvalidation` excepts values computed before the write and stored
after it, and swallowed deletes. `PagingMissesNothing` and `PagesMissNothing`
except rows written meanwhile, and `PagesMissNothing` listings that nobody
sorted or whose model has no id: `Filter.sort()` gives those no order, or one
with ties, so each page may be cut from another order. `OpenStreamsAreServed` excepts a publish during
which an already served stream closed. `TrailTellsRow` excepts three named races
(`blur`), `RecordsHaveTheirFiles` a file purged by a transaction that rolled back
or is still open, and one whose key was confirmed more than once.
`HooksGuardRoutes` grants a class its own hooks unless a subclass that shares
the route was defined between its definition and its registration; then it says
whose hooks run instead. `StaticRoutesFirst` is about segments that begin with
their parameter. `FiresWhenItShould` asks a firing of every process that is up,
by its start, but for `once_at` and seconds under Celery, which that adapter
drops. These
exceptions are limits of the code; section 5 lists where they come from.

### Fairness

`JobQueue`: the scheduler keeps ticking and starves no interval job, a worker
takes a waiting item and `perform` returns or raises, backoffs and the stale
timeout of an abandoned row elapse, and a process that is down is started
again. Nothing is assumed about kills, stops or slow jobs. `JobOutbox` adds
that callers end their transactions and listeners run. `Auth`: time passes, the
nightly sweep runs, and a request that is under way proceeds (`SessionsAreSwept`
needs these and no request to come). `Application`: a running `transition_to`
proceeds when it is not waiting for a lock, and a caller ends its transaction.
Weak fairness is enough throughout, because crashes, calls and errors are
bounded.

## 4. Proofs

Safety and one refinement, for every value of the constants; each invariant was
checked with TLC before it was proved. The last step of each theorem is
temporal, the rest is one lemma per action (or per kind of step), and under it
one step per conjunct the step can disturb. Few of the properties are inductive;
what follows says, per module, what had to be added and why.

| Module | Theorems (property) | Assumed beyond the modules' ASSUMEs |
|---|---|---|
| `JobQueueSafety` | `TypeCorrect` (`TypeOK`) | — |
| | `OneWorker` (`OneHolder`), `WithinBudget` (`BudgetLeft`), `EndsForGood` (`EndedForGood`), `QueueKeepsPromise` (`KeepsPromise`), `ColumnCounts` (`AttemptsCounted`) | `Prompt` |
| | `OrphansComeFromKills` (`OrphanOnlyByCrash`) | `Prompt`, `Broken = {}` |
| `OutboxSafety` | `WaitersAreSafe` (`WaitersRunCommitted`), `PendingIsPutBack` (`PendingIsPromised`), `CommittedStays` (`CommittedIsKept`) | — |
| `RefreshTokensSafety` | `OneUsableToken` (`OneActive`), `DeadStaysDead` (`RevokedStaysDead`), `RevokedForGood` (`RevokedIsFinal`) | — |
| | `ReuseHasACause` (`ReuseIsNoAccident`) | `Attaches` |
| `AuthSafety` | `LogoutHolds` (`LogoutIsFinal`), `LinksAreSingleUse` (`SecondUseOverlaps`), `LinksServe` (`SpentServes`), `IdentityIsOneUser` (`OneUserPerIdentity`), `AuthTyped` (`TypeOK`) | — |
| `RedisServicesSafety` | `ReadsAreFresh` (`ReadsAfterInvalidation`), `LimitNeverExceeded` (`LimitHolds`), `RefusalsAreEarned` (`RefusedOnlyWhenUsedUp`) | — |
| `RecordsSafety` | `FilesKept` (`RecordsHaveTheirFiles`), `TrailIsTrue` (`TrailTellsRow`) | — |
| `NotificationsSafety` | `SubscriptionsStayHome` (`KeysStayHome`), `PublishReachesOpenStreams` (`OpenStreamsAreServed`), `PagesShowAll` (`PagingMissesNothing`), `DoneIsDelivered` (`DoneMeansDelivered`) | — |
| `ApplicationSafety` | `HistoriesAreWalks` (`HistoryIsAWalk`), `LastIsMostRecent` (`OneMostRecent`) | `UniqueKeys` |
| | `CallsReportTruly` (`ReportsAreTrue`), `LabelsSpeakTheirLanguage` (`PagesSpeakTheirLanguage`), `CeleryWithinBudget` (`CeleryBudget`), `FiresOnTime` (`FiresWhenItShould`), `SlugsClashOnlyInRaces` (`ClashesAreRaces`), `PagesAreComplete` (`PagesMissNothing`), `HooksComeFirst` (`HooksGuardRoutes`), `StaticBeforeParameters` (`StaticRoutesFirst`) | — |

The assumptions are about how the code is deployed or called. `Prompt`: the
database has SKIP LOCKED, and a sweep commits within the shortest backoff.
Without it the results are false. Jobs that run longer than the stale timeout
are not assumed away: such a job is given to a second worker and loses its own
guarantees, and the theorems say that no other job does.
`Broken = {}`: job classes resolve; a row whose class does not is dropped by its
worker and stays RUNNING without a kill. `Attaches`: `refresh` sets the cookie,
its default; the route of the library does not (`cookie_rotation`).
`UniqueKeys`: the table has the `UNIQUE(owner_id, sort_key)` that
`make_transition_table` creates; a hand-written table may lack it.

**The job queue** (`IInv`). A poll loop must not commit a batch somebody else
has taken since its SELECT (`SelectedIsReserved`); a worker must not write back a
status that revives or steals a row (`HeldIsRunning`, `LoadedIsCurrent`); a
sweeper must not requeue a job that is held (`SweptIsIdle`, where `Prompt` is
needed). `EndsForGood` and the refinement are properties of steps, proved from
`IInv`: each step changes the holder and the phase of the one job it is about
as the promise allows, and leaves those of the others (`LooksTheSame`).
`ColumnCounts` counts apart, per job, an execution under way (`Counted`).

**The outbox** (`OutboxInv`) holds without `Prompt`: what the queue does is used
only through what a step may do to a row (`RowMoves`) and to the work on it
(`WorkMoves`). A job is enlisted by one session at most (`EnlistedOnce`); once
its transaction was undone its row is gone or about to go (`UndoneIsGone`); a
waiting job does not come due before, so it is in no batch (`WaitersWait`); and
only a run removes a row a transaction has enlisted (`EnlistedIsKept`).

**Refresh tokens** (`IInv`). What a handler read before an await still holds when
it writes, as long as it is alone in its family (`Relies`): ACTIVE until it
rotates, no usable token between the two transactions, and a revocation has
selected every usable one. `ReuseHasACause` adds that the cookie is not a
rotated token unless an answer is on its way (`Browser`).

**Links, sessions and logins** (`AuthSafety`). Rows a request is about to insert
are its own (`LoginsAreAlone`, `AskersAreAlone`), what is worked on exists
(`RowsExist`, `KindsAgree`), a logged-out session is past reviving by what is in
flight (`DeadIsUseless`), a request that came later gets no further than reading
the row (`LateIsRefused`), and a token two requests hold at once is in `crossed`
(`OneTaker`). What a flow found stays so because accounts are only added
(`FoundIsLinked`, `AnsweredIsLinked`); a flow that found none is alone with its
identity or both are in `raced` (`UnfoundIsAlone`).

**The cache.** Only what a scan has passed is known to be current while it runs
(`PassedIsCurrent`), a value in Redis is not older than the last finished
invalidation (`CachedIsClean`), and a reader's floor was reached before it asked
(`ReadersAreAhead`).

**The throttler** (`ThrottleInv`). For every age the storage has counted as many
younger hits as the two histories have (`CountersAgree`); a bound on lengths
alone is lost when the window slides. The younger hits are a front of each log
(`YoungerIsFront`), from the least-number principle, which `WFMin` of the library
gives without an operator parameter (`LeastNatural`).

**The audit trail** (`AuditInv`). A session that wrote nothing has no record of
its own in the table (`LeavesNothing`). What is queued for a CREATE record is of
the flush under way or of one that failed (`QueuesItsOwn`). A flush has put in
the table, last of its session's records, what it is about to write
(`FlushTells`). Once the row is written, by a writer with an empty `blur`, the
CREATE record still to come or the last of all records but those of other open
transactions tells it (`LockTells`); the commit of that writer then makes it the
trail's last.

**Attachments.** The file a commit is about to name, unless its key was confirmed
twice, is in storage and in nobody else's hands (`PendingIsOwn`, `FreshIsOwn`, `KeysAreClients`), a pending purge is
of a file the column will not name again (`PurgedIsReplaced`, `JobsAreKnown`),
and everything named was uploaded once (`EverythingIsUsed`).

**Notifications.** A request that found a subscription under an id found its own
user's, and while that id is there the owner is the same (`FoundOwn`); an open
transaction leaves rows of its own user, under ids nobody else has read
(`LeavesRow`). The streams a publish still owes a message are in the list at or
behind its index (`PublishAhead`), the rows a client is still owed are on pages
to come (`OwedBehind`: counting the rows newer than a row), and a run that
fanned out to its transports has every critical one that is equipped pending or done
(`CriticalCovered`).

**State machines** (`MachineInv`). The table, and the view every session has of
it with its own rows, is a history whose keys count its rows and whose last row
alone is most recent (`Orderly`, `ViewsAgree`); the unique key lets one
transaction write at a time (`OneWrites`); a call goes by a history that was one
(`CallsDecided`). All of it is given up once a `phantom` wrote.

**Repositories, forms, Celery, schedules.** What a session's calls promised of a
row is what its next flush leaves there, and nothing is promised outside a block
(`SessionKeeps`); a request's page, labels and
locale agree at every await (`RequestSpeaks`); a task is on the broker or with one
worker, and was performed no more often than the retries it carries say (`TaskCounted`, `WorkerCounted`); both translations of
a crontab select the instants it means (`PatternsMean`), and the triggers that
are due are those that owe the instant (`TriggersAreDue`).

**Slugs** (`SlugsInv`). A session to itself has its rows (`RowsAreApart`), the
slugs of the table and of every session's view differ (`SlugsAreApart`), and a
slug a flush found is free in that session's view and among the slugs found
before it, unless it arrived since or was given by hand (`SlugsAreFound`): that
is what is left of the SELECT once other sessions commit.

**Listings** (`PagingInv`). The id makes the order of a listing total and so the
only one (`BeforeIsTotal`, `OrderIsBefore`). A cursor has shown every untouched
row up to its own, though perhaps not all its copies, and none after it
(`CursorSaw`, by transitivity of the order); an offset has shown each row's
copies with fewer than that many entries ahead (`OffsetSaw`).

**Controllers** (`ControllersInv`). A definition has the hooks of the last class
defined that shares it (`LastGivesHooks`), and a handler those its definition had
when it was built (`BuiltWithHooks`). That a path without parameters sorts
before one that matches it needs only that no segment is a pattern
(`StaticFirst`).

Model-checked only:
- liveness (`Settles`, `CommittedSettles`, `EveryCallEnds`, `SessionsAreSwept`):
  fairness and ENABLED are beyond the prover;
- the type invariants of the parts without a theorem of their own.

## 5. Divergences, and facts met while reading

Three runs show a documented statement failing, with the quotations in
`PROJECT.json`: `outbox_early`, `cookie_rotation`, `transaction_blocks`.

The following came up while translating the code; the models contain most of
them, as behaviour or as the exception of a property.

*Accounts.*
- One-time tokens compare `datetime.now()` with the stored expiry, sessions
  `datetime.now(UTC)`: no database serves both, since Python refuses to compare
  naive with aware datetimes.
- On an async engine `s.get`, `s.exec`, `s.commit` and `s.flush` are called
  without await in reset_password, verify_email, verify_email_change,
  change_password and account deletion, so these raise, some after the link was
  consumed and committed (`auth/routers/passwords.py:99`); a synchronous
  engine's `Session(engine)` has no `exec`. The first OAuth login of an unknown
  address fails for the same reason (`auth/helpers/flows.py:319`).
- `sweep` of the JWT backend and of one-time tokens deletes nothing
  (`auth/backends/jwt.py:321`, `auth/helpers/ott.py:119`).
- `delete_users` leaves the OAuth accounts (`auth/helpers/flows.py:240`): that
  identity's logins raise from then on.
- Each provider has one state cookie, so two tabs overwrite each other;
  `state_secret` defaults to a secret per process. Apple's callback is a
  cross-site POST while the cookie is `samesite=lax`
  (`auth/providers/apple.py:302`). GitHub's address depends on whether `/user/emails` answered.
- The `/refresh` route demands a valid access token
  (`auth/routers/accounts.py:331`).
- `logout` swallows database errors (`auth/backends/session.py:126`).
- Policies: "posts:*" does not cover "posts:comments:edit", because the key is
  split at its last colon.

*Jobs.*
- A session closed without a rollback calls neither listener: the job it
  enlisted stays ENQUEUED and runs although its transaction was undone
  (`jobs/adapters/db_adapter.py:217`).
- A kill during a run leaves its attempt uncounted, so `max_attempts` does not
  bound executions (`jobs/adapters/db_adapter.py:362`). A job slower than the
  stale timeout is run twice, and the slower worker's write may turn FAILED into
  RETRYING (`jobs/adapters/db_adapter.py:430`).
- A hook that raises after `perform` succeeded makes the job run again
  (`jobs/base.py:227`). A Celery worker that dies loses its message; a Celery message
  goes out although the caller's transaction rolls back.
- Under Celery a `once_at` job becomes an interval of 100 years
  (`jobs/adapters/celery_adapter.py:215`) and never fires; seconds of a cron and jitter are
  dropped. A crontab's Sunday is 0, APScheduler's Monday is.
- Every process fires every recurring job.

*State machines.* The mixin's docstring shows a table without the unique
constraint `OneMostRecent` rests on. A conflict rolls the whole transaction back
but keeps the cache, so a retry on the same machine decides on the same history.
A class that only inherits its machine has none of its base's guards
(`fsm/machine.py:71`). `after_transition_failure` callbacks do not run for the
`TransitionFailedError` their docstring names (`fsm/machine.py:417`,
`fsm/decorators.py:89`).

*Notifications.* Failures of web push are swallowed even with
`fail_silently=False`; the router's own session never commits a registration
(`notifications/router/routes.py:94`); paging through the unread inbox while marking rows skips rows;
one transport that raises cancels the others, and all repeat. A transport that is
not configured logs a warning, and the job is DONE without it, `fail_silently`
or not.

*Audit and attachments.* An update of an expired attribute is not audited
(`audit/helpers.py:62`); creates queued by a flush that failed are written by a
later session with the same id; `purge()` is committed before its caller. A key
may be confirmed again and again (`attachments/upload.py:141`): the first record
to replace its file deletes it for the others.

*Services.* A refusal whose window statistics then fail lets the request in;
`clear()` clears the namespace's counter only; clients without an address share
one counter. The default strategy is a moving window
(`throttler/registry.py:167`), while the docstring at line 75 (and
`throttler/config.py:31`) names `FixedWindowRateLimiter`; `Throttler` models the
moving window, and its properties are about that. A failed delete of the cache
is logged and forgotten.

*Application.* Nested blocks before any statement both manage, and the inner
commits alone. `update` to the value an out-of-date instance holds sends
nothing. With `update_on_change` any dirty row gets its slug recomputed; slugs
given by hand are not reserved within a flush. Defining a subclass overwrites
the hooks of a route its base registers later; with both `only` and `exclude`,
`only` wins. A route such as `/user-{id}` counts as static when routes are
ordered (`ext/fastapi/controllers/core.py:1170`), so it may take a static route's
requests. A listing nobody sorted has no order (`pagination/filter.py:349`), one of
a model without `id` may have ties (line 357): offset pages of either may lose
rows. The texts of a select's options stay in the language of the first
request; a submission whose page cannot be rendered is answered with an error
after the service has worked.

## 6. Not modelled, and what comes next

- **Authorization**: pure functions of a user's roles and permissions, decided
  by the application's policies.
- **Storage** configures containers of a library; its object store appears in
  `Attachments`. **Templates, assets, validators, the rest of ext**: no state
  outlives a call. **Mailer, monitoring, openapi, logger, exceptions,
  testing**: plumbing around external services, and test tools.
- Inside modelled components: the Redis emitter and the e-mail transport;
  `MemoryAdapter` and machines that call themselves; thumbnails and content
  checks of attachments; engines, migrators and the building of queries;
  comparison operators and cache keys of filters; attributes, buttons and
  plurals of forms; several writers of one cached row; days of the week.
