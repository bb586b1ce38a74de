# Verification of the SalesInfo API

TLA+ models of the parts of this repository that are hard to test: connection
pools, database sessions, the query result cache, the auth caches and tokens, the
application state store, migrations, startup and shutdown. TLC checks them on
small instances; TLAPS proves what matters most for every instance.

    tlc -config AsyncPoolSafety.cfg MCAsyncPool.tla
    for m in *Proofs.tla; do tlapm $m; done

## The system

One or more worker processes run a FastAPI application, each on one event loop,
over one PostgreSQL server. A request is authenticated, then runs a statement
through the query service; blocking database work runs in thread pools.

| component | state | operations | interacts with |
|---|---|---|---|
| async pool (`core/db/pool/async_pool.py`) | idle heap, `_in_use` with placeholders, waiter list, sizer, lock | `acquire`, `release`, `close_all`, `metrics` | database session (calls), executors (`_create`, close), sizer |
| sizer (`adaptive.py`) | current size, idle streak | `adjust`; warmups assign the size | both pools |
| sync pool (`sync_pool.py`) | same with one Condition | same | application state store |
| database session (`core/db/session.py`, `postgresql.py`) | both pools, a standalone adapter | sessions with rollback, warmup, close | pools, executors, metrics |
| query cache coordinator (`core/caching/query_cache_coordinator.py`) | single-flight registry, table index | `get_or_execute`, `invalidate_tables`, `clear_all`, `persist_l2` | L1, L2, persistence queue |
| L1 (`core/db/cache.py`), L2 (`query_result_cache.py`) | LRU entries with TTL per process; the table `query_cache` | get, put, invalidate, expire | coordinator; L2 is shared by all processes |
| persistence queue (`persistence_queue.py`) | bounded queue, a few worker tasks (three by default) | `submit`, `start`, `stop` | background executor, L2 |
| query service (`core/services`, `sql_policy.py`) | cost semaphores | `run` | coordinator, session |
| API keys, users, roles (`core/auth`) | validation cache, user cache, single-flight registries, revocation record with local caches, attempt counters | validate, revoke, login, change role, rate limit | state store, session |
| application state store (`core/storage`) | sync pool, transactions | `transaction`, `execute`, `fetch_*` | sync pool |
| migrations (`core/db/migrations.py`) | `schema_migrations`, an advisory lock | `apply_migrations_sync/async` | several starting processes |
| executors (`core/concurrency`) | thread pools, active counters | `run`, `shutdown` | everything blocking |
| lifecycle (`core/app/lifecycle`) | started steps, container | startup, shutdown in reverse | all of the above |
| observability queue (`core/observability/write_queue.py`) | unbounded queue, a flush thread | `enqueue`, flush, `stop` | state store |
| performance (`core/performance`), alerts | counters, histograms, sampler rate | record, sample, merge, alert | requests, state store |
| settings (`cpu.py`, `settings.py`, `config_env.py`) | sizes and limits, read once | detect CPUs, recommend, override, validate | pools, executors, limiter |
| HTTP API, logging, load test | none of their own that outlives a request | | |

What is hard in it, and so worth a model:

- Coroutines interleave at every `await`, and any `await` may raise
  `CancelledError` (a client that disconnects); a handler that awaits can be
  cancelled a second time inside its cleanup.
- A cancelled coroutine does not stop the thread it waits for.
- A timer can fire after the event it guards and before the waiting task runs.
- State read before an `await` is used after it (cache fills, role checks).
- Several processes share PostgreSQL and nothing else.
- Failures are often logged and swallowed, so the next step runs on a state the
  failed one should have changed.

`PROJECT.json` lists the hazards at their lines, with the properties that
cover each or the reason none does.

What makes each component correct:

- pools: capacity, exclusive leases, no lost wakeup, no leaked slot, everyone
  who queues is served;
- cache: one flight per key, nobody waits for a leader that is gone, a read
  after an answered write sees it, the index finds every entry;
- sessions: a connection goes back only when no thread uses it and no
  transaction is open on it;
- auth: a revoked key, token or role stops working within the documented
  window, an admin always remains, attempts are counted once;
- migrations: each one is applied once, and a crash can be repeated;
- lifecycle and queues: what started is stopped, in reverse; what was accepted
  is written or counted as dropped.

## Modules

| module | models |
|---|---|
| `AdaptiveSizer` | `AdaptiveSizer.adjust` and the warmups' assignment, as operators on a record |
| `ConnectionLease` | what a pool promises: the abstract specification of both pools |
| `AsyncPool` | `AsyncConnectionPool` with its callers, and what `DatabaseSession` does to it |
| `SyncPool` | `SyncConnectionPool` under threads |
| `StateStore` | `ApplicationStateStore` over `SyncPool`, the observability write queue and the shutdown that stops both |
| `DbSession` | a request's database call: semaphore, session, executor, driver calls |
| `QueryCache` | the read and write paths of `QueryService.run` through L1, single flight, L2 and the persistence queue |
| `KeyAuth` | API keys and the owner's record through their caches, beside revocation and role changes |
| `TokenAuth` | registration, login behind the attempt windows, JWTs and the revocation record, role changes |
| `Migrations` | the migration runner under its advisory lock |
| `Startup` (extends `Migrations`) | the startup steps of workers and of `bootstrap_admin.py`, with the seeding of the admin |
| `Lifespan` (extends `Startup`) | the whole life of a process: background jobs and the shutdown in reverse |
| `Settings` | sizes from CPUs and environment, and `validate()`, as operators |
| `Alerts` | the alert evaluator that all askers of `/api/health` share |
| `AsyncPoolProofs`, `DbSessionProofs`, `StateStoreProofs`, `QueryCacheProofs`, `KeyAuthProofs`, `TokenAuthProofs` | theorems about the module each is named for, checked by TLAPS |
| `StartupProofs` | theorems about `Migrations`, `Startup` and `Lifespan` |
| `OperationsProofs` | theorems about `Settings` and `Alerts` |
| `MC...` | instances for TLC |

`StateStore` composes the store with `SyncPool`, `Lifespan` composes startup with
`Migrations` and with the jobs that run beside the shutdown. `DbSession` takes the
async pool as what it promises, which `AsyncPoolProofs` proves of it.

### AsyncPool

A coroutine runs undisturbed between two awaits, so one action is one such
stretch. `pc[t]` says at which await a task is suspended. The lock of the pool is
held across an await in one place only, the close of a broken connection
(line 192). Everywhere else `async with self._lock` does not suspend when the
lock is free, so an action that needs it is enabled when nobody is in that close
(`~Locked`), and when somebody is, the task parks (`Park`) at a `pc` of its own,
where it can be cancelled. `asyncio.Lock` wakes its waiters in order; the model
lets them go on in any order and lets newcomers pass, which covers the code's
orders.

`_in_use` is three variables: connections (`inUse`), placeholders of running
`acquire()` calls (`slots`), and placeholders whose call has ended (`orphans`).
`Size` is `len(_in_use)`. `waiters` is the list of events, each written as its
task; `Dead` is the event of a task that was cancelled twice and is still listed.

| code | actions |
|---|---|
| `acquire()`, under the lock | `AcquireIdle`, `AcquireReserve`, `AcquireEnqueue`, `AcquirePark` |
| woken, loops | `Calling` with `pc = "waiting"` and the event no longer listed |
| `wait_for` times out | `TimeOut`, `GiveUpParked` |
| `_create()` returns / raises | `FinishCreate` / `CreateFails`, `UnreserveParked` |
| `release()` | `Return`, `Discard` then `FinishDiscard`, `ReleaseUnknown`, `ReleasePark` |
| `CancelledError` | `Cancel`, one disjunct per place |
| `metrics()`, `warmup_async()` | `Metrics`, `WarmupBump` |
| `close_all()`, `DatabaseSession.close()` | `CloseAll`, `Detach` |

Left out: the order of the heap (any idle connection may be taken), the
counters that `metrics()` only reports, the clock (a timeout may fire whenever a
task waits). A closed connection's name may be used again by a new one.

`TimeOut` may fire although the event is already set: in every Python version
`wait_for` cancels the inner wait and raises `TimeoutError` if the timer runs
before the woken task.

### QueryCache

A request is a task of one process. A statement is a key (a cacheable query) or a
write. A query's rows are, per table it reads, how many writes that table had
seen, so an old result is a smaller number. `Reads`/`Touches` are the tables a
statement depends on or changes; `KeyNames`/`WriteNames` are what
`extract_tables()` finds in its text, which need not be the same.

| code | actions |
|---|---|
| `get_or_execute()` up to its first await | `StartRead` (L1 hit, leader, follower) |
| the L2 read in a thread | `L2Read`, `L2ReadFails` |
| `_resolve()` after it | `FinishL2Hit`, `RunQuery`, `FinishMiss`, `QueryFails` |
| `set_result`/`set_exception`, `finally` | `Settle` |
| cancellation | `CancelLeader`, `CancelFollower`, `CancelWriter` |
| write path of `run()` | `StartWrite`, `Commit`, `WriteFails` |
| `_invalidate_after_write()` | `InvalidateTables` then `DeleteL2` per name, or `ClearAll` then `ClearL2` |
| persistence queue workers | `PersistL2` |
| TTLs, `cleanup_expired_cache()` | `ExpireL1`, `ExpireL2` |
| process death and restart | `Crash` |

The coordinator's lock is only held for dict operations and never across an
await, so it never suspends anybody and is not modelled. `since`, `acked` and
`disturbed` are history variables that only properties read. A write that is
cancelled while its statement runs in a thread may commit or not; the model lets
it commit at the cancellation, the latest point a property can tell it from a
later commit being that no answer is ever given for it.

Left out: LRU order (a full L1 evicts any entry), access statistics, row limits,
cost classes, the scope check, and queries inside an explicit transaction (the
service has none).

### SyncPool and StateStore

One lock guards the pool and is given up only while a connection is created, so
an action is what a thread does from one acquisition of the lock to the next.
`Looking` threads are about to take it, in any order. `silent` is a history
variable: capacity came up and nobody was notified (a failed creation, a size
raised by `metrics()`, `close_all()`).

| code | actions |
|---|---|
| `SyncConnectionPool.acquire()` | `Call`, `TakeIdle`, `Reserve`, `Wait`, `TimeOut`, `Exceed`, `Create`, `CreateFails` |
| `release()`, `close_all()`, `metrics()` | `Release` with `Notify`, `CloseAll`, `Metrics` |
| `execute()`, `fetch_*()` | `RunOne`, `One` |
| `transaction()` | `RunTransaction`, `Begin`, `WriteItem`, `EndBody`, `Commit`, `Rollback`, `Restore`, `Leave` |
| write queue | `Enqueue`, `Drain`, `RecordFails`, `Stop`, `JoinEnds`/`JoinTimesOut` with `FlushRest` |
| `disconnect()` | `Disconnect`, which also closes connections in use |

A connection is four facts: autocommit, transaction, what the transaction has
written, alive. Committing an aborted transaction is a rollback that says
nothing, as in PostgreSQL. The store never tells its pool that a connection
broke, so a dead one goes back and is lent again: `IdleInAutocommit` speaks of
those alive.

### DbSession

One step of a thread is one driver call (`begin`, `declare`, `fetch`, `close`,
`commit`, `restore`, ...): psycopg2 serialises the calls made on one connection.
`pc` is the coroutine, `main` the job its statement runs in, `undo` the job of
its rollback. A cancelled coroutine leaves a running job behind.

`fetch_bounded()` comes in two kinds. A `"query"` is what `QueryService` calls, with
a timeout, and it always fails: `SET statement_timeout` is the first `execute()` of
the named cursor (line 494), psycopg2 sends it as `DECLARE ... CURSOR FOR SET ...`,
and the server refuses it. `Declare` aborts the transaction, and the way out is
`Rollback` and `Restore`; the second `execute()` at line 529 and the close of the
cursor send nothing. A `"stream"` is the same without a timeout, the default of the
parameter, and has the whole path of declare, fetch and close. No caller passes
`execute()` or `fetch_*()` a timeout, and theirs is not modelled. `QueryCache` is a
model of the service over a database that answers.

| code | actions |
|---|---|
| `async with semaphore` | `EnterSemaphore`, `GiveBack` in every way out |
| `get_async_session()` | `Acquire`, `AcquireFails`, `Resume`, `Undone`, `Finish` with `Release` |
| `CancelledError` | `CancelWaiting`, `CancelAwaiting`, `CancelUndoing` |
| `fetch_bounded()` | `Begin`, `Declare`, `Fetch`, `Close`, `Commit` or `Rollback`, `Restore` |
| `execute()`, `fetch_one()`, `fetch_all()` | `Statement`, `Commit`, `Rollback` |
| `_rollback_transaction()` | `UndoRollback`, `UndoRestore` |
| `get_tables()`, `get_schema()` | the kind `"tables"`, on the shared connection |

`tangled` are the connections that went back to the pool while a thread still
used them, and `excused` the requests with a fault of their own or with such a
connection. Without that exception `IdleIsClean` is false: a request is
cancelled while its statement runs, and cancelled again while its rollback waits
for a thread; the connection goes back as healthy, inside a transaction that the
first thread has yet to finish.

### KeyAuth and TokenAuth

As in `QueryCache`, an action is a stretch of a coroutine or the statement it
awaits. Time is a clock that steps; entries live until a moment. `KeyAuth` has the
two caches with their single-flight registries per process, the tables they are
filled from, and the writers that evict in their own process only. `TokenAuth`
has the users' roles, the revocation record with a local copy per process, the
attempt window of one client, and the tokens that were issued.

| code | actions |
|---|---|
| `validate_api_key()` | `ValidateHit`, `ValidateMiss`, `ReadKey`, `FinishKey`, `FollowKey`, `KeyLookupFails`, `CancelKeyFollower` |
| `_get_user_with_single_flight()` | `LookUpUser`, `ReadUser`, `FinishUser`, `UserLookupFails`, `CancelUserFollower` |
| create, revoke, delete, role change | `CreateKey`, `EndKey`, `EndOthersKey`, `EvictKey`, `ChangeRole`, `EvictUser`, `EvictionLost` |
| login, registration | `Attempt`, `RecordAttempt`, `LookUp`, `Issue`, `ResetAttempts`, `LoginFails`, `Register`, `CreateUser` |
| a request with a JWT | `ShowToken`, `ReadRecord`, `UseRecord`, `RequestFails` |
| `update_role()` | `ReadTarget`, `ListAdmins`, `ChangeRole`, `Stamp`, `StoreRecord`, `StoreLocal`, `ChangeFails` |

`iat` is cut to whole seconds and `revoked_at` is not; the model keeps the whole
second of a stamp and compares accordingly.

Two handlers take the time before they wait and use it after. `validate_api_key()`
holds a key's end against the time its call began (`ReadKey`; lines 225-228), so a key
that runs out while the lookup is pending is admitted and cached;
`RevocationTakesEffect` therefore speaks of when a request came.
`check_and_record_attempt()` takes `now` before its session and its UPSERT
(`Attempt`, then `RecordAttempt`), so attempts can be recorded out of their order,
and a window is never forgotten because it is over.

### Migrations, Startup, Lifespan

A pass goes through `phase`: lock, tracking table and its column, the rows, then
file by file (`CheckApplied`, `RunStatement`, `Record`), `Unlock`, `Commit`. An
async pass commits every statement; a sync pass writes into `txn`, which replaces
`db` at its commit. `Unlock` of a sync pass whose statement failed is refused by
the server: its session keeps the lock until the process is gone. PostgreSQL is
modelled by what this meets: sessions that end drop their lock and transaction,
`ALTER TABLE` holds its table to the end of the transaction, and of two sessions
that create a table at once one fails.

`Startup` chains the passes to the steps (`EndDataStep`, `EndSchema`, `SeedAdmin`)
and to `bootstrap_admin.py` (`LookUpAdmin`, `CreateAdmin`, `PromoteAdmin`); a step
that raises ends in `"failed"` and the process exits. The worker's INSERT is two
actions: `SeedAdmin` looks for a row of the username, as `ON CONFLICT (username)`
has PostgreSQL do, and `InsertAdmin` writes the row and its index entries, where
`users_pkey` (`user_admin_` and the second) and the unique e-mail raise if another
row is there by then. An old database may have an account with the admin's e-mail
and another name (`admin = "other"`); accounts that are registered meanwhile are not
modelled. `AdminFails` is a statement of this that fails or loses its connection,
before or after its effect. `Lifespan` adds the jobs of
a serving worker (L2 writes, maintenance, snapshots) as `"idle"`, `"running"` or,
once their task is cancelled, `"orphan"` threads, and the shutdown, one action
per step in `Order` reversed. The persistence queue goes on working while `stop()`
drains it: its job may start until `StopQueue`, which stands for the cancellation
of its workers.

### Settings and Alerts

`Settings` is a pure calculation; the environment is a function on the variables
that are set. `Alerts` is one counter per kind, what the evaluator remembers of
it, and the evaluation that any health check triggers; `first` and `reported`
are history variables.

## Checks

| run | instance | shows |
|---|---|---|
| `pool_safety` | 3 tasks, 5 connection names, sizes 1..2, cooldown 2, every fault, one `Dead` entry | `CapacityBound`, `ExclusiveLease`, `WaitersAreInAcquire`, refinement of `ConnectionLease` |
| `pool_queue` | 4 tasks, 2 connections, broken connections, fair | `NoStrandedWaiter`; `QueueDrains` |
| `pool_reservation` | 3 tasks, sizes 2..3, cancellations and broken connections | violated: `ReservationsHaveOwners` |
| `pool_given_up` | 3 tasks, sizes 1..2, timeouts and broken connections | violated: `GivenUpNotWoken` |
| `cache_safety` | 2 tasks, 1 process, a query and a join, a write whose table is found and one whose table is not, L1 of one entry, queue of one job, two writes of the table, every fault | `SingleFlight`, `FollowersHaveLeader`, `L1EntriesAreIndexed`, `FreshUnlessDisturbed` |
| `cache_race` | 2 tasks, one query, one write, no faults | violated: `FreshAfterWrite` |
| `cache_followers` | 3 tasks, one query, cancellations | violated: `FollowersShareLeader` |
| `auth_keys` | 2 tasks in one process, 1 in another, a key that runs out, an owner, 2 roles, TTLs of 1, clock to 2, every fault | `RevocationTakesEffect`, `EvictionHolds`, `WaitersHaveLeader` |
| `auth_tokens` | a task in each of 2 processes, 2 users who may be admins, one attempt per window of 2, clock to 2, two events, every fault | `AdminRemains`, `RevocationReachesTokens`, `LockoutEnds` |
| `startup` | a worker and the script, 2 files of 2 statements, a fresh or an old database, 2 faults, 1 deployment, fair | `RecordedIsComplete`, `AppliedByOne`, `NothingOverwritten`, `FailuresHaveCause`, `UpOnItsSchema`, `ShutdownInOrder`; `StartEnds` |
| `sessions` | 2 requests, 1 pooled connection, the shared one, 1 permit, 2 threads, 1 fault, 2 cancellations, fair | `IdleIsClean`, `FailsOnlyForCause`, `AckedIsCommitted`; `RequestsEnd` |
| `store` | a request, the flusher and the stopper, 2 connections, sizes 1..2, 2 records, 1 fault, fair | `NoStrandedWaiter`, `IdleInAutocommit`, `AllOrNothing`, `StopFlushesAll`, refinement of `ConnectionLease`; `QueueEmpties` |

`startup` also evaluates two assumptions about `Settings`, on 1 to 64 CPUs: the
defaults are accepted, and which values of one size alone are.

Why the bounds suffice. Pools: with three tasks one can hold the lock in a close
while a second is parked with a reservation and a third queues or releases;
five connection names let one be open, closing and created at once; the sizer
goes through both of its edges. Four tasks on two connections give a queue of
two, in which a wakeup can be lost, taken by a newcomer, or passed on. Three
threads on a sync pool of one to two connections meet the same cases. Cache: two
requests are a leader and a follower, a reader and a writer, or two writers;
an L1 of one entry evicts on every second fill; the join has two index entries;
`MaxVersion`, the writes of a table, is two, so an entry is dropped, refilled and
dropped again. Keys: three tasks are a leader, a follower and a writer, and one
of them lives in a process that is not told; a TTL of one and a clock to two
give entries that are fresh, at their edge and over. Tokens: two admins are the
fewest who can demote each other, and two processes the fewest whose copies
differ; two events are two tokens or role changes. Startup: two passes of one
process meet one or two of the other in every order; two statements per file
have a middle; two faults let a failed process leave a lock and another fail
because of it. Sessions: one connection is what two requests can hand each
other dirty; two cancellations hit the statement and its rollback. Store: a
batch of two records fails halfway; a fault hits any of its steps.

`pool_queue` fixes the size and has no timeouts, cancellations or failing
creations: with them the code gives no such promise (see the hazard at
`async_pool.py:130`). `NoStrandedWaiter` of the sync pool is stated for what is
not `silent`, for the same reason. `cache_safety` has one process: the
L1 of another process is not invalidated, by design (`run_api.py`, lines
24-30), and it assumes that `extract_tables()` of a query names the tables it
reads; aliases, schemas, letter case and views are a hazard at
`sql_policy.py:98`.

Several properties hold with a stated exception, which is where the code really
gives no more:

- `FreshUnlessDisturbed`: until a write overlaps a read or a pending L2 write, or
  a DELETE in L2 fails (which `query_service.py:124-126` accepts), a read that
  starts after a write was answered returns its effect. It covers L2 rows left by
  crashed processes and by cancelled writes. `FreshAfterWrite`, without that
  condition, is refuted.
- `EvictionHolds`: but for a lookup that had read the store and not resumed, and
  for evictions that never ran. `RevocationTakesEffect` bounds what that costs:
  one TTL from the moment the key died, in every process, except for a request
  that joined a lookup under way. A request that came before that and whose lookup
  took longer is admitted late.
- `AdminRemains`: unless two demotions overlap between list and write
  (`authentication_service.py:338-348`), which nothing prevents.
- `LockoutEnds` says when a client is let in again, not how often: an attempt whose
  time is `Window` or more after the one that opened the window is allowed.
- `RevocationReachesTokens`: but for a login that read the role before the change
  and took `iat` after it, and for a revocation that failed after the role was
  written, met another of the same user, or was overwritten by a late read
  (`shared_state.py:170`).
- `IdleIsClean`, `FailsOnlyForCause`, `AckedIsCommitted`: but for `tangled`
  connections. `FailsOnlyForCause` leaves out the queries of the service, which fail
  for no cause of theirs (see below).
- `FailuresHaveCause`: a worker may fail on the row another worker inserted; the
  property asks that there is such a row.
- `StopFlushesAll`: but for records whose batch met a fault.
- `ShutdownInOrder`: but for the snapshot publisher, whose thread runs on the
  loop's default executor and may open a new connection of a closed store.

### Fairness

`AsyncPool!FairSpec` gives weak fairness to what a task inside `acquire()` or
`release()` does, per task. The event loop runs every ready task; a creation or
a close is a network call with a timeout; a holder releases, because
`get_async_session()` releases in `finally` and the statement it waits for is taken
to be answered: queries fail at once, and what the program itself sends is short.
No timeout bounds it. New calls, timeouts, cancellations and faults are not fair.
`QueueDrains` assumes in its statement that calls stop arriving at some point: a
newcomer may take the connection a waiter was woken for, so with endless arrivals
a waiter can lose every time.

`DbSession`: weak fairness for threads and coroutines, for the same reasons;
strong fairness for the waits, because semaphore, pool and executor serve first
come first served. `StateStore`: weak fairness for threads, and strong for the last
look of an `acquire()`, which its deadline guarantees. `Lifespan`: strong fairness
for the advisory lock, which PostgreSQL queues; weak for the steps of a starting
process, of a shutdown, of a job's thread, and for the exit of a process whose
startup failed or whose shutdown ended. Nobody has to start, call, stop, deploy
or fail.

### What the violated properties say

- `ReservationsHaveOwners`: a task cancelled at the lock of line 134 (or twice,
  at line 129) leaves its placeholder behind, and capacity is lost until
  `close_all()`. The comment at lines 125-128 says this cannot happen.
- `GivenUpNotWoken`: the timeout of a queued task fires, and it needs the lock to
  leave the queue; another task holds the lock while it closes a broken connection
  (line 192), goes on, pops the task that has given up and wakes it. The wakeup is
  handed to nobody; the class docstring, lines 26-29, says this never happens.
- `FreshAfterWrite`: a cache fill that began before a write lands after its
  invalidation.
- `FollowersShareLeader`: one cancelled follower cancels all of them.

### Found on the way

Three faults that the models have as they are, each at the exception it is the
reason of:

- `postgresql.py:494`: a query with a timeout, which every query of the service has
  (`query_service.py:217-221`), fails at the SET on its named cursor, although
  `query_service.py:180-182` says that PostgreSQL enforces the limit. It takes one
  request and no fault, so one test on a real server shows it; `DbSession` has it in
  `Declare`, and `FailsOnlyForCause` speaks of the other requests.
- `admin_bootstrap.py:99-107`: two workers that start at once both find no admin and
  both insert; `ON CONFLICT (username)` does not cover the primary key and the
  e-mail, and one of them fails to start. The comment at lines 86-97 says that
  "Postgres's own conflict handling makes this atomic". `Startup` has it in
  `InsertAdmin`, and `FailuresHaveCause` accepts the row that is there as the cause.
- `authentication_service.py:338-348`: two admins who are demoted at once leave none;
  each demotion lists the other one before either writes, against lines 328-329
  ("this change would demote the only remaining admin"). `AdminRemains` excepts it.

## Proofs

TLC checks small instances; the theorems below hold for every value of the
constants that the named `ASSUME`s of the modules allow. Every safety invariant
and both refinements that the runs check are proved. The invariants are seldom
inductive, so each module states a stronger one, shows that it holds at the start
(`...Init`) and that every step keeps it (`...Step`, one step per action), and
concludes each theorem from it.

The assumptions say how constants are chosen, not what the code does: sets are
finite where something is counted, sizes are positive, and values that stand for
"nothing" or for different kinds of things differ (`Nothing`, `Nobody`, `NoConn`,
`Dead` are no member of what they stand beside, `Keys` and `Writes` are disjoint,
and no record of the write queue is the statement of a transaction). No bound
such as `MaxFaults` or `MaxTime` has a limit.

### AsyncPoolProofs

| theorem | says |
|---|---|
| `TypeCorrect` | `Spec => []TypeOK` |
| `LeasesExclusive` | `Spec => []ExclusiveLease` |
| `CapacityRespected` | `Spec => []CapacityBound` |
| `QueueIsLive` | `Spec => []WaitersAreInAcquire` |
| `PoolStrandsNobody` | `Spec => []NoStrandedWaiter`, where the only faults are broken connections |
| `PoolImplementsLease` | `Spec => ImplementsLease`, the refinement |

`CapacityBound` and `ExclusiveLease` are not inductive: a step that records a
connection must know that the task still has its placeholder, and a step that
releases one must know who holds it. `PoolInv` adds `LeasesRecorded` (who holds a
connection, and that it is in `_in_use` while the pool is open) and
`SlotsRecorded` (who has a placeholder). `CapacityStep` rests on `OneMoreOrLess`,
what adding and removing one element does to a cardinality: reserving needs
`Size < current`, and no idle connection at that point, to stay within the bound;
recording trades a placeholder for a connection; returning trades a lease for an
idle connection.

`NoStrandedWaiter` counts wakeups: min(queued, grantable) tasks are on their way.
That is not inductive, because the queue may grow after a wakeup. `Owed` is: while
anybody queues, *every* grantable connection has a taker on his way. A task
enqueues only when nothing is grantable, a `release()` frees one connection and
wakes one, and a newcomer who takes what a woken task was woken for takes the
connection too. `PoolStrandsNobody` assumes `Faults \subseteq {"broken"}`, as the
run does, since the code gives no such promise otherwise: a task that has timed
out can still be woken (the run `pool_given_up`), and a failed creation frees a slot and wakes
nobody (the hazard at `async_pool.py:130`).

The refinement maps a lease to what the task holds, idle connections to
`available`, and `inUse \ HeldConns` (entries whose holder was cancelled inside
`release()`) to `stray`. `GrantStep` and `GiveBackStep` cover the steps that
move a connection, every other step stutters.

### DbSessionProofs

| theorem | says |
|---|---|
| `SessionTypeCorrect` | `Spec => []TypeOK` |
| `CleanConnections` | `Spec => []IdleIsClean` |
| `FailuresAreOwn` | `Spec => []FailsOnlyForCause` |
| `SuccessIsCommitted` | `Spec => []AckedIsCommitted` |

A cancelled request leaves its job on the thread, so two jobs of one request can
be under way, and which of them speaks to the connection is the whole
difficulty. `SessionInv` has five parts besides `TypeOK`. `InPlace` says which
jobs a request can have at each place of its coroutine, and which statements a
job of each kind has. `LeaseInv`: only its holder uses a connection that is not
`tangled`, and a connection that was given back with a job on it is tangled.
`ServerInv`: an idle connection that nothing is left on is clean, and a held one
is in the state (`InStep`) its holder's job has brought it to, or can still be
cleaned up (`Tidy`). `AnswerInv`: what a task was told is what its job did
(`Told`), and an error has a cause among the faults, cancellations and tangles
(`Means`). `PermitInv`: the semaphore's permits and the queries that have one add
up to `Permits`.

### StateStoreProofs

| theorem | says |
|---|---|
| `StoreTypeCorrect` | `Spec => []TypeOK` |
| `NobodyStranded` | `Spec => []NoStrandedWaiter` |
| `StoreImplementsLease` | `Spec => ImplementsLease`, the refinement by the sync pool |
| `IdleAreClean` | `Spec => []IdleInAutocommit` |
| `TransactionsAreAtomic` | `Spec => []AllOrNothing` |
| `NothingLeftUnflushed` | `Spec => []StopFlushesAll` |

`PoolNext` sums up what any step of the store does to the pool; `PoolInv` and the
refinement are proved of it once. `WokenForAll` plays the part of `Owed` above:
while anybody waits, as many threads are woken as there is to grant. The store's
part, `StoreInv`, says what a thread at each statement has on its connection
(`SessionsInStep`, `CallsInStep`), that what is written of a batch was committed
with all of it (`CommittedTogether`, `BatchesApart`), and where every record that
was accepted is: queued, in one thread's hands, written or in a batch that met a
fault (`RecordsAccounted`). `StopInStep` gives what `stop()` has seen of the
flusher at each of its stages.

### QueryCacheProofs

| theorem | says |
|---|---|
| `CacheTypeCorrect` | `Spec => []TypeOK` |
| `OneFlightPerKey` | `Spec => []SingleFlight` |
| `NobodyWaitsForNobody` | `Spec => []FollowersHaveLeader` |
| `EntriesAreFound` | `Spec => []L1EntriesAreIndexed` |
| `ReadsAreFresh` | `Spec => []FreshUnlessDisturbed`, of one process whose statements name alike what they share |

`RegistryInStep` relates the single-flight registry to the tasks: it names the
tasks at work, one for each statement, and who follows has one of them.
`L1EntriesAreIndexed` is inductive on top of it. Freshness needs `FreshInv`:
unless a fill overlapped a write (the run `QueryCacheRace` shows what happens
then), writes are alone, nothing in either cache, on the queue or in a task's
hands is older than what was answered before (`NothingOld`), and each write has
invalidated by the time it is answered (`Invalidated`). `OneProcess` and
`NamesMatch` are assumed because the code promises nothing without them: a write
leaves the L1 of other processes alone (`query_cache_coordinator.py:245`), and
finds entries by the names as they are spelled (`sql_policy.py:98`). Both are
listed as hazards.

### KeyAuthProofs

| theorem | says |
|---|---|
| `KeyAuthTypeCorrect` | `Spec => []TypeOK` |
| `KeysEndInTime` | `Spec => []RevocationTakesEffect` |
| `EvictionsHold` | `Spec => []EvictionHolds` |
| `LookupsAreSettled` | `Spec => []WaitersHaveLeader` |

`FlightsInv` states of both registries what `FlightsInStep` says of one: it names
exactly the leaders, and whoever waits does so on a future that can be settled.
`TimelyInv`: a validation that found a key valid began before the key's end, and
what it caches runs out one TTL after its beginning; followers are set apart,
since they take the answer to a question that was asked before they came. `EvictInv`: an entry that an
eviction should have removed is explained by a fill that overlapped it or by an
eviction that never ran, and so is what a task still has to fill in
(`FillsAreExcused`).

### TokenAuthProofs

| theorem | says |
|---|---|
| `TokenAuthTypeCorrect` | `Spec => []TypeOK` |
| `AnAdminIsLeft` | `Spec => []AdminRemains` |
| `LockoutsEnd` | `Spec => []LockoutEnds` |
| `RevocationsReachTokens` | `Spec => []RevocationReachesTokens` |

`AdminInv`: whoever is about to take admin away still leaves another, unless two
demotions overlapped. `WindowInv`: a window that counts starts at the time of the
attempt that opened it. `RevocationInv` follows a role change from the role to the
stamp, the stored record and the copies of it in each process: a token with an
old role is older than the stamp of the change under way or than the record
(`ChangesInv`), and a copy that is not the record runs out `RecordTTL` after the
record was stored (`CopiesInv`). Tokens in answers that have not left yet
(`Handed`) count too.

### StartupProofs

| theorem | says |
|---|---|
| `LifespanTypeCorrect` | `Spec => []TypeOK` |
| `RecordsTellTheTruth` | `Spec => []RecordedIsComplete` |
| `OneAppliesAtATime` | `Spec => []AppliedByOne` |
| `CommitsOnlyAdd` | `Spec => []NothingOverwritten` |
| `FailedStartsHaveCause` | `Spec => []FailuresHaveCause` |
| `ServesOnItsSchema` | `Spec => []UpOnItsSchema` |
| `ClosesInOrder` | `Spec => []ShutdownInOrder` |

A sync pass gives the advisory lock back before its transaction commits, so the
lock alone does not exclude. `Exclusive` says what does: whoever reads or runs
files, or has a transaction open, is the only one, because a pass that waits for
an open transaction at the tracking table cannot read until it has ended.
`Opened` and `Grows` say that an open transaction only adds to the database as it
is now, `InLoop` what the loop over the files has behind it and ahead of it,
`LoopOver` what a pass has achieved, and `Complete` is `RecordedIsComplete` of
the database and of what is about to be committed. `AtStep`, `RacedBySync`,
`AdminInv` and `GoingDown` carry this to the steps of the startup, the causes of its failure
and the turns of the shutdown.

### OperationsProofs

`Settings` has no state, so no invariant: each theorem expands the calculation,
with `SizesOfMachine` for what halving and doubling a number of CPUs gives, and
`DefaultLimits` for the limits the environment leaves alone.

| theorem | says |
|---|---|
| `SomeCpu` | `detect_cpu_count()` is at least one, whatever the system reports |
| `DefaultsAccepted` | without overrides, `validate()` accepts the sizes of every machine |
| `AcceptedFits` | what it accepts has what `SizerAssumption` and the model of the sessions take for granted |
| `LoneCeiling` | `dataMax` alone is accepted exactly when it reaches the floor that the CPUs give: a value that starts on 2 CPUs may be refused on 16 |
| `RecommendedExecutorFallsShort` | the recommended application-data executor has fewer threads than its pool has connections from 4 CPUs on; `cpu.py:118-122` wants a little more. `settings.py:236` overrides it for servers |
| `GrowthToldOnce` | `Spec => []ToldOnce` of `Alerts`, for any counters, gauges and askers: what a counter grew by since it was first looked at is told once and only once |

`ToldOnce` is not inductive: a counter looked at for the first time must not have
been told of yet, which `IInv` adds. This invariant has no run of its own; the
theorem stands for every instance.

### Only model-checked

The four liveness properties, `QueueDrains`, `RequestsEnd`, `QueueEmpties` and
`StartEnds`: fairness speaks of `ENABLED`, which is out of this prover's reach.
The four properties that runs find violated are counterexamples, not theorems.

## Not modelled, and the plan

Every safety property that a passing run checks is proved. What could be added:

- `DbSession` takes its pool as a set of idle connections; that this is
  `ConnectionLease` with what `AsyncPool` guarantees is argued above, and could be
  a refinement;
- the lifecycle of several worker processes with one shared result cache, which
  would join `QueryCache` and `Lifespan`.

Known, and in no model:

- `migrations.py:281-283`: two processes in a sync pass on a fresh database can
  meet before either has the tracking table; `Migrations` has it, but `startup`
  has one process that begins with a sync pass.
- `query_service.py:139`: only the request that ran a query knows that its rows
  were cut off; followers and cache hits report `truncated = False`. Rows are
  abstracted to table versions.
- `query_cache_coordinator.py:171`: an L2 hit starts a full new TTL in L1; the
  model lets entries expire at any time.
- `session.py:753`: the shared metadata connection is never opened again once it
  broke.
- `performance/adapters/transactions.py:112`: `CancelledError` passes `except
  Exception` and leaves a transaction open; no handler calls it.
- `query.py:82-103`: alerts are consumed by the evaluation although the response
  may fail after it; then nobody is told.
- `settings.py:426`: a NaN passes every comparison of `validate()`; the model's
  settings are whole numbers.
- `config_env.py:31`: unknown text is false, though the docstring says it falls
  back to the default.

Not planned: the sync mode of the lifecycle and of `DatabaseSession`, which no
server uses (only its startup is modelled); the sampler; counters, percentiles
and snapshots, which only a dashboard reads; formatting and exporting of telemetry;
request and response schemas, logging, the load test and the benchmarks. They
keep no state another part depends on.
