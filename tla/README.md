# A TLA+ model of the boilerplate microservice

The service is a FastAPI application with one resource, `items`, kept in a
relational database through SQLAlchemy's async sessions.  It announces changes
of items on a RabbitMQ exchange, consumes messages from a queue of the same
broker, counts its requests, and answers health probes.  Several worker
processes run it side by side (`Dockerfile:70-74` starts four).  This directory
models the parts that keep state and interact, checks them with TLC on small
instances and proves the central results with TLAPS.

Paths below are relative to the repository; `PROJECT.json` maps every
definition to the lines it stands for.

## Inventory

| Part | Source | State | Operations | Model |
|---|---|---|---|---|
| Items API and service | `app/api/v1/items.py`, `app/services/item_service.py`, `app/api/deps.py` | none of its own; one asyncio task per request | create, list, get, PATCH, soft and hard DELETE, publish | `ItemsApi`; the answer of the list in `ItemListing` |
| Repository and table | `app/db/repositories/item_repository.py`, `app/db/models/item.py` | the `items` rows | the statements | `ItemTable`, `ItemListing` |
| Sessions | `app/db/session.py` | engine pool, one transaction per connection | `get_db`, `check_db_health`, `create_all_tables` | `ItemsApi`; the pool in `Producer`; the schema in `Startup` |
| Producer | `app/messaging/producer.py` | `_connection`, `_exchange` | connect with retries, publish, close, `is_connected` | `Producer`, its outcomes in `ItemsApi` |
| Consumer | `app/messaging/consumer.py` | connection, iterator buffer, tasks | start with retries, the loop, `_handle_message`, stop | `Consumer`, abstractly `Delivery` |
| Dispatch | `app/messaging/handlers.py` | `_REGISTRY`, filled at import | `on`, `dispatch` | `HandlerOf` and the handling stage of `Consumer` |
| Request statistics | `app/middleware/logging_middleware.py`, `app/api/stats.py` | counters under a lock | `record`, `snapshot` | `AppStats`, abstractly `AtomicStats` |
| Health probes | `app/api/health.py` | none | liveness, readiness, db, queue | the readiness probe in `Producer`, the ping in `ItemsApi` |
| Lifespan | `app/main.py` | producer, consumer task | startup, shutdown | `Startup`; its halves in `Producer` and `Consumer` |
| Configuration | `app/config.py` | read once at import | environment, `.env`, `config.yaml`, defaults | `Settings` |
| Schemas | `app/schemas/item.py` | none | validation | the sets of bodies in `ItemTable` |
| Logging | `app/logger.py` | output only | | not modelled |

How they interact: a route awaits statements on its session, then the producer,
and returns; `get_db()` commits, rolls back and closes around it.  Between any
two awaits every other task of the process may run.  Workers share only the
database and the broker.  The producer and the consumer each have a robust
connection that reconnects behind their backs.

What is hard, and therefore modelled action by action:

* transactions of concurrent requests that share rows, or a whole connection
  (SQLite's `StaticPool`, the default configuration);
* the event that is published after the write and before its commit, and the
  pooled connection that is held while the broker is away;
* the commit that comes before or after the response, by the release of FastAPI;
* failures of statements, events and commits, and the death of a worker, at
  every point of a request, of startup and of shutdown;
* deliveries that outlive their channel, retries, prefetch credit;
* connection attempts of several callers that overwrite one another's result;
* workers that create one schema at the same time;
* a client that pages through a list others change;
* counters that threads increment while others read them.

What makes each part correct is stated by the properties of its module; the
hazards of `PROJECT.json` say what could break them.

## Modules

* `ItemTable`: rows, request bodies, and what each statement does to a row.
  `name` stands for every ordinary NOT NULL column; `is_active` and
  `is_deleted` are kept because PATCH and the soft delete treat them
  differently.
* `AtomicItems` (abstract): a request takes effect on the table in one step
  (`Take`), finds no row (`Miss`), and is answered truthfully (`Answer`).
* `ItemsApi` (detailed): the routes.  `pc[r]` is the call request `r` makes
  next; one action is one awaited call.  `pending[c]` is the uncommitted
  transaction of connection `c`, `ConnOf` the connection of each request's
  session.  An injective `ConnOf` is the queue pool of PostgreSQL or MySQL, a
  constant one the `StaticPool`.  `CommitBeforeResponse` is the FastAPI build:
  releases before 0.118 exit a dependency before the response, later ones after
  it, and `requirements.txt:2` admits both.  The history variable `applied`
  collects the requests whose write was committed.
* `ItemListing`: `GET /items` as the client sees it: page after page, each from
  the statement of the page and the statement of the count, while other requests
  create and delete rows.  `created_at` is taken when a row is flushed and
  becomes visible with the commit, so rows appear in any order of it.
* `Delivery` (abstract): a queued message is acknowledged once a handler has
  processed it, rejected once its body or its handler has failed, and otherwise
  stays; only the broker can lose it.
* `Consumer` (detailed): every worker's consumer and the shared queue.
  `phase[w]` is what `start()` is doing, a task's `stage` where
  `_handle_message` stands, `epoch` tells channels apart.  `Own` and `Registry`
  are the two lists of handlers in order of registration, `Claims` says which
  messages a pattern matches.  The broker's actions are external.
* `Producer`: `connect()` run by the lifespan and by requests at once, the
  routes' decision to publish, the sessions and the pool of the requests that
  wait for it, the readiness probe, and `close()`.
* `Settings`: how `settings.database.url` results from its four sources.  A YAML
  document is a function on its keys, so that a missing key, a key without a
  value and a section without keys are three different things.
* `Startup`: the lifespan of all workers: import, the statements of
  `create_all()`, the connections, and shutdown in the order of
  `main.py:71-81`.  `table` is the committed schema, `pending[w]` what the open
  transaction of a worker has created of it; `Transactional` says which
  databases roll DDL back.  `producer[w]` is the `_connection` of the producer
  (unset, without an exchange, with one, closed), `link[w]` whether the
  `_connection` of the consumer is open, `left[w]` whether a connection was
  replaced while it was open, and the history `broken[w]` whether an attempt or
  a `close()` has failed and left a connection open.
* `AtomicStats` (abstract): a request is counted in all its counters in one step
  (`Record`), a reader is shown all counters in one step (`Show`).
* `AppStats` (detailed): `record()` and `snapshot()` with each `+= 1` split into a load and
  a store, on any number of threads, for the one worker process that owns the
  object.  Under a single event loop they are never interrupted; the class
  promises more, and that is what is checked.  `unread[r]` is what the snapshot
  of reader `r` has still to read; the variables `recorded` and `before` are
  history.
* `MCItemsApi`, `MCConsumer`, `MCStartup`, `MCAppStats`: values for the
  constants.  `Producer` and `ItemListing` need none.
* `ItemsApi_proofs`, `ItemListing_proofs`, `Consumer_proofs`, `Producer_proofs`,
  `Startup_proofs`, `AppStats_proofs`: the theorems.

Modules compose by refinement (`ItemsApi` implements `AtomicItems`, `Consumer`
implements `Delivery`, `AppStats` implements `AtomicStats`), by extension (`Startup` extends `Settings`, `ItemsApi`
and `AtomicItems` extend `ItemTable`) and by abstraction: `ItemsApi` knows of the
producer only whether an event was skipped, accepted or failed, which is what
`Producer` shows a request can see; `Startup` knows of producer and consumer only
the connections they have, and those they have lost.

Definitions whose comment begins with *Variant* are plausible mistakes.  Nothing
uses them; put in the place of the definition they vary, each makes a run fail
in the property `PROJECT.json` names under `mutants`, which shows that the
property depends on the code.

### Modelling decisions

* Reads see committed rows and their own transaction's writes (READ COMMITTED);
  a write waits for a row that another connection has changed.  These are
  assumptions about the database.
* Any statement may fail (`StatementFails`); in `ItemsApi` this stands for a lost
  server as well as for a pool with no connection in time.
* A commit that raises may or may not have been carried out.  A publish that
  raises may or may not have reached the exchange.
* `Crash` is the end of one worker with all of its requests; the server rolls
  back what they had open.
* `is_connected` is the state of a robust connection, which stays "open" while
  it reconnects; in `ItemsApi` it is fixed for the life of a worker.
* In `Consumer` the flag `_running` is left out: the lifespan cancels `start()`
  before it calls `stop()`, so that the loop never sees it false.
* A message sent before any consumer has declared the queue is unroutable, one
  that is rejected is dropped unless someone declares the dead-letter exchange,
  and the waiting ones are lost in a broker restart, because the producer does
  not mark them persistent.
* `create_all()` waits for a transaction that creates the same table and then
  fails, as PostgreSQL and SQLite do.  Where DDL commits by itself each statement
  is visible at once.
* Rows of equal `created_at` come in any order, in each statement anew.
* A connect attempt may fail at any of its calls, whether or not the broker is
  reachable.  In `Startup` all attempts of one `connect()` are a single action
  whose outcome says what they leave in `_connection` and whether one connection
  replaced another; the attempts themselves are in `Producer`.
* `consumer_task.cancel()` and the wait for the task are one step when the task
  takes the cancellation.  `CancelSwallowed` is the other case: a context manager
  of `start()` raises on the way out, the exception takes the place of
  `CancelledError`, and tenacity counts it as a failed attempt.  The lifespan
  then waits for a task that is not cancelled any more.

## Runs

| Run | Instance | What it shows |
|---|---|---|
| `items_isolated` | 2 requests of any of 11 operations on 2 ids, own connections, commit before response | `TypeOK`, the inductive `IInv`; acknowledged writes are committed, failed ones leave no trace, committed creates and deletes were announced or skipped knowingly; no step un-deletes a row; nobody waits for a row lock for ever; the routes implement `AtomicItems` |
| `items_shared_durable` (violated) | both requests on one connection | the close of a health check discards a write that is then acknowledged |
| `items_late_durable` (violated) | commit after the response | a client holds its answer before the row is committed |
| `listing` | 3 rows, 3 values of `created_at`, 2 rows matching the filter, pages of 1 | the inductive `IInv`; deletions never repeat a row, insertions never hide one, page and total fit unless a row came or went between the two statements |
| `consumer_safety` | 2 workers, 2 messages (one no JSON, one claimed by both registries), prefetch 2, 2 attempts, 2 faults, dead letters declared, symmetric workers | `TypeOK`, the inductive `IInv`; acknowledgement only after the entitled handler, rejection only after a failure, a message whose handler has not failed is run at most once more than there were faults, no leaked credit; the consumers implement `Delivery` |
| `consumer_liveness` | 1 worker, one message of each sort, prefetch 2, 1 fault | with a credit to spare every decodable message is consumed, next to an undecodable one |
| `consumer_undecodable` (violated) | a body that is no text | the credit of that message is never returned |
| `stats` | 2 recording requests and a reader | mutual exclusion and counts (`IInv`); no increment is lost, a snapshot shows one moment and adds up, every request gets the lock; `record()` and `snapshot()` implement `AtomicStats` |
| `producer` | startup, 2 requests and a probe on a pool of 2, 2 outages, 2 attempts | `IInv`; the exchange in use is on an open connection; only a failed attempt leaves a connection behind; startup always ends; requests end once the broker stays; the probe is answered whatever the broker does |
| `producer_lazy` (violated) | as `producer`, 1 outage | the routes never let `publish()` connect |
| `startup` | 2 workers, the combinations of configuration sources, one database with and one without transactional DDL, 2 faults | `IInv`; nobody serves without its table; a shutdown that completes has ended the consumer task and closed what producer and consumer refer to, and other connections stay open only where an attempt or a `close()` failed; the URL is that of the source with the highest priority; without faults some worker gets to serve |
| `startup_tables` (violated) | 2 workers, the sources of `docker-compose.yml`, no faults | the second `CREATE TABLE` ends its worker |

The instances are the smallest in which the cases meet.  Two requests suffice
for every conflict on a row or a connection, since the properties relate one
request to the table and each conflict is between two; two workers likewise for
the queue and the schema.  Two ids distinguish a stored row from a created one.
Three rows on pages of one let a row disappear behind the client, in front of
it, and leave one to repeat or skip; three times let all rows differ or any two
be equal.  Two faults let a message be delivered, lose its channel, be delivered
on a second and lose that as well, with the first task still running; in
`startup` they let one worker crash within `create_all()` and be started again,
or a cancellation be swallowed and a connection of the consumer fail to close.
The sources of `startup` leave out those in which one source repeats the URL of
the one before it, which changes nothing.
Two attempts are the least with a retry, a pool of two the least that two
waiting requests exhaust against a probe.  Two messages with prefetch 2 let one
be acknowledged while the other is held on the same channel.  `MaxFaults`,
`MaxOutages` and the sets of messages, requests and rows are the only bounds;
the first two limit the environment, never the service.

The theorems below remove these bounds for what they state.  The consumer runs
turn the deadlock check off because the system stops when all messages are
settled and no fault is left; the other modules have a step for the end
(`AllSettled`, `AllDone`, `Stopped`, `Idle`, `Ended`).

### Fairness

* `ItemsApi`: each request's own next call is weakly fair: the event loop runs
  ready tasks, and calls to the server and the broker return or raise.  No
  failure, crash or arrival is fair.  In an outage a robust publish may in fact
  wait until the broker is back, with its session and row lock held; the
  property then speaks of the time after.
* `Consumer`: connecting, reconnecting, the loop, delivery and the tasks are
  weakly fair, faults are not.  `EventuallyConsumed` has the hypothesis that
  some consumer goes on consuming, because `start()` may give up.
* `AppStats`: each request is weakly fair.  A request takes the lock at most
  twice, so no stronger assumption on the lock is needed.
* `Producer`: `connect()`, the send and everything a client does without the
  broker are weakly fair, the wait for a pooled connection included, which
  `pool_timeout` ends.  The broker is not fair: `RequestsComplete` has the
  hypothesis that it stays, `StartupCompletes` and `ProbesAnswered` have none.
* `Startup`: the lifespan of each worker is weakly fair; crashes, failing calls,
  shutdowns and restarts are not, and `SomeWorkerServes` speaks of behaviours
  without the failures.  Nothing is said of the end of a shutdown, which may
  wait for a swallowed cancellation for ever.

## Proofs

Each theorem holds for every value of the constants its module admits.

`ItemsApi_proofs` has three layers, by what they assume:

* nothing, so that connections may be shared and the commit may come before or
  after the response: `TypeCorrect`, `Invariance` (`Spec => [](TypeOK /\ IInv)`)
  and `Deletion` (`DeletedStaysDeleted`);
* `Isolated` (no two sessions share a connection), in either build: `Atomicity`
  (`FailedLeavesNoTrace`) and `Announcement` (`CommittedIsAnnounced`);
* `Isolated` and `CommitBeforeResponse`: `Durability` (`AckedIsDurable`) and
  `Refinement` (`ImplementsAtomicItems`).  The runs `items_shared_durable` and
  `items_late_durable` show that durability needs both.

None of these properties is inductive.  `IInv` is `DeletionInv`, which holds for
any connections, together with `SessionInv` where sessions are isolated.

A deleted row could come back in two ways, by an uncommitted UPDATE that was
computed before the deletion was committed, and by an INSERT of the same id.
`OverwriteInv` excludes the first: no two connections have an uncommitted write
of one row, and what is written over a deleted row is deleted, since an UPDATE
computes from what it sees and keeps `is_deleted`.  `OriginInv` excludes the
second: every row, committed or not, was stored from the beginning or belongs to
a create that has executed, and (`FreshInv`) creates have ids of their own.
Neither speaks of single requests, since on a shared connection several have
written into one transaction and any of them commits or discards it all.

With isolated sessions a transaction belongs to one request.  `TransactionInv`
says that it holds the effect of that request on the committed row, `LockInv`
that two open transactions have written different rows, `IdentityInv` that a row
was stored or inserted by one committed request, and `ProgressInv` that where a
request stands says what it has done.  The two builds differ in two places only:
`Uncommitted(r)`, whether the session of a successful handler still has to
commit, which in a late build includes the response itself, and `Replied(r)`,
how the answer relates to the outcome.  The proofs go action by action, with
lemmas for the database operations `Write`, `Flush` and `Discard`.
For the refinement, `Commit` maps to `Take`, a lookup without a row to `Miss`,
`Respond` to `Answer`, and everything else, crashes included, to a stutter.

`ItemListing_proofs`, for any table, creation times, filter and page size:
`TypeCorrect`, `Invariance`, `Repeats` (`NoRepeats`), `Omissions` (`NoOmissions`)
and `Totals` (`TotalFitsPage`).  The argument is about `Rank(i)`, the number of
listed rows in front of row `i`.  A deletion can only lower ranks, an insertion
can only raise them, and with distinct creation times a page holds exactly the
rows whose rank lies in its window.  Hence without insertions a received row
stays in front of the offset (`RepeatInv`), and without deletions a row still
due stays behind it (`OmissionInv`); then the total, whenever it is counted,
exceeds the end of the page, and the client goes on.  `FitInv` relates page and
count as long as nothing came or went.

`Consumer_proofs`, for any messages, workers, registrations, attempts and faults:
`TypeCorrect`, `Invariance`, `Acknowledgement` (`AckedWasHandled`), `Rejection`
(`RejectedHasFailed`), `NoLeakedCredit` (`HeldIsBeingHandled`), `Repetition`
(`RunsBounded`) and `Refinement` (`ImplementsDelivery`).  `NoLeakedCredit` assumes
that every body is text; `consumer_undecodable` shows why.  What makes the
consumer correct is spread over the broker, buffers and tasks, and `IInv` gathers
it: `TasksInv` (a task about to acknowledge comes from a handler that has returned,
one about to reject from a failure), `ChannelInv` (a message is held by an open
channel only and is then queued; a delivery on an open channel is of a message
held there) and `SingleInv` (a channel delivers each message once).  From these a
settled message was queued, so that `Ack` and `Reject` map to `Acknowledge` and
`Reject` of `Delivery`, a publish to `Accept`, the end of a handler to `Succeed`
or `Fail`, a broker restart to `Lose`, and everything else to a stutter.
`RunsBounded` needs a count besides (`Budget`, in the proof module, which TLC
need not evaluate): runs, waiting deliveries and a possible next delivery together
never exceed one plus the faults.  The count holds of every message, because the
code rejects a failed one for good.  The property leaves failed messages out,
since `consumer.py:8-9` announces a requeue for some of them (see the
divergences): a version that kept this promise would keep the property.

`Producer_proofs`: `TypeCorrect`, `Invariance`, `Exchange` (`ExchangeIsOpen`) and
`Leaks` (`LeakOnlyAfterFailure`), for any callers, pool, attempts and outages.
`IInv` counts the sessions (`PoolInv`: never more than the pool, and only of
clients being served), says that connections are numbered in order and closed at
shutdown only (`ConnectionInv`), and that as long as no attempt has failed
startup was the only caller of `connect()` (`FirstConnectInv`), which is why the
last connection carries the exchange.

`Startup_proofs`: `TypeCorrect`, `Invariance`, `SchemaReady`
(`SchemaBeforeService`), `CleanShutdown` (`StoppedIsClosed`) and `Priority`
(`SettingsFollowPriority`), for any workers, sources and faults.  `CreatorInv` is the reason: an open transaction that has
created a part of the table is the only one, the committed table is still
absent, and the step its worker is at says which part it has created.
`ShutdownInv` says that what a shutdown has passed is ended or closed, and that
a connection which is lost, has no exchange or outlives its task comes from a
failure.  The theorem does not say that a shutdown leaves no connection open:
`close()` reaches the last `_connection` only.  `Priority`
rests on a lemma about every environment, `.env` file and document: the three
places that look for the URL (`pydantic`, `_y()` and the validator) together
choose the first of the four sources that gives one.  It needs that no leaf of a
document is a mapping (`LeavesAssumption`).

`AppStats_proofs`: `TypeCorrect`, `Invariance`, `Counting` (`NoLostUpdate`),
`Snapshots` (`SnapshotIsConsistent`) and `Refinement` (`ImplementsAtomicStats`),
for any number of threads, requests and paths.  `LockInv` is mutual exclusion; `CountInv` says that a counter is the
number of requests that have stored their increment of it, which needs the value
a request has loaded to be the current one; `SnapshotInv` says that what a reader
has copied so far has not changed since.  The refinement maps the counters to
what they are without the increments of the `record()` in progress (`Settled`),
and a snapshot to nothing until it is complete (`Shown`).  `EndRecord` is the
step that counts, the last `Read` the one that shows, everything else a stutter;
the proof equates `Settled` with the number of recorded requests (`Tally`), which
is what the last reader has copied because nobody records while it reads.

Assumptions are the named `ASSUME`s of the modules, all of which TLC evaluates.

Every invariant and action property of the runs has its theorem.  TLC checks each
`IInv` on the instance of its run; that of `ItemsApi` on isolated sessions of the
early build, while shared connections and the late build rest on the proof.

Model-checked only: everything that depends on fairness (`EventuallySettled`,
`EventuallyConsumed`, `EventuallyRecorded`, `StartupCompletes`,
`RequestsComplete`, `ProbesAnswered`, `SomeWorkerServes`), which is out of the
prover's reach.

## Divergences from what the repository says

With a run each: the shared connection (`session.py:52` against
`session.py:84-86`), the late commit (`session.py:95` against
`tests/unit/test_items.py:77-81`), undecodable bodies (`consumer.py:124` against
`consumer.py:7-8`), the lazy connection (`items.py:42` against
`producer.py:19-20`) and the racing `create_all()` (`session.py:133` against
`session.py:128`).

Seen in the models or while reading, without a run of their own:

* The lookup of `publish_item_event` for a missing item is answered 500, where
  `items.py:115` says "raises 404 if not found": the exception is not caught there.
* "nack + requeue on transient errors" (`consumer.py:8-9`): `process()` rejects
  whatever a handler raises without requeueing (`consumer.py:132`).
* "the best matching handler" (`handlers.py:46`): the first match in order of
  registration is taken.  A message that no pattern matches is acknowledged after
  a warning.
* No one declares `<exchange>.dlx` (`consumer.py:96`): rejected messages end
  `dropped`.
* Messages are not persistent (`producer.py:104`), against
  `config/config.yaml:48` "survive broker restart": they end `lost`.
* A message published before any consumer has declared the queue ends
  `unroutable`; nothing in `publish()` notices.
* An event is published before its write is committed, so a consumer may see
  `item.created` for a row that is never committed; `CommittedIsAnnounced` is the
  direction that holds.
* `hard_delete` ignores the row count: deleting a missing item is answered 204
  and announced (`item_repository.py:143`); `HardDelete` has that branch.
* With a name filter the list ignores `skip` and `limit` ("Max records",
  `items.py:54`), and the total ignores the filter.  Rows of equal `created_at`
  have no order; `NoRepeats` and `NoOmissions` are therefore about distinct ones.
* `AppStats` is per process (`main.py:41`), against "application-wide" in
  `logging_middleware.py:44`.
* A connect attempt that fails after `connect_robust` leaves its connection open
  (`producer.py:60`); `close()` reaches only the last one, so that a shutdown
  that completes may leave connections open until the process ends
  (`left` in `Startup`).
* A publish connects if startup failed after `connect_robust` had returned: then
  `is_connected` is true and there is no exchange (`RequestConnects`).
  `producer_lazy` is about startups that failed before that.
* A shutdown may wait for ever when a context manager of the consumer raises
  during its cancellation (`main.py:75`, `CancelSwallowed`).
* The readiness probe reports a broker that is away as healthy while the
  connection reconnects (`producer.py:120-123`).
* `stop()` of the consumer or `close()` of the producer that raises keeps
  `engine.dispose()` from being reached (`main.py:78-80`): a worker ends
  `aborted`.
* The consumer counts failed attempts over the whole life of `start()`, and when
  it has given up its `is_running` stays true.
* Where DDL is not transactional, a worker that dies between `CREATE TABLE` and
  `CREATE INDEX` leaves a table whose indexes no later start creates.
* `APP_ENV` in `.env.example` and `docker-compose.yml` has no effect: the field is
  called `environment`.  The kind of database is found by substrings of the whole
  URL, so that a host or a database called "oracle" is taken for one.

## Not modelled

* Logging (`logger.py`): output only; no component reads what it does.
* The system and info endpoints: they read the operating system and settings.
* Tests, packaging and deployment: read for what they say of the program.
* `bulk_create`, `exists` and the filter parameters of the repository: no caller.
  `drop_all_tables`: tests only.
* `pool_recycle` and `pre_ping`: they replace connections inside the pool, which a
  session sees as a statement that fails or does not.
* Field validation and serialisation: pure, before and after the handler.
* Settings other than the database URL: read in the same way (the validator at
  `config.py:81` treats the broker's URL alike); their values are constants of
  the modules.
* `/health`, `/health/db` and `/health/queue`: they combine the ping and
  `is_connected`, which `/health/ready` shows together.
* Durations and the request id in the statistics.
* The cancellation of a single request in `ItemsApi` (a client that goes away):
  the session is closed without a commit, as in a crash of the request alone;
  `AppStats` has it, as far as counting goes.
* The deadline of a graceful shutdown: uvicorn answers the requests it has before
  the lifespan goes on.

## Plan

Done: all components that keep state, and a theorem for every safety property of
the runs.  Left, in this order:

1. Proofs: abstract specifications of the producer (an exchange that is in use or
   away) and of the schema (absent, then complete), with the refinements.
2. `ItemEvents`: `ItemsApi` composed with the queue of `Consumer`: which events a
   consumer sees of which committed rows.
