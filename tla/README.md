# Formal models of the sync-vs-async booking engine

TLA+ modules, TLC configurations and TLAPS proofs for the booking engine in
`src/`. Every definition is translated from the source; the doc comments and the
project's `README.md` are used only for what the system *claims*, which some
runs compare with what it *does*.

    tlc -workers 2 -config <run>.cfg <MC module>      check a run
    tlapm <module>Proofs.tla                          check the proofs of a module

## 1. The system

The repository holds one booking service in three versions, a worker service for
the third, and a load generator.

| Component | State | Operations | Talks to |
|---|---|---|---|
| Booking database (`schema.sql`, SQL in the handlers) | tables `users`, `rooms`, `bookings`, two id sequences | one autocommit statement per request: INSERT/UPDATE/DELETE user, INSERT/UPDATE/cancel booking, SELECT free rooms | called by every engine |
| Phase 1 engine (`phase1/business-engine`) | none of its own | seven HTTP endpoints: decode, one statement, answer | PostgreSQL |
| Phase 2 engine (`phase2/business-engine`) | none | the same endpoints; two delays and an audit INSERT before the answer | PostgreSQL (`audit_logs`) |
| Phase 3 engine (`phase3/business-engine`) | Redis client | the same endpoints; three LPUSHes before the answer | PostgreSQL, Redis list `background_jobs` |
| Phase 3 worker (`phase3/async-worker`) | channel `taskCh` (64), pool of 10 goroutines, root context | dispatch loop (BRPOP), pool loop, watchdog, audit INSERT, graceful shutdown | Redis, ClickHouse `default.audit_logs` |
| Start-up (`main.go`, `connection/`, `broker/`, `db/`) | connections | open, ping, fail fast | all stores |
| Load tester (`tester.cpp`) | per-thread records | request loop, per-second windows, percentiles | an engine, over HTTP |

What is hard here, and what has to be right about it:

* **Concurrent statements.** Requests run as goroutines and share nothing but the
  database. The engine claims that overlapping bookings are impossible (README:108);
  besides that, a cancelled booking must stay cancelled, deactivating a user must
  not leave bookings behind, an id must never change its meaning, and the
  availability query must agree with the exclusion constraint.
* **Work after the commit.** Phase 3 answers the client after a fan-out of three
  jobs that may fail half way, be repeated by the Redis client, or be cut off by a
  client that hangs up. Redis must never decide the answer; a job must tell what was committed
  and stays so, however late the worker reads it; what is lost must be noticed.
* **Work before the answer.** Phase 2 sleeps a quarter of a second and writes an audit row
  between the commit and the answer. The client may hang up meanwhile, the write may fail or its
  result be lost, and the process may end (neither engine handles signals). An answer
  must not claim more than was done, and an audit row must tell what was committed and stays so.
* **At-most-once hand-over.** BRPOP removes a payload before it is processed. From
  then on it exists only in the memory of the worker: in the dispatcher, the channel
  or a pool goroutine. Shutdown, a crash and a lost reply each can take it. No payload
  may vanish in any other way, be processed twice or overtake another.
* **Watchdog.** A result and a deadline race; the audit row must tell the truth.
* **Shutdown.** `Start` must return although handlers hang and INSERTs fail.
* **End to end.** Between a client's 201 and the audit row lie a fan-out, a list, a process's memory
  and an INSERT. What the worker takes of a request must be a beginning of its fan-out; the jobs of a client
  that waits for its answers must be taken in its order; and both sides must mean the same by a job.
* **Streaming.** A listing reads its rows one by one from a result that may break off, while bookings
  come and go. It must be a view of one moment.
* **Measuring.** The load tester's requests cross the borders of its seconds, of the warm-up and of the
  test, fail, or never return. Each measured request must be counted once, and the test must end.

`PROJECT.json` lists the hazards line by line.

## 2. The modules

| Module | Models | Composes |
|---|---|---|
| `BookingStore` | `schema.sql` and the SQL statements of the handlers | |
| `BaselineEngine` | the phase 1 handlers, and the room listing of all phases | EXTENDS `BookingStore`; implements `StoreSpec` |
| `SyncEngine` | the phase 2 handlers with their audit INSERT | EXTENDS `BookingStore`; implements `StoreSpec` |
| `AsyncEngine` | the phase 3 handlers, the fan-out, the Redis client | EXTENDS `BookingStore`; implements `StoreSpec` |
| `HandOver` | what the worker promises about payloads: at-most-once, in order | |
| `AsyncWorker` | the phase 3 worker process | implements `HandOver` (INSTANCE) |
| `Phase3System` | engine and worker together, with the job codec | EXTENDS `AsyncEngine`; INSTANCE `HandOver` |
| `LoadTester` | the threads, the clock and the report of `tester.cpp` | |
| `...Proofs` | theorems about the module they are named after; `HandOverProofs` that the worker implements the hand-over | EXTEND it, and the proofs they build on |
| `MC...` | the instances TLC checks | |

**BookingStore.** A table is a set of rows, a statement is one atomic action (each
handler sends exactly one statement outside a transaction). The guard of an action is
the conjunction of the constraints PostgreSQL checks; a refused statement is no step.
Ranges keep the two values that matter in PostgreSQL beside ordinary ones: an unbounded
lower end (the handlers format a missing start date as `[, end)`) and the empty range
(equal dates), which overlaps nothing. The format string puts a blank before the upper
bound, so a missing *end* date is no timestamp and is refused. Rows of `rooms` never
change: no endpoint touches them.

The ids in a URL pass only `strconv.Atoi`, so an id may also be one no row can have (`OddIds`); an UPDATE or
DELETE that finds no row is accepted by the two handlers that use `Exec`. `Event` is what a handler tells of its statement (an
entity, its id, what became of it), `StillTrue` that the tables agree with it, now and after every later statement.

**BaselineEngine.** A request is one statement and an answer (`Conclude`); the answer keeps what the
properties look at, the id of a new booking or the rooms of a listing. `checkAvailability` takes PostgreSQL's snapshot, `NextRow` is
`rows.Next` and `rows.Scan`, `EndRows` is the end of the loop, for want of rows or for an error that
nobody asks `rows.Err()` about. A window that is no range is an error PostgreSQL reports while it sends the result, so
it too is an empty listing. `views` records what the listing could have seen while it was at work, `cut`
which listings broke off. The listing runs on `context.Background()`: no client can stop it.

**AsyncEngine.** One action per handler up to its statement, then the fan-out task by task
(`enqueueTask`, `enqueueFault`, `enqueueCancelled`), then the answer. `Committed`
has two outcomes, because a statement may commit and its result still be lost with the
connection or the request context. `enqueueFault` is an LPUSH that ends in an error or a timeout,
and go-redis may repeat it (`MaxRetries`). Whether Redis has it is open: it goes to `late`, from where `ApplyLate` may put it on
the list at once, much later, or never (`MaxLate` bounds how many may be on their way). A client may hang
up at any time after the statement (`Disconnect`); go-redis refuses to send on a
cancelled context. `queue` is what the engine has pushed, oldest first; it is never
popped here, so that invariants can speak of all jobs ever queued. `Crash` is the end of the
process: every request it works on dies unanswered, wherever its fan-out stands (`main.go` has no
signal handling, so a deployment does the same). `applied` (requests whose statement committed),
`found` (those whose statement met or made a row) and `redisFault` (those an LPUSH failed for) are history variables.

**SyncEngine.** The same shape as `AsyncEngine`: the statement, then the audit INSERT into table
`audit_logs` (`writeAuditLog`, or `auditFault`, which may still have stored the row), then the
answer, with the same lost results, hang-ups and crashes. The sleeps for the e-mail and the SMS
do not look at the context and change nothing; they are part of the audit step, and what matters of them is
that the client can hang up meanwhile. An answer is `success` (2xx), `error` (the statement failed)
or `partial` (500 with "... but audit log failed"). `applied` and `found` are the histories they are in `AsyncEngine`. `auditTable` says whether the table
exists; the runs and proofs cover both, as `schema.sql` does not create it.

**AsyncWorker.** The dispatcher (`dpc`) is the goroutine of `Start` and `runDispatchLoop`:
check the context, BRPop, send or give up, close the channel, wait for the pool. Each pool
goroutine (`wpc`) receives, decodes and starts the handler, watches, audits. Receiving (`ReceivePayload`) and processing
(`processPayload`) are two steps, so several goroutines may start their handlers in another order than they received. The handler goroutine of a payload is
`handler[t]`; it outlives its watcher after a TIMEOUT. Where Go's `select` has several ready
cases, the model takes either. A BRPop already sent is not interrupted by the cancelled
context. A payload is the number of its LPUSH, so order and identity can be stated.
`Restart` is the death of the process at any point and its next start.

**HandOver.** The abstract specification of the worker: a payload is unsent, queued, held by the process, audited or
lost. It is taken once, oldest first; what is held may be audited or lost, by one (a failed INSERT,
a shutdown) or all together (a crash). `AsyncWorker!StageOf` is the refinement mapping.

**Phase3System.** Every step of the engine, of which a push is `HandOver!Send`, and every step of the worker.
The engine's list is the history of all pushes, so payload i is its i-th job. `TaskPayload` (type, entity, entity_id, details) and
`Task` (entity_type, entity_id, event, payload) share one key: `Decoded` keeps the id and nothing else, `Decodes` refuses
a negative one, as the field is unsigned. The composition uses the abstract hand-over, not the detailed worker;
`HandOverProofs` shows that this loses nothing.

**LoadTester.** A thread checks the elapsed time, takes the second of the request from that check (`Check`), starts the
request's own clock (`Begin`), and records its outcome (`Record`): a failed connect or send, an answer, nothing, or
text without a status. A server that keeps the connection in silence (`ServerStalls`) is never left, since `recv` has no
timeout. `Report` is what `main` prints after it has joined all threads. The merged vector is the set of the *places*
`<<thread, index>>` of the records (its order does not matter, as it is counted or sorted), `Sorted(places, k)` the element
at index k - 1 of the sorted latencies: the one that fewer than k are below and at least k not above. Percentiles are
exact, in thousandths, where the program uses `double`. Two details differ from the comments of the file and are modelled as the code has them: a
connection that breaks after the status line counts as an answer, not as status 0 (tester.cpp:51), and a response
without a status keeps its latency (tester.cpp:50); the report uses no latency of status 0 either way.

## 3. The runs

| Run | Instance | Shows |
|---|---|---|
| `store_safety` | 2 users, 2 e-mails, 2 of 3 room ids exist, 3 bookings, timestamps 1..3 plus missing and malformed dates, one id no row can have; empty database | no double booking, no orphan, cancelled is final, ids are stable, the availability query offers exactly the bookable rooms |
| `baseline_safety` | 2 concurrent requests of any kind; two users, two rooms, one of them booked twice, one booking id already used up | an id told to a client stays the client's, a listing is a view of one moment |
| `sync_safety` | 2 concurrent requests of any kind, with table `audit_logs` and without it; database with one user and one booking | audit rows tell what was committed and stays so, each of the three answers means what it says, nothing succeeds without the table, and the engine implements `StoreSpec` |
| `async_safety` | 2 concurrent requests of any kind, no client-library retries, no late LPUSH; database with one user and one booking; no symmetry | jobs tell what was committed and stays so, answers follow the database, no silent loss, the engine implements `StoreSpec`, and every request is answered unless the process ends |
| `async_fanout` | 2 concurrent requests, one retry per LPUSH, one late LPUSH at a time; the statement is fixed to a cancellation, as the fan-out does not depend on it | ordered prefixes, bounded duplicates |
| `async_hangup` (violated) | 2 requests | jobs are lost though Redis never failed |
| `worker_safety` | 2 pool goroutines, buffer 1, 3 payloads of which one malformed, any handler, one restart; no symmetry | conservation, receive order, truthful verdicts, accounting at return, the worker implements `HandOver`, popped payloads settle, shutdown completes |
| `worker_crash` | 1 pool goroutine, buffer 1, 4 payloads, handler of `main.go`, one restart | a crash costs at most what the process can hold; tasks fail only for their deadline |
| `worker_shutdown` (violated) | 2 payloads | the dispatcher may discard a payload at shutdown |
| `system_safety` | 2 requests (cancellations), one retry per LPUSH, one late LPUSH at a time, a worker that holds one payload, 4 jobs | what is taken of a request is a beginning of its fan-out, in order; sequential requests keep their order |
| `system_codec` (violated) | 1 request, one user | the audit row of the deactivation of an existing user does not say that it is about a user |
| `load_tester` | 2 threads, 2 requests each, one second of warm-up and one measured, two ticks to a second, answers one tick late | every measured request is counted once, percentiles are percentiles, the test ends unless a server is silent |

**Bounds.** `MaxUsers`, `MaxBookings` bound the id sequences, `MaxTime` the timestamps,
`MaxRetries` the client's retries, `MaxLate` the LPUSHes on their way, `MaxPush` the payloads, `MaxRestarts` the restarts,
`MaxRecords` the requests of a load thread, `MaxOverrun` the ticks after the test that are told apart.
Three bookings and three timestamps give two overlapping ranges, a third one that
touches both, an unbounded and an empty one, in two rooms. Two requests are what any
of the engine's races needs, since handlers share only the database and the list. In the
worker, two pool goroutines with a buffer of one reach every combination of full and empty
channel, busy and idle pool and waiting dispatcher with three payloads; `worker_crash` needs
four, one more than the process can hold (buffer 1, one pool goroutine, dispatcher), or its bound
would hold trivially. The code's own values (64, 10) only make the same queues longer.
`baseline_safety` starts above a gap in the ids, so that counting rows would hand out a used one. The two load threads measure up to four
requests: enough for every case of the interpolation, and for one that begins in the warm-up and ends after the test.

**Symmetry** is used for requests, rooms and e-mails, in runs without liveness properties only.

**Deadlock** is checked in every run; `Terminated` marks the states in which all
requests are done or dead, or the worker's `Start` has returned.

**Fairness.** `AsyncEngine`: weak fairness of each started handler. Its calls are bounded by
the client's read, write and dial timeouts (client.go:23-25); nothing is assumed about Redis
succeeding, the client staying, the process surviving, or a request ever reaching the database.
`SyncEngine` has no liveness run: its audit INSERT runs on the request's context, which has no
deadline, so nothing in the code bounds it. `AsyncWorker`: weak
fairness of the dispatcher, of each pool goroutine and of the deadline timers: the Go scheduler
runs what can run, BRPop returns after `brPopBlockTimeout`, an audit INSERT after
`auditLogTimeout`, and `context.WithTimeout` fires. Nothing is assumed about handlers:
they may hang for ever. `LoadTester`: weak fairness of the clock, of each thread and of the report; a server that is not
silent answers or closes. `BaselineEngine` has no fairness: its statements run on contexts without deadlines,
and a stalled listing holds its handler for ever. `Phase3System` is checked and proved for safety only.

## 4. Where the code and its comments disagree

* `async_hangup`: `handler.go:134-138` takes a failed enqueue for an unreachable Redis; as
  the fan-out runs on `r.Context()`, a client that hangs up loses the jobs of a
  committed statement while Redis is healthy.
* `system_codec`: `handler.go:193-195` calls the audit job "the only remaining record that this user ever existed
  and was deactivated"; of the job only `entity_id` survives the worker's decoding, the row's `entity_type` is empty.
* `worker_shutdown`: `README.md:145` says that shutdown drains in-flight work; the payload
  the dispatcher holds when the signal arrives may be discarded. `DrainedOnReturn` shows that
  it is at most one per shutdown, and that all other work is indeed drained.

Seen while modelling, without a run of its own:

* Deactivating or cancelling an id without a row answers 200 and queues the three jobs (phase 2: writes the audit row), also when
  a row of that id comes into being only later. `handler.go:193-195` and phase 2 `handler.go:169-171` take every such record for one of a user
  that "ever existed and was deactivated". `JobsStayTrue` and `AuditStaysTrue` promise that a record stays true
  only for statements that met a row (`found`), and that the others tell of nothing but deactivations and cancellations.
* Phase 2 `handler.go:171-172` says "we still tell the client the deactivation succeeded" when the audit write fails: that is the body of an
  answer with status 500. `AnswerTellsTheTruth` has it as `partial`, and without the table no 2xx is ever sent.
* A crash of the engine between the commit and the end of the fan-out loses the remaining jobs without a trace. `NoSilentLoss` speaks of
  fan-outs that ended, and no property covers this loss; `PROJECT.json` lists it as a hazard without one.
* The handlers format whatever dates arrive: equal dates are stored as a range that conflicts with nothing, a missing start as one
  that conflicts with everything before its end.

## 5. The proofs

From `StoreAssumption` and `SeedAssumption` (bounds are numbers, the seed database obeys the
schema), `BookingStoreProofs` proves the invariant `StoreInv`: the types and unique ids of the
rows, unique e-mails, exclusion and foreign keys. `NoDoubleBooking` is not inductive by itself: an
UPDATE replaces the row it found, and only unique ids make that *one* row; the foreign key
needs that an update keeps a user's id. The two action properties (`CancellationIsFinal`,
`BookingIdIsStable`) follow from one step property per statement. `OffersAreBookable` is about two definitions, the
availability query (`AvailableRooms`) and the guard of the INSERT (`AcceptsBooking`): they agree because a new booking
is never cancelled, and its range is the one the query compares.

`AsyncEngineProofs` shows that every handler step is one statement or leaves the tables
alone, hence `EngineImplementsStore`: `Spec => StoreSpec`, and with it `NoDoubleBooking` for any
number of concurrent requests. `EngineInv` adds what the jobs need: a handler in its fan-out
has the event of a committed statement, which no later step changes. `JobsStayTrue` needs that what a job tells survives every
later statement (`TruthIsStable` of the store): sequences only grow, no statement makes a row under an id already handed out, and a
cancelled row stays cancelled. So a job that is true when its request commits is true whenever it is read. `FanOutInOrder` needs to know of every LPUSH still on its way
that its predecessors are on the list already, and that a request without a Redis fault has none on its way, or its process died while it waited for that one.
`DuplicatesOnlyFromRetries` needs a count (`AttemptsInv`): the copies of a task on the list and its LPUSHes still under way are no
more than the attempts its handler has made. A late LPUSH that is applied moves from one term of the sum to the other. Without a
Redis fault the bound of one copy follows from `FanOutInOrder` alone.

`BaselineEngineProofs` proves the refinement for phase 1. `ListingIsOneView` follows from `ListingInv`: what a listing has
read together with what it has still to read is one of the views it could have seen. `ToldIdStaysMine` needs
that confirmed ids are below the sequence (`ConfirmedInv`) and that rows keep the user of their id (`NextRowStep` of the store).

`SyncEngineProofs` proves the same refinement for phase 2, and by the invariant `SyncInv`
`AnswerTellsTheTruth` and `NothingSucceedsWithoutTable`; `AuditStaysTrue` comes from the same `TruthIsStable` as for the jobs. `AnswerTellsTheTruth` says nothing of requests still at
work; `SyncInv` adds that a handler comes to the audit write with the event of a committed
statement, and leaves it with its row stored or marked as failed. Neither needs an assumption on the
number of requests.

`AsyncWorkerProofs` proves all safety properties of the worker, for every pool, buffer and number
of payloads, from `WorkerAssumption` (a finite pool of at least one goroutine, as
`NewWorker` replaces a pool size below one, and a buffer of at least one). None of them is inductive.
`WorkerInv` adds where a payload may be: the list holds the latest pushes (`ShapeInv`), whatever is
in the list, the dispatcher or the channel has never been touched by the pool (`UntouchedInv`), whatever
the pool has begun is older than what still waits (`OrderInv`), a pool goroutine has a payload to itself and
its verdict is what the handler or the deadline gave (`PoolInv`), a payload ends once (`FateInv`), and one
that left the list is somewhere (`PlaceInv`). Each action disturbs a few of these parts; there is one lemma per
action (`...Flow`), and one (`QuietFlow`) for all actions that move no payload. `Conservation`,
`ReceivedInOrder`, `VerdictTruthful` and `AbandonedOnlyOnTimeout` follow from `WorkerInv`. `DrainedOnReturn` also
needs that the pool leaves only a drained channel (`CloseInv`) and that the dispatcher discards once per shutdown
(`DropInv`); `BoundedLoss` counts what the process can hold. `OnlyDeadlinesFail` has the hypothesis
`~AnyHandler`: it is about the handler of `main.go`.

`HandOverProofs` proves `WorkerImplementsHandOver`: under the mapping `StageOf` each action of the worker is one step of
`HandOver` or none. That a pop takes the oldest payload comes from the shape of the list in `WorkerInv`, the capacity
from the count behind `BoundedLoss`. `HandedOverOnce` follows: no step moves a payload backwards, to the list or out of
its end, restarts included.

`Phase3SystemProofs` proves the properties of the composition for any number of requests, retries and late LPUSHes and any
capacity. Its invariant carries the engine's over to the composed steps and adds that stages follow the list: sent
payloads are those on the list, and what was taken is older than what is queued. `FanOutsTakenInOrder` combines
the order of pushes (`FanOutInOrder`) with the order of taking: since everything before a taken payload is taken too, a beginning of what was pushed
is a beginning of the fan-out (lemma `Beginning`). `AnsweredRequestsComeFirst` from the fact that an answered request without a Redis
fault pushes nothing any more. `SystemImplementsStore` carries the refinement of the database over to the composition, and
`SystemKeepsPromises` all five properties of the database with it.

`LoadTesterProofs` proves the safety properties of the load tester from `ConfigAssumption`, for any number of threads, requests, seconds
and ticks. `TesterInv` adds to the types that no thread is ahead of the clock (`TimeInv`), that the records of a thread
are its passed elapsed checks, one to one and in order, but for the request it is at (`HistoryInv`), and that the
report is what `Printed` says of records that no longer change, since all threads are done (`ReportInv`). `ReportCountsRequests`
then needs only that places and checks of a done thread are the same pairs, and that outcomes exclude one another. For
`ReportedPercentiles` the k-th smallest latency must exist, for vectors of any length: it is the least value that k
latencies do not exceed. That a least one exists is the well-foundedness of the naturals in its set form (`WFMin` of
`WellFoundedInduction`, lemma `LeastElement`), which needs no operator parameter. `PercentilePlace` finds the two neighbours between which a
percentile lies, `PercentileIsPercentile` counts what is not above and not below it, and `PercentileIsMonotonic` compares two places.

Every invariant and every action property of the passing runs is stated by a theorem, and so is every refinement. Only
model-checked: the liveness properties (`EveryRequestAnswered`, `PoppedPayloadSettles`, `ShutdownCompletes`, `TestEnds`), as they
rest on fairness and ENABLED.

## 6. Plan

Done: `BookingStore`, `AsyncEngine`, `AsyncWorker`, `SyncEngine`, then `BaselineEngine`, `HandOver`, `Phase3System` and `LoadTester`, with the theorems
above. What would come next: a client that repeats a request whose answer was an error and meets its own booking, in all phases.

## 7. Not modelled

* Wording of answers, HTTP status beyond success and error, logging, JSON syntax.
* Columns no property tells apart: names, prices, room types, `created_at`.
* Gaps in the id sequences after failed INSERTs (ids are compared only for equality).
* PostgreSQL's own crash recovery and isolation: a committed statement is durable and atomic.
* Averages and throughput of the load tester, its request text and the layout of its CSV.
* Start-up: a sequence of connection attempts that ends the process on the first error.
* Two worker processes on one list: Redis hands each payload to one of them, and they share
  nothing else.
* `data_sets/` and `plots/`: recorded measurements.
