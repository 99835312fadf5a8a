# smsbatch: a TLA+ verification project

This directory models the concurrent core of the `smsbatch` service (a Go
program: API server, batch watcher, Kafka consumers, distributed lock, retry and
heartbeat machinery), checks the models with TLC on small instances, and proves
the most important invariants with TLAPS for every value of the constants.
`PROJECT.json` holds the machine-readable index: components, runs, the mutant of
each property, the source lines each definition stands for, the disagreements
found between code and comments or tests, the hazards and the theorems.

To check a run: `tlc -workers 2 -config RetryRace.cfg MCRetryManager`; to check
the proofs of a module: `tlapm RetryManagerProofs.tla`.

## 1. The system

The program that matters is `internal/nightwatch` (about 16,000 lines without
tests), with `pkg/queue`, `pkg/streams` and the vendored-in-place `onexstack` packages
`watch` and `distlock`. `internal/apiserver` (users and posts) and the generated code in
`pkg/api` have no concurrent logic of their own.

| component | state it keeps | operations | interacts with |
|---|---|---|---|
| retry manager (`statustracking/retry_manager.go`) | map of tasks, bounded channel, `isRunning`, `stopChan`; per task `Attempts`, `NextAttempt` | Start, Stop, AddTask, RemoveTask, GetTask; scheduler tick; workers | callbacks into the heartbeat monitor; the breaker |
| circuit breaker (same file) | state, failure count, time of last failure | CanExecute, OnSuccess, OnFailure | AddTask and the workers |
| heartbeat monitor (`statustracking/heartbeat.go`) | map of jobs with error counts and last heartbeat | Start, Stop, UpdateHeartbeat, RemoveHeartbeat, checkTimeouts, ForceRetryJob | hands timed-out jobs to the retry manager; its callbacks run in the manager's workers; writes `retrying` into batch rows |
| status tracking service (`statustracking/statustracking.go`) | none but its heartbeat monitor; one service per request (`biz.go:73`) | UpdateJobStatus, Start/StopStatusWatcher, CleanupExpiredStatus, queries | batch rows, heartbeat monitor |
| Kafka queue (`pkg/queue/kafka.go`) | channel, context, two wait groups; the group's offset at the broker | Start, Stop, fetching and processing goroutines | calls the consumers' handlers |
| batch and uplink consumers (`messaging/consumer`) | none (rows, interaction records) | handlers of batch events, uplink requests | called by the Kafka queue; read and save rows |
| messaging service (`messaging/service.go`) | `started`, metrics, a reader-writer lock | Start, Stop, IsHealthy, GetMetrics | the consumers |
| SMS batch API (`biz/v1/smsbatch`) | the batch row | Create, Update, Delete, StartProcessing, Pause, Resume, Retry, Abort | status tracking, the heartbeat monitor and the batch event handlers save the same row; no handler calls Start, Pause, Resume, Retry or Abort |
| SMS batch watcher and state machine (`watcher/job/smsbatch`) | an in-memory copy of each row per tick, which no tick saves | preparation and delivery phases | started by the cron scheduler of the watch server; lists rows |
| database lock (`onexstack/pkg/distlock/gorm.go`) | a row per lock name; per process ticker and renewing goroutines | Lock, Unlock, Renew, renewLock | the watch server |
| other locks (`onexstack/pkg/distlock`: Redis, memcached, etcd, consul, ZooKeeper, MongoDB, none) | a key or node in a store; per process ticker and renewing goroutines | Lock, Unlock, Renew, renewLock | used through the interface `Locker`; nightwatch makes the database lock only |
| watch server (`onexstack/pkg/watch/watch.go`) | the lock, the cron scheduler | Start, Stop | every process of a deployment, through the lock |
| streams (`pkg/streams`) | per stage an input and an output channel and a semaphore | sources, Map, Filter, FlatMap, PassThrough, Split, FanOut, RoundRobin, Merge, sinks | stages on unbuffered channels |
| step factory (`biz/v1/smsbatch/step_processor.go`) | map of step creators | RegisterStep, CreateStep, CreateStepChain, ValidateStepChain | nothing runs a chain yet |
| job manager, cron job watchers | registered jobs; cron job and batch rows | AddJob, RemoveJob, UpdateJob; ticks | cron scheduler, rows |

What is hard in it: goroutines that share task pointers without a lock (retry
manager), two locks and callbacks between them (heartbeat monitor), locks with a
lease, crashes and restarts (watch server, the other locks), at-least-once
delivery with one offset for many messages in work (Kafka queue), channels that
must be closed behind every goroutine that sends (streams), a search over graphs
in random order (step factory), and requests that save whole rows they read
earlier (SMS batch). `hazards` in `PROJECT.json` lists each at its line.

Correctness, component by component:

* retry manager: an accepted task is not dropped before a callback has reported
  an outcome of it or of another task of its ID, is not given up before it ran
  `MaxRetries` times, and settles;
  a stop ends every goroutine.
* breaker: its state follows from its failure count.
* heartbeat monitor: a job that times out is rescheduled; none is forgotten
  without that; a success is not undone by a check that runs at the same time.
* Kafka queue: nothing fetched is lost before a stop, no message is worked on twice
  in one session, the message just below the offset was handed over, those that the
  offset passes without the handler are few, consumption goes on, a stop is
  effective.
* lock and watch server: the cron jobs of one process run at a time until something
  takes the lock from its holder, which are four things named in `Watch`, and the
  lock is passed on after a stop or a crash.
* other locks: which of them exclude, until when, and which are passed on.
* streams: every element comes to the sinks once, in order where the operators
  promise it; the stream drains; no stage sends on a closed channel, and of the
  sources only those whose channel another goroutine closes.
* step factory: a chain is accepted exactly when it can be put in order.

## 2. Modules

| module | models | state and actions in terms of the code |
|---|---|---|
| `CircuitBreaker` | the breaker as a value with operators | one operator per method; `cooled` stands for "more than `timeout` since the last failure" |
| `RetryManager` | retry manager | `tasks`, `queue`, `isRunning`, `stopClosed` are the fields; `pc[w]`, `current[w]`, `register[w]` place each worker in `worker`/`executeTask`; one action per critical section, channel operation or unguarded access |
| `RetryContract` | what AddTask promises | abstract: accept, run, report, drop, with one kept task per ID; `RetryManager` implements it, alone and under `HeartbeatMonitor`, with `kept` as the set of registered tasks |
| `HeartbeatMonitor` | heartbeat monitor composed with the retry manager | extends `RetryManager`: its steps are conjoined with what the monitor's Executor and callbacks do; `monitor` is the loop and, in a check, the holder of `hm.mutex` |
| `GORMLocker` | database lock | `owner`, `expired` are the row; `ticker`, `renewers` each process's renewing goroutines |
| `Mutex` | what `Locker` promises | abstract: lock, enter, leave, unlock, crash; `Watch` implements it with the processes whose cron jobs run as those inside, `Lockers` as far as its stores exclude |
| `Lockers` | the seven other locks, and processes that use one | `backend` is the kind, `entries` the owners in the store; `named`, `ticker`, `renewers` the locker of each process |
| `Watch` | watch server and the life of its process, on `GORMLocker` | `main` is `Run`, `starter` the goroutine of `Watch.Start`, `cronOn`, `working` the cron scheduler; `holders` and `breached` are history |
| `KafkaQueue` | Kafka queue, its process and the group's offset | `main` is `Start`; `producer`, `processor` place each goroutine; messages are offsets |
| `ConsumerContract` | what the queue owes its consumer and its group | abstract: take, finish (and commit), restart; `KafkaQueue` implements it with what the processors hold and have finished |
| `Streams` | sources, flows and sinks | `topology` is the graph of stages, a value; `held` is what a source has read, `pending` and `work` what an operator waits with and works on (each with its token of the semaphore), `done` the goroutines that ended |
| `StepChain` | registry and check of the step factory | `steps` is the chain; `visited`, `recStack` the maps of the search, `stack` and `left` the recursive calls and their loops |
| `MCRetryManager`, `MCHeartbeatMonitor`, `MCStreams`, `MCStepChain` | - | constants and bounds for TLC; `MCStreams` also computes, by recursion over the graphs, what may come to each channel (`Yield`) and to each sink (`Traces`) |
| `RetryManagerProofs`, `HeartbeatMonitorProofs`, `WatchProofs`, `LockersProofs`, `KafkaQueueProofs`, `StreamsProofs`, `StepChainProofs` | - | theorems |

Operators named "Seeded fault" in a comment are deliberately wrong variants of
the definition that follows them; no specification uses them. `PROJECT.json`
pairs each with the property that it breaks, which shows that the property can
fail.

Choices that deserve a word:

* `Attempts++` is a load and a store, because it holds no lock and a task can be
  in two workers' hands. So is the re-read of `Attempts` that decides about
  giving up. Other unguarded fields (`LastAttempt`, `NextAttempt`) are written
  and read whole.
* `Stop` on a restarted manager closes a closed channel and panics; the deferred
  unlock and the server's recovery leave the state as it was, so it is no step.
* In `HeartbeatMonitor` a check is several steps, because the retry manager's
  lock is taken and released between look-up and addition. `errorCount` stops at
  the first value that is too high, since it is only compared. The reset of
  `ErrorCount` without `hm.mutex` may be lost to the increment of a check in
  progress.
* A heartbeat does not time out while a worker executes a task of the same job:
  the Executor's timeout is 30 seconds and the heartbeat's 10 minutes.
* Tasks of the retry manager may share an ID: `AddTask` overwrites what is registered
  under it, and the heartbeat monitor makes the ID from the job alone
  (`heartbeat.go:311`). What is promised of a task is then promised of its ID.
* In `GORMLocker`, time is whether the lease has expired. `RenewalsOnTime` says
  that a live renewing goroutine is in time; `DetectsDuplicates` says whether the
  database's duplicate-key error is recognised.
* In `Watch`, `breached` notes the first time a holder loses the lock in a way the code
  does not exclude: its lease runs out (`Expire`); the `Unlock` of a process that was
  stopped on standby, or whose own lock was lost, deletes its row (`Deprives`); its own
  `Unlock` comes while jobs or the scheduler still run (`ReleaseTooEarly`); or its
  scheduler is started behind its `Unlock` (`StartCron`). The safety properties speak of
  the time before: up to one of these four, whatever else happens. `watch_standby` shows
  what comes after one of them.
* In `Lockers`, the backend is chosen in the initial state. Each store does what
  the code asks of it: `SetNX` and `Add` fail on a key that is there, etcd's and
  consul's `Put` do not, ZooKeeper's nodes have the owner's name in their path, and
  MongoDB refuses an update that names a field twice, so its Lock always fails. Calls
  may fail before or behind their effect. Processes have owner IDs of their own;
  the default, the host name, does not see to that.
* In `Streams`, a send meets a receive in one step, since all channels are
  unbuffered. `Setups` pairs graphs with sources. `MaxErrors` bounds the read
  errors of a Kafka source, which sends an empty message for each, also those that
  come with the end of its context. The tokens of a semaphore have numbers, so that
  two goroutines with the same element are two. A web socket whose connection fails
  logs the error and reads again (`web_socket.go:73-75`); its loop ends with the
  context, or else the library panics.
* The properties of `Streams` speak of what becomes of elements, which is a
  recursion over the graph that no step of the program makes. It is in three
  constants that no action mentions. `Yield` says what may be on each channel,
  `Traces` has the ways of an element from the source to a sink, and `Span` gives each
  element the places of its origin in the order of reading. Their assumptions are
  about one stage at a time: closed under what the stages send, going on from each
  stage to the next, divided in order by what an operator makes. They hold of
  whatever is computed from a graph, and TLC evaluates them on the five graphs.
* In `StepChain`, a step is what one call or one turn of a loop does. The creators
  make any step of a set; the order of a dependency list is left to the search,
  which visits each name once.
* In `KafkaQueue`, `Wait` does not see goroutines that have not been counted, so
  that `Start` may close the channel, or return, before the pools run, and
  `CommitMessages` sets the offset to what it is told, because kafka-go sends each
  synchronous commit as it comes.

## 3. Runs

| run | instance | what it checks and shows |
|---|---|---|
| `retry_race` | 1 task, 2 workers, `MaxRetries` 2, channel of 1, breaker threshold 2 | types, breaker consistency, no early give-up, the refinement of `RetryContract`, every task settles |
| `retry_queue` | 2 tasks, 1 worker, channel of 1, threshold 1, 2 starts | no silent drop with a full channel, every task settles, stop ends the goroutines |
| `retry_attempts` | 1 task, 2 workers | **violated**: the Executor is called more than `MaxRetries` times |
| `heartbeat` | 1 job, 2 retry tasks with its ID, 1 worker, forgotten after 2 errors, channel of 1, threshold 1 | types, the refinement of `RetryContract`, forgotten jobs were retried, successes are not forgotten, timed-out jobs are rescheduled |
| `watch_lock` | 2 processes, 4 boots in all, late renewals, stops on standby, jobs that outlive the stop | up to a breach: one leader, leases held, the refinement of `Mutex`; at any time: the lock is passed on |
| `watch_standby` | 3 processes, renewals in time, stops on standby | **violated**: another process obtains the lock while its owner runs |
| `watch_sqlite` | 2 processes, SQLite's errors | **violated**: an expired lock is never passed on |
| `kafka_queue` | 2 producers, 2 processors, 3 messages, channel of 1, 2 sessions | types, nothing lost, the offset is earned and skips few messages, the refinement of `ConsumerContract`, every message is handed over, stop ends `Start` |
| `kafka_commit` | 1 producer, 1 processor | **violated**: the offset passes an uncommitted message |
| `streams` | 5 graphs of up to 7 stages with 5 kinds of sources in 14 pairs, 3 elements, parallelism 1 and 2 | types, complete sinks, nothing received twice, order, no send on a closed channel, the stream drains |
| `lockers` | 7 backends, 3 processes, 2 crashes | types, exclusion, renewal, the refinement of `Mutex`, the lock is passed on |
| `step_chain` | chains of up to 3 steps: 6 built-in ones, and custom ones with any dependencies among 3 names | types, an accepted chain can be ordered, a refused one is circular, no endless recursion; no deadlock |

Why the bounds are enough. The races of the retry manager need two workers on one
task; the full channel needs two tasks and room for one. Counts (`Attempts`,
failures) matter up to their limits, so limits of 1 and 2 reach every branch.
The lingering retries of the heartbeat monitor need a second task under the same
ID, which the second of two tasks is; there each task is tried once, since
repeated tries are what the retry runs are about. In `watch_lock` two processes are a
leader and another that takes over, loses or disturbs, and four boots let both come
back; in `watch_standby` three are a leader, a standby that disturbs it and a third that
profits. Three messages and two processors let a later message
overtake an earlier one across a restart. One may then be with a producer and one
received and not yet handed over when the third is committed: the two that
`FewAreSkipped` allows for in a session. In `streams`, three elements fill an
operator of parallelism 2 and one more waits; the graphs have each kind of stage,
and the flows that share a channel (Merge) behind those that divide one. Two
crashes among three users of a lock let a key survive its owner, be found by it
again, and be lost to a third. Chains of three names have self-loops, cycles of two
and three, shared dependencies and names that occur twice; `step_chain` has 377,000
states, `kafka_queue` 284,000, `watch_lock` 185,000, `streams` 180,000. `CHECK_DEADLOCK` is off but in `step_chain`: each of the
other systems may stop for good (a manager nobody starts again, a process that is
down and out of boots, a stream that has drained).

`Heartbeat.cfg` has a constraint, `IdleAtEnd`: after a stop or the end of the
context only the states without retries under way are explored further. Every
property there is about the time before, or holds of a stopped monitor by its
own terms, and once `Serving` is false it stays false, so the constraint cuts off
nothing that the liveness property is about.

### Fairness

* Goroutines that can run do run (WF on each goroutine's steps), tickers tick,
  the clock reaches `NextAttempt` and the end of a lease, an Executor returns
  because its context has a timeout, a Kafka handler returns and the broker
  answers.
* SF on the exits of the scheduler and the workers (`select` picks at random
  among ready cases, so it does not ignore a closed stop channel for ever) and on
  the workers of `HeartbeatMonitor` (Go's mutex does not starve a waiter).
* WF on any step of a stream (`Progress`): some goroutine that can run does. SF on
  `Lock` in `Lockers`: a process that tries for ever is not always the one that
  comes too late or whose answer is lost.
* Nobody is obliged to call `Start`, `Stop`, `AddTask` or to report a heartbeat,
  to boot, signal or kill a process, and the breaker's timeout need not pass.

### What disagrees with the code's own words

Four runs expect a violation; `findings` in `PROJECT.json` quotes the comment or
test each contradicts. In short: the retry manager runs a task more often than
`MaxRetries`; `Unlock` on standby deletes the owner's lock; SQLite's
duplicate-key error is not recognised, so a crashed owner keeps the lock for
ever (SQLite is the database that `internal/nightwatch/server.go` opens); and a
failed Kafka message is skipped by the next commit.

## 4. Proofs

All theorems are checked by TLAPS for every value of the constants that the named
assumptions of the modules allow.

* **Retry manager** (`RetryManagerProofs`). `TypeCorrect` and
  `BreakerAlwaysConsistent` are inductive as they stand, the latter with the
  types. `NoEarlyGiveUp` is not: two workers' loads and stores may interleave. The
  invariant `IInv` adds that `Attempts`, and every value loaded and not yet
  stored, never exceeds the number of runs (a lost update only lowers it), and
  that a worker past its load or its decision has a run to show for it. For
  `NoSilentDrop` it adds that a worker about to unregister its task has reported
  it: an ID is then empty only after a report of one of its tasks, since `AddTask`
  fills it and nothing else empties it. Nothing is assumed of the IDs.
  `ImplementsContract` follows: every step of the manager is a step of `RetryContract`
  or leaves its variables alone.
* **Watch server** (`WatchProofs`). Nothing is assumed of the environment: processes
  may be stopped on standby, jobs outlive the stop, renewals be late. `LeaseBelieved`,
  `LeadersExclude` and `WatchImplementsMutex` hold up to the first breach of the lock.
  `IInv` says that the row of a holder has its name and is not expired
  (`LeaseHeld`) and that only holders lead, until then; and always that a holder's ticker
  is set and a renewing goroutine of it lives (`LeaseRenewed`), and where a holder is in
  its life (`HoldersArePlaced`). While the row is a holder's nobody else can get it
  (`HeldIsNotObtainable`), so two leaders would both own the one row.
  `RenewedLeasesLast` says that a lease runs out under its holder only if a live
  goroutine is late. The same invariant says whose step is which of `Mutex`.
* **Other locks** (`LockersProofs`). `LocksExclude` and `HoldersAreRenewed` are
  inductive together only: a second process gets the lock when the key is gone,
  which takes a holder's Unlock or nobody who renews, and a holder is renewed as
  long as no other holder's Unlock takes its key. `LockersImplementMutex` follows,
  because a step changes the belief of one process.
* **Kafka queue** (`KafkaQueueProofs`). `NothingLost` follows each offset from
  the fetch through the channel to a processor; the one hard step is the receive,
  where the rest of the channel moves up. `OffsetIsEarned` rests on
  `HeldWasHanded`: a processor hands over before it commits, if not at once when it
  receives.
  `ImplementsContract` needs `InOnePlace`: whatever is carried, queued, held or
  finished lies below the position of the next fetch, and in one place only.
  `AlwaysFewSkipped` says how far the offset may go wrong. A message is passed over
  when its producer is overtaken, or while its processor has received it and not yet
  called the handler. `FewInLine` counts both. For each message in the channel, those
  it has overtaken were with other producers when it was put there, so they are fewer
  than the producers, and from then on they can only move on. When it is received,
  those that other processors have received and not handed over come on top; from
  then on the number can only fall. A commit adds it to what earlier sessions passed
  over. Only with one producer and one processor is nothing passed over
  (`OneOfEachSkipsNone`); `NewKQueue` makes eight of each unless it is told otherwise
  (`kafka.go:72-78`).
* **Heartbeat monitor** (`HeartbeatMonitorProofs`). The types, and that forgotten
  jobs were retried and successes are not forgotten, from `HBInv`: a job that a
  check is about to forget has timed out, or a worker in a callback will put it
  back; and it is still in the check's hands, was handed over, or its task is
  registered or with a worker. This is not inductive without where in `executeTask`
  the callbacks are, and that a job times out again only after its task has left
  the worker. The proof allows several job records for one task, where the run has
  one. `ManagerKeepsItsWord` carries the retry manager's `NoEarlyGiveUp` and
  `BreakerConsistent` over to the composition: all that the monitor does to the
  manager is a step of the manager, but for the `RemoveTask` of a callback
  (`StepOfManager`), and that one leaves the counts alone. It comes after the report of
  the callback's own task, so that it is a `Drop` of the contract, also when it
  unregisters a later task of the job: `ManagerKeepsItsContract`.
* **Streams** (`StreamsProofs`). `PanicsOnlyInSources` for every graph and every
  source, from `SourceInv` and `ClosedBehindWriters`: a channel is closed behind all the stages that
  send to it, and a stage has ended only with its input closed and nothing in
  hand. What the sinks receive, for every graph, parallelism and source that the
  assumptions allow:
  * `AlwaysComplete`: nothing is anywhere that is not in `Yield`
    (`NothingInvented`), and each trace of an element that was read has something
    with a goroutine, or at a sink (`TracesGoOn`). At the end no goroutine has
    anything. A goroutine that sends leaves the other outputs behind, so the
    invariant needs `Outstanding`, which is what it has still to send, and
    `TokensDiffer`, without which one goroutine of an operator could stand for two.
  * `AlwaysOnce`: a number of the reading order is in one place at most (`OnePlace`),
    among the unread, with a goroutine that has still to send it towards the sink,
    or at one position of what the sink has received. `Upstream` is the least set of
    channels that lead to the sink; the branches of a FanOut that meet again would
    bring an element twice, and are excluded by name (`OneWay`).
  * `AlwaysInOrder`: all that is still to come to a stage is behind what it has or has
    received (`InOrder`), at every stage and not just at the sinks. Behind RoundRobin
    too: its flows have to be merged before they come to one sink, and Merge is
    excluded, so each alone is in order.
* **Step factory** (`StepChainProofs`). Soundness and completeness of the
  depth-first search for chains of any length over any names, without induction
  over paths: a cycle is a nonempty set of names each of which depends on another
  of the set (`Knot`). The names whose calls have returned depend on such names
  only, and have no knot among them; the names on the stack follow the graph down,
  so that a dependency on one of them closes a knot.

Only model-checked: the liveness properties, since fairness and ENABLED are beyond
the prover. Every invariant and every action property that a passing run checks
is also proved. The tasks of `retry_queue` have IDs of their own; that `AddTask`
overwrites an unfinished task of the same ID is covered by the proofs of `NoSilentDrop`
and `ContractSpec`, and by no run. What the proofs about streams take from TLC is that the `Yield`,
`Traces` and `Span` of the five graphs are as assumed, which their recursive
definitions would need induction for.

## 5. Not modelled

`components` in `PROJECT.json` gives the reason for each part. Left out of the
modelled parts: metrics and logging; `ForceRetryJob` and the setters of the
heartbeat monitor (called by tests only); partition rebalancing, which the broker
decides; read errors of `FetchMessage` other than the end (a retry of the same
fetch); `serveHealthz`; the Execute methods of the built-in steps; what sinks do
with elements beyond receiving them, `FileSink` among them, which ends the process when
a write fails.

What the model of the heartbeat monitor assumes the program does not give it at
present: every HTTP request builds a status tracking service with a monitor of
its own (`biz.go:73`) and starts it under the request's context
(`handler/http/handler.go:216`), so that the monitor's goroutines end with the
request. `HeartbeatMonitor` is faithful to the component, as its tests use it.

The rest of `internal/nightwatch` does not run at this commit, so a model of it
would be a model of code as it might become:

* SMS batch API, state machine, processors: `Create` and `StartProcessing` call
  `InitialExecute` with a nil event, which it dereferences. `SmsBatchParams` and
  `SmsBatchResults` have no `Value` method, so the database driver refuses every
  row that pause, abort, retry, completion or failure would save. The watcher lists
  rows by states that no row gets, and saves none it has changed. What is left,
  `Update`, `UpdateJobStatus`, the rescheduling and the cleanup, are reads followed
  by unconditional saves or deletions of a whole row: the last one wins, and
  nothing more holds of it (see the hazards without a property).
* Cron jobs: a row with a batch template cannot be stored for the same reason, and
  without one the watcher registers nothing.
* Consumers and messaging service: nothing constructs them, no
  `IdempotentChecker` is implemented, and `Consume` does not know the type that
  `KQueue` hands over. The publisher of batch events names the kind of an event in
  the header `event_type` (`batch_publisher.go:44`), the consumer looks for it in
  `message_type` (`consumer/batch/consumer.go:39`).
* Task scheduler, statistics sync, watcher monitor: nothing constructs them.
* `internal/apiserver`, stores, providers and the generated code have no
  behaviour of their own beyond single calls.

## 6. Plan

Done, in this order: `RetryManager` with `RetryContract`, `GORMLocker` and `Watch`,
`KafkaQueue`, `HeartbeatMonitor`, then `Streams`, `Lockers`, `StepChain`, the
proofs of `HeartbeatMonitor`, the abstract specifications `Mutex` and
`ConsumerContract` with their refinements, and the proofs of what the sinks of a
stream receive and of what the Kafka queue's offset passes over.

Left to prove: that a network of streams implements a function from what is read to
what each sink receives, which would take a stage of its own in the abstract.

When the code gets there:

1. `SmsBatch`, once rows with results can be stored: one row, the operations of the
   API, of status tracking and of the batch event handlers, each a read, a decision
   and a save, the cleanup's list and deletions, and the watcher's ticks. One batch,
   two calls in flight, two ticks.
2. `UplinkConsumer`, once there is an `IdempotentChecker`: check, look-up and
   creation under redelivery, composed with `KafkaQueue`.
3. `JobManager`, once cron jobs with templates can be stored: registration, removal,
   and the count and creation of their batches.
4. `MessagingService`, once something makes one: Start, Stop, the metrics and Go's
   reader-writer lock with a waiting writer, for the two places that take the read
   lock twice.
5. `StatusTracking`, once the service outlives a request: several requests that
   share one monitor.
