---------------------------- MODULE RetryManager ----------------------------
(***************************************************************************)
(* The retry manager of internal/nightwatch/biz/v1/statustracking          *)
(* (retry_manager.go): a map of registered tasks, a bounded channel, a     *)
(* scheduler goroutine that enqueues the tasks that are due, and a pool of *)
(* worker goroutines that run them.                                        *)
(*                                                                         *)
(* A step is what a goroutine does between two points at which another one *)
(* can interfere: the critical sections of rm.mu and of the breaker,       *)
(* the channel operations, and the unguarded accesses to task.Attempts (a  *)
(* load and a store, since Attempts++ holds no lock).                      *)
(* Tasks are pointers: the same task can be in the channel and in several  *)
(* workers' hands at once.                                                 *)
(***************************************************************************)
EXTENDS CircuitBreaker, Sequences, FiniteSets

CONSTANTS
    Task,         \* the *RetryTask values callers hand to AddTask
    TaskID,       \* their IDs
    IdOf,         \* the ID of each task
    NoTask,       \* an ID that is not registered; a worker with no task
    Worker,       \* the workerCount goroutines of the pool
    MaxRetries,   \* RetryConfig.MaxRetries of every task
    QueueCap,     \* capacity of the channel (1000 in NewRetryManager)
    MaxStarts     \* bound: how often the manager is started

ASSUME TaskAssumption == IdOf \in [Task -> TaskID] /\ NoTask \notin Task
ASSUME RetryAssumption ==
    MaxRetries \in Nat \ {0} /\ QueueCap \in Nat \ {0} /\ MaxStarts \in Nat \ {0}

VARIABLES
    tasks,       \* rm.tasks: ID -> registered task
    queue,       \* rm.queue: tasks waiting for a worker
    attempts,    \* task.Attempts
    due,         \* whether task.NextAttempt has passed
    breaker,     \* rm.circuitBreaker
    isRunning,   \* rm.isRunning
    stopClosed,  \* whether rm.stopChan is closed; it is never made again
    ctxDone,     \* whether the context of the latest Start is cancelled
    starts,      \* number of Start calls that succeeded
    scheduler,   \* the scheduler goroutine: "off" or "on"
    batch,       \* readyTasks it still has to offer to the channel
    pc,          \* where each worker is in worker / executeTask
    current,     \* the task each worker holds
    register,    \* the value of Attempts each worker has loaded
    accepted,    \* history: tasks AddTask returned nil for
    runs,        \* history: how often each task's Executor was called
    reported     \* history: which callbacks each task has seen

lifecycle == <<isRunning, stopClosed, ctxDone, starts>>
history == <<accepted, runs, reported>>
vars == <<tasks, queue, attempts, due, breaker, lifecycle,
          scheduler, batch, pc, current, register, history>>

Outcome == {"success", "maxRetries"}

PC == {"off", "idle", "load", "store", "execute", "reset", "check", "giveUp",
       "remove"}

\* A worker in executeTask, which holds a task.
Busy(w) == pc[w] \notin {"off", "idle"}

TypeOK ==
    /\ tasks \in [TaskID -> Task \union {NoTask}]
    /\ queue \in Seq(Task) /\ Len(queue) <= QueueCap
    /\ attempts \in [Task -> Nat]
    /\ due \in [Task -> BOOLEAN]
    /\ breaker \in Breaker
    /\ isRunning \in BOOLEAN /\ stopClosed \in BOOLEAN /\ ctxDone \in BOOLEAN
    /\ starts \in Nat
    /\ scheduler \in {"off", "on"}
    /\ batch \in SUBSET Task
    /\ pc \in [Worker -> PC]
    /\ current \in [Worker -> Task \union {NoTask}]
    /\ \A w \in Worker : Busy(w) => current[w] \in Task
    /\ register \in [Worker -> Nat]
    /\ accepted \in SUBSET Task
    /\ runs \in [Task -> Nat]
    /\ reported \in [Task -> SUBSET Outcome]

Init ==
    /\ tasks = [id \in TaskID |-> NoTask]
    /\ queue = <<>>
    /\ attempts = [t \in Task |-> 0]
    /\ due = [t \in Task |-> FALSE]
    /\ breaker = NewBreaker
    /\ isRunning = FALSE /\ stopClosed = FALSE /\ ctxDone = FALSE
    /\ starts = 0
    /\ scheduler = "off" /\ batch = {}
    /\ pc = [w \in Worker |-> "off"]
    /\ current = [w \in Worker |-> NoTask]
    /\ register = [w \in Worker |-> 0]
    /\ accepted = {}
    /\ runs = [t \in Task |-> 0]
    /\ reported = [t \in Task |-> {}]

Registered(t) == tasks[IdOf[t]] = t

\* A non-blocking send: a full channel drops the task.
\* Seeded fault: the send ignores the capacity.
OfferAlways(t) == Append(queue, t)
Offered(t) == IF Len(queue) < QueueCap THEN Append(queue, t) ELSE queue

\* rm.RemoveTask: by ID, whichever task is registered under it.
Unregistered(id) == [tasks EXCEPT ![id] = NoTask]

-----------------------------------------------------------------------------
(* Lifecycle. *)

\* The bound on goroutines: the pool of an earlier Start has ended.
Start ==
    /\ ~isRunning /\ starts < MaxStarts
    /\ scheduler = "off" /\ \A w \in Worker : pc[w] = "off"
    /\ isRunning' = TRUE /\ starts' = starts + 1 /\ ctxDone' = FALSE
    /\ scheduler' = "on"
    /\ pc' = [w \in Worker |-> "idle"]
    /\ UNCHANGED <<tasks, queue, attempts, due, breaker, stopClosed,
                   batch, current, register, history>>

\* After a restart stopChan is still closed: Stop then panics in close, before it
\* has changed anything, and the deferred Unlock releases rm.mu. The HTTP server's
\* recovery middleware keeps the process alive, so that Stop is no step at all.
Stop ==
    /\ isRunning /\ ~stopClosed
    /\ isRunning' = FALSE /\ stopClosed' = TRUE
    /\ UNCHANGED <<tasks, queue, attempts, due, breaker, ctxDone,
                   starts, scheduler, batch, pc, current, register, history>>

\* The caller cancels the context it gave to Start; isRunning stays set.
CancelContext ==
    /\ starts > 0 /\ ~ctxDone
    /\ ctxDone' = TRUE
    /\ UNCHANGED <<tasks, queue, attempts, due, breaker, isRunning,
                   stopClosed, starts, scheduler, batch, pc, current,
                   register, history>>

Ending == stopClosed \/ ctxDone

\* A goroutine's select may take the stop case while the channel is ready too.
WorkerExit(w) ==
    /\ pc[w] = "idle" /\ Ending
    /\ pc' = [pc EXCEPT ![w] = "off"]
    /\ UNCHANGED <<tasks, queue, attempts, due, breaker, lifecycle,
                   scheduler, batch, current, register, history>>

\* Seeded fault: the scheduler selects on stopChan and not on the context.
SchedulerExitOnStop ==
    /\ scheduler = "on" /\ batch = {} /\ stopClosed
    /\ scheduler' = "off"
    /\ UNCHANGED <<tasks, queue, attempts, due, breaker, lifecycle,
                   batch, pc, current, register, history>>

SchedulerExit ==
    /\ scheduler = "on" /\ batch = {} /\ Ending
    /\ scheduler' = "off"
    /\ UNCHANGED <<tasks, queue, attempts, due, breaker, lifecycle,
                   batch, pc, current, register, history>>

-----------------------------------------------------------------------------
(* The callers and the clock. *)

\* Seeded fault: a task that fits in the channel is not registered as well.
AddTaskQueuedOnly(t) ==
    /\ isRunning /\ t \notin accepted
    /\ CanExecute(breaker)
    /\ breaker' = Probed(breaker)
    /\ tasks' = IF Offered(t) = queue THEN [tasks EXCEPT ![IdOf[t]] = t] ELSE tasks
    /\ due' = [due EXCEPT ![t] = TRUE]
    /\ queue' = Offered(t)
    /\ accepted' = accepted \union {t}
    /\ UNCHANGED <<attempts, lifecycle, scheduler, batch, pc, current,
                   register, runs, reported>>

\* Seeded fault: a full channel loses the task and AddTask still returns nil.
AddTaskLosesOnFull(t) ==
    /\ isRunning /\ t \notin accepted
    /\ CanExecute(breaker)
    /\ breaker' = Probed(breaker)
    /\ tasks' = IF Offered(t) = queue THEN tasks ELSE [tasks EXCEPT ![IdOf[t]] = t]
    /\ due' = [due EXCEPT ![t] = TRUE]
    /\ queue' = Offered(t)
    /\ accepted' = accepted \union {t}
    /\ UNCHANGED <<attempts, lifecycle, scheduler, batch, pc, current,
                   register, runs, reported>>

\* AddTask of a new task, under rm.mu. A refused one (not running, breaker
\* open) changes nothing and may be tried again.
AddTask(t) ==
    /\ isRunning /\ t \notin accepted
    /\ CanExecute(breaker)
    /\ breaker' = Probed(breaker)
    /\ tasks' = [tasks EXCEPT ![IdOf[t]] = t]
    /\ due' = [due EXCEPT ![t] = TRUE]
    /\ queue' = Offered(t)
    /\ accepted' = accepted \union {t}
    /\ UNCHANGED <<attempts, lifecycle, scheduler, batch, pc, current,
                   register, runs, reported>>

BackoffElapses(t) ==
    /\ t \in accepted /\ ~due[t]
    /\ due' = [due EXCEPT ![t] = TRUE]
    /\ UNCHANGED <<tasks, queue, attempts, breaker, lifecycle,
                   scheduler, batch, pc, current, register, history>>

BreakerTimeout ==
    /\ ~breaker.cooled
    /\ breaker' = CoolDown(breaker)
    /\ UNCHANGED <<tasks, queue, attempts, due, lifecycle, scheduler,
                   batch, pc, current, register, history>>

-----------------------------------------------------------------------------
(* The scheduler. *)

\* Seeded fault: an off-by-one, the last retry is never scheduled.
ReadyTasksButLast ==
    {t \in Task : Registered(t) /\ due[t] /\ attempts[t] < MaxRetries - 1}

ReadyTasks == {t \in Task : Registered(t) /\ due[t] /\ attempts[t] < MaxRetries}

\* A tick of the one-second ticker: the scan under the read lock.
SchedulerScan ==
    /\ scheduler = "on" /\ batch = {} /\ ReadyTasks # {}
    /\ batch' = ReadyTasks
    /\ UNCHANGED <<tasks, queue, attempts, due, breaker, lifecycle,
                   scheduler, pc, current, register, history>>

\* The sends follow after the lock is released, in the random order of the map.
SchedulerSend(t) ==
    /\ t \in batch
    /\ queue' = Offered(t)
    /\ batch' = batch \ {t}
    /\ UNCHANGED <<tasks, attempts, due, breaker, lifecycle,
                   scheduler, pc, current, register, history>>

-----------------------------------------------------------------------------
(* A worker. *)

Take(w) ==
    /\ pc[w] = "idle" /\ queue # <<>>
    /\ current' = [current EXCEPT ![w] = Head(queue)]
    /\ queue' = Tail(queue)
    /\ pc' = [pc EXCEPT ![w] = "load"]
    /\ UNCHANGED <<tasks, attempts, due, breaker, lifecycle,
                   scheduler, batch, register, history>>

LoadAttempts(w) ==
    /\ pc[w] = "load"
    /\ register' = [register EXCEPT ![w] = attempts[current[w]]]
    /\ pc' = [pc EXCEPT ![w] = "store"]
    /\ UNCHANGED <<tasks, queue, attempts, due, breaker, lifecycle,
                   scheduler, batch, current, history>>

\* The second half of Attempts++, and the call of the Executor.
StoreAttempts(w) ==
    /\ pc[w] = "store"
    /\ attempts' = [attempts EXCEPT ![current[w]] = register[w] + 1]
    /\ runs' = [runs EXCEPT ![current[w]] = @ + 1]
    /\ register' = [register EXCEPT ![w] = 0]
    /\ pc' = [pc EXCEPT ![w] = "execute"]
    /\ UNCHANGED <<tasks, queue, due, breaker, lifecycle, scheduler,
                   batch, current, accepted, reported>>

\* The Executor returns nil; handleTaskSuccess calls OnSuccess.
ExecutorSucceeds(w) ==
    /\ pc[w] = "execute"
    /\ reported' = [reported EXCEPT ![current[w]] = @ \union {"success"}]
    /\ pc' = [pc EXCEPT ![w] = "reset"]
    /\ UNCHANGED <<tasks, queue, attempts, due, breaker, lifecycle, scheduler,
                   batch, current, register, accepted, runs>>

\* The Executor returns an error; handleTaskFailure calls OnFailure (which
\* only logs in every caller) and counts the failure in the breaker.
ExecutorFails(w) ==
    /\ pc[w] = "execute"
    /\ breaker' = OnFailure(breaker)
    /\ pc' = [pc EXCEPT ![w] = "check"]
    /\ UNCHANGED <<tasks, queue, attempts, due, lifecycle, scheduler,
                   batch, current, register, history>>

ResetBreaker(w) ==
    /\ pc[w] = "reset"
    /\ breaker' = OnSuccess(breaker)
    /\ pc' = [pc EXCEPT ![w] = "remove"]
    /\ UNCHANGED <<tasks, queue, attempts, due, lifecycle, scheduler,
                   batch, current, register, history>>

\* Seeded fault: an off-by-one, the last retry is given up.
ReachMaxRetriesEarly(w) ==
    /\ pc[w] = "check" /\ attempts[current[w]] >= MaxRetries - 1
    /\ pc' = [pc EXCEPT ![w] = "giveUp"]
    /\ UNCHANGED <<tasks, queue, attempts, due, breaker, lifecycle,
                   scheduler, batch, current, register, history>>

\* Attempts is read again, without a lock, to decide between the two branches.
ReachMaxRetries(w) ==
    /\ pc[w] = "check" /\ attempts[current[w]] >= MaxRetries
    /\ pc' = [pc EXCEPT ![w] = "giveUp"]
    /\ UNCHANGED <<tasks, queue, attempts, due, breaker, lifecycle,
                   scheduler, batch, current, register, history>>

Backoff(w) ==
    /\ pc[w] = "check" /\ attempts[current[w]] < MaxRetries
    /\ due' = [due EXCEPT ![current[w]] = FALSE]
    /\ pc' = [pc EXCEPT ![w] = "idle"]
    /\ current' = [current EXCEPT ![w] = NoTask]
    /\ UNCHANGED <<tasks, queue, attempts, breaker, lifecycle,
                   scheduler, batch, register, history>>

\* Seeded fault: handleTaskFailure returns before its RemoveTask.
CallOnMaxRetriesKeeping(w) ==
    /\ pc[w] = "giveUp"
    /\ reported' = [reported EXCEPT ![current[w]] = @ \union {"maxRetries"}]
    /\ pc' = [pc EXCEPT ![w] = "idle"]
    /\ current' = [current EXCEPT ![w] = NoTask]
    /\ UNCHANGED <<tasks, queue, attempts, due, breaker, lifecycle, scheduler,
                   batch, register, accepted, runs>>

CallOnMaxRetries(w) ==
    /\ pc[w] = "giveUp"
    /\ reported' = [reported EXCEPT ![current[w]] = @ \union {"maxRetries"}]
    /\ pc' = [pc EXCEPT ![w] = "remove"]
    /\ UNCHANGED <<tasks, queue, attempts, due, breaker, lifecycle, scheduler,
                   batch, current, register, accepted, runs>>

RemoveTask(w) ==
    /\ pc[w] = "remove"
    /\ tasks' = Unregistered(IdOf[current[w]])
    /\ pc' = [pc EXCEPT ![w] = "idle"]
    /\ current' = [current EXCEPT ![w] = NoTask]
    /\ UNCHANGED <<queue, attempts, due, breaker, lifecycle,
                   scheduler, batch, register, history>>

WorkerStep(w) ==
    \/ Take(w)
    \/ LoadAttempts(w)
    \/ StoreAttempts(w)
    \/ ExecutorSucceeds(w)
    \/ ExecutorFails(w)
    \/ ResetBreaker(w)
    \/ ReachMaxRetries(w)
    \/ Backoff(w)
    \/ CallOnMaxRetries(w)
    \/ RemoveTask(w)

SchedulerStep ==
    \/ SchedulerScan
    \/ \E t \in Task : SchedulerSend(t)

Next ==
    \/ Start
    \/ Stop
    \/ CancelContext
    \/ SchedulerExit
    \/ BreakerTimeout
    \/ SchedulerStep
    \/ \E t \in Task : AddTask(t) \/ BackoffElapses(t)
    \/ \E w \in Worker : WorkerStep(w) \/ WorkerExit(w)

Spec == Init /\ [][Next]_vars

(***************************************************************************)
(* Goroutines that can run do run, the ticker ticks, the clock passes      *)
(* NextAttempt, and an Executor returns (its context has a timeout).  A    *)
(* goroutine whose select finds both its stop channel and the task channel *)
(* ready picks at random, so it does not ignore the stop for ever.         *)
(***************************************************************************)
Fairness ==
    /\ WF_vars(SchedulerStep) /\ SF_vars(SchedulerExit)
    /\ \A w \in Worker : WF_vars(WorkerStep(w)) /\ SF_vars(WorkerExit(w))
    /\ \A t \in Task : WF_vars(BackoffElapses(t))

FairSpec == Spec /\ Fairness

-----------------------------------------------------------------------------
(* Properties. *)

\* The breaker's state and its failure count never disagree, whichever of
\* AddTask and the workers touched it last (CircuitBreaker, Consistent).
BreakerConsistent == Consistent(breaker)

\* No early give-up: OnMaxRetries is called only for a task whose Executor was
\* called MaxRetries times, although concurrent Attempts++ can lose updates
\* (a lost update delays the give-up and never hastens it).
NoEarlyGiveUp ==
    \A t \in Task : "maxRetries" \in reported[t] => runs[t] >= MaxRetries

\* The tasks that share an ID with t, t among them (heartbeat.go:311 gives every retry of
\* a job the same one).  AddTask overwrites the one that is registered.
SameID(t) == {u \in accepted : IdOf[u] = IdOf[t]}

\* No silent drop: once AddTask has taken a task, one of its ID stays registered, where
\* the scheduler finds it, until a callback of one of them was called, even when the
\* channel was full at AddTask or at every later tick.
NoSilentDrop ==
    \A t \in accepted : \E u \in SameID(t) : Registered(u) \/ reported[u] # {}

\* The promise to the callers of AddTask, as an abstract machine: a task leaves the map
\* only when a later one takes its ID, or a task of its ID has been reported.
Contract ==
    INSTANCE RetryContract WITH kept <- {t \in Task : Registered(t)}
ContractSpec == Contract!Spec

Serving == isRunning /\ ~Ending

\* Every accepted task, or another of its ID, is reported to its caller, and the task is
\* unregistered, however full the channel and however the workers race, unless the
\* manager is stopped or its context cancelled first.
EveryTaskSettles ==
    \A t \in Task :
        t \in accepted ~>
            \/ (\E u \in SameID(t) : reported[u] # {}) /\ ~Registered(t)
            \/ ~Serving

\* Stop, or the end of the context, ends every goroutine, tasks in the channel
\* or not.
StopEndsGoroutines ==
    Ending ~> (scheduler = "off" /\ \A w \in Worker : pc[w] = "off")

\* What TestRetryManager_RetryOnFailure asserts ("Should attempt exactly 3
\* times"): the Executor is called at most MaxRetries times.
AttemptsWithinMaxRetries == \A t \in Task : runs[t] <= MaxRetries

-----------------------------------------------------------------------------
(***************************************************************************)
(* The inductive invariant behind the properties above.  NoEarlyGiveUp is  *)
(* not inductive alone: it needs that Attempts never exceeds the number of *)
(* runs, which in turn needs the same of the values loaded and not yet     *)
(* stored.  NoSilentDrop needs that a worker which is about to unregister  *)
(* its task has reported it.                                               *)
(***************************************************************************)
\* Whatever circulates was accepted.
OnlyAccepted ==
    /\ \A i \in 1..Len(queue) : queue[i] \in accepted
    /\ batch \subseteq accepted
    /\ \A w \in Worker : Busy(w) => current[w] \in accepted
    /\ \A id \in TaskID :
           tasks[id] # NoTask => tasks[id] \in accepted /\ IdOf[tasks[id]] = id

AttemptsCounted ==
    /\ \A t \in Task : attempts[t] <= runs[t]
    /\ \A w \in Worker :
           /\ pc[w] = "store" => register[w] <= runs[current[w]]
           /\ pc[w] = "execute" => runs[current[w]] >= 1
           /\ pc[w] = "giveUp" => runs[current[w]] >= MaxRetries

ReportedFirst ==
    /\ \A w \in Worker : pc[w] \in {"reset", "remove"} => reported[current[w]] # {}
    /\ NoSilentDrop

IInv == OnlyAccepted /\ AttemptsCounted /\ NoEarlyGiveUp /\ ReportedFirst
=============================================================================
