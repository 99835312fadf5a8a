-------------------------- MODULE HeartbeatMonitor --------------------------
(***************************************************************************)
(* The heartbeat monitor (heartbeat.go) on top of the retry manager: jobs  *)
(* report heartbeats; a loop looks for jobs that have not reported for too *)
(* long, hands each to the retry manager, or reschedules it itself when    *)
(* the manager refuses, and forgets jobs with too many errors; callbacks   *)
(* of the retry manager's workers change the jobs it looks at.             *)
(*                                                                         *)
(* hm.mutex is held from the beginning of a check to its end, but the      *)
(* retry manager has a lock of its own, and works on between the look-up   *)
(* of a task and its addition.  The callbacks write to a job without       *)
(* hm.mutex before they take it.  HeartbeatInfo values are pointers: a     *)
(* retry task keeps the one it was made for, the map may hold a later one. *)
(***************************************************************************)
EXTENDS RetryManager

CONSTANTS
    Job,         \* job and partition: the keys of the map
    Info,        \* the *HeartbeatInfo values UpdateHeartbeat can make
    KeyOf,       \* the job of each
    NoInfo,      \* no entry in the map
    MaxErrors    \* errors a job may have before it is forgotten (5 in checkTimeouts)

\* The ID of a retry task is made from the job's key alone, so all retries of a job
\* share it.
ASSUME HeartbeatAssumption ==
    /\ TaskID = Job
    /\ KeyOf \in [Info -> Job] /\ NoInfo \notin Info
    /\ MaxErrors \in Nat

VARIABLES
    heartbeatMap,  \* hm.heartbeatMap: job -> its info
    made,          \* the infos made so far
    timedOut,      \* whether LastHeartbeat is older than timeoutInterval
    errorCount,    \* ErrorCount, up to the first value that is too high
    monitor,       \* monitorLoop: off, on, or in a check: lookup, add
    timeoutJobs,   \* infos the check has still to handle; in add, the first of
    handling,      \* them is the one that was looked up
    jobsToRemove,  \* jobs it will forget at its end
    jobOf,         \* the info each retry task was made for
    callback,      \* what each worker has still to do in OnSuccess or OnMaxRetries
    attended       \* history: infos whose job RescheduleJob was called for, or that
                   \* were removed by their owner, since they last reported or
                   \* OnSuccess last wrote to them

infos == <<heartbeatMap, made, timedOut, errorCount>>
check == <<monitor, timeoutJobs, handling, jobsToRemove>>
hbVars == <<infos, check, jobOf, callback, attended>>
allVars == <<vars, hbVars>>

Callback == {"none", "write", "readd", "unregister"}

HBTypeOK ==
    /\ heartbeatMap \in [Job -> Info \union {NoInfo}]
    /\ \A j \in Job : heartbeatMap[j] # NoInfo =>
           heartbeatMap[j] \in made /\ KeyOf[heartbeatMap[j]] = j
    /\ made \in SUBSET Info
    /\ timedOut \in [Info -> BOOLEAN]
    /\ errorCount \in [Info -> 0..(MaxErrors + 1)]
    /\ monitor \in {"off", "on", "lookup", "add"}
    /\ timeoutJobs \in SUBSET Info
    /\ handling \in Info \union {NoInfo} /\ (monitor = "add" <=> handling # NoInfo)
    /\ jobsToRemove \in SUBSET Job
    /\ jobOf \in [Task -> Info \union {NoInfo}]
    /\ \A t \in accepted : jobOf[t] \in Info /\ KeyOf[jobOf[t]] = IdOf[t]
    /\ callback \in [Worker -> Callback]
    /\ attended \in SUBSET Info

HBInit ==
    /\ Init
    /\ heartbeatMap = [j \in Job |-> NoInfo]
    /\ made = {}
    /\ timedOut = [i \in Info |-> FALSE]
    /\ errorCount = [i \in Info |-> 0]
    /\ monitor = "off" /\ timeoutJobs = {} /\ handling = NoInfo /\ jobsToRemove = {}
    /\ jobOf = [t \in Task |-> NoInfo]
    /\ callback = [w \in Worker |-> "none"]
    /\ attended = {}

\* hm.mutex is free; only a check holds it for more than one step.
Unlocked == monitor \in {"off", "on"}

Monitored(i) == heartbeatMap[KeyOf[i]] = i

InfosOf(j) == {i \in Info : KeyOf[i] = j}

\* ErrorCount++.
OneMore(n) == IF n > MaxErrors THEN n ELSE n + 1

-----------------------------------------------------------------------------
(* The interface of the monitor, and time. *)

StartMonitor ==
    /\ Unlocked /\ monitor = "off" /\ Start
    /\ monitor' = "on"
    /\ UNCHANGED <<infos, timeoutJobs, handling, jobsToRemove, jobOf, callback, attended>>

StopMonitor == Unlocked /\ Stop /\ UNCHANGED hbVars

\* The heartbeats of a running job, and those that say "error".
UpdateHeartbeat(i, isError) ==
    /\ Unlocked
    /\ \/ Monitored(i) /\ UNCHANGED <<heartbeatMap, made>>
       \/ /\ heartbeatMap[KeyOf[i]] = NoInfo /\ i \notin made
          /\ heartbeatMap' = [heartbeatMap EXCEPT ![KeyOf[i]] = i]
          /\ made' = made \union {i}
    /\ timedOut' = [timedOut EXCEPT ![i] = FALSE]
    /\ errorCount' = IF isError THEN [errorCount EXCEPT ![i] = OneMore(@)] ELSE errorCount
    /\ attended' = attended \ {i}
    /\ UNCHANGED <<vars, check, jobOf, callback>>

RemoveHeartbeat(j) ==
    /\ Unlocked /\ heartbeatMap[j] # NoInfo
    /\ heartbeatMap' = [heartbeatMap EXCEPT ![j] = NoInfo]
    /\ attended' = attended \union {heartbeatMap[j]}
    /\ UNCHANGED <<vars, made, timedOut, errorCount, check, jobOf, callback>>

\* The interval (10 minutes) passes without a heartbeat.  No worker is that long at
\* a task of the job: its Executor has a timeout of 30 seconds.
TimeOut(i) ==
    /\ i \in made /\ ~timedOut[i]
    /\ \A w \in Worker : Busy(w) => IdOf[current[w]] # KeyOf[i]
    /\ timedOut' = [timedOut EXCEPT ![i] = TRUE]
    /\ UNCHANGED <<vars, heartbeatMap, made, errorCount, check, jobOf, callback, attended>>

-----------------------------------------------------------------------------
(* checkTimeouts and handleTimeoutJobs, under hm.mutex. *)

TimedOutJobs == {i \in Info : Monitored(i) /\ timedOut[i]}

\* A retry task that was not made yet (a bound: Task is finite).
NewTask(i) == {t \in Task \ accepted : IdOf[t] = KeyOf[i]}

CheckTimeouts ==
    /\ monitor = "on" /\ TimedOutJobs # {}
    /\ \A i \in TimedOutJobs : NewTask(i) # {}
    /\ errorCount' = [i \in Info |->
                          IF i \in TimedOutJobs THEN OneMore(errorCount[i]) ELSE errorCount[i]]
    /\ timeoutJobs' = TimedOutJobs
    /\ jobsToRemove' = {KeyOf[i] : i \in {k \in TimedOutJobs : errorCount'[k] > MaxErrors}}
    /\ monitor' = "lookup"
    /\ UNCHANGED <<vars, heartbeatMap, made, timedOut, handling, jobOf, callback, attended>>

\* Seeded fault: a job that is about to be forgotten is not handled any more.
LookUpUnlessRemoved(i) ==
    /\ monitor = "lookup" /\ i \in timeoutJobs
    /\ timeoutJobs' = timeoutJobs \ {i}
    /\ IF tasks[KeyOf[i]] # NoTask \/ KeyOf[i] \in jobsToRemove
         THEN UNCHANGED <<monitor, handling>>
         ELSE monitor' = "add" /\ handling' = i
    /\ UNCHANGED <<vars, infos, jobsToRemove, jobOf, callback, attended>>

\* Seeded fault: a check makes way for a task of its own.
LookUpReplacing(i) ==
    /\ monitor = "lookup" /\ i \in timeoutJobs
    /\ timeoutJobs' = timeoutJobs \ {i}
    /\ tasks' = Unregistered(KeyOf[i])
    /\ monitor' = "add" /\ handling' = i
    /\ UNCHANGED <<queue, attempts, due, breaker, lifecycle, scheduler, batch, pc, current,
                   register, history, infos, jobsToRemove, jobOf, callback, attended>>

\* GetTask: a job with a registered task is left to that.
LookUp(i) ==
    /\ monitor = "lookup" /\ i \in timeoutJobs
    /\ timeoutJobs' = timeoutJobs \ {i}
    /\ IF tasks[KeyOf[i]] # NoTask
         THEN UNCHANGED <<monitor, handling>>
         ELSE monitor' = "add" /\ handling' = i
    /\ UNCHANGED <<vars, infos, jobsToRemove, jobOf, callback, attended>>

\* Seeded fault: the callbacks of the task have no job.
AddRetryTaskWithoutJob(t) ==
    /\ monitor = "add" /\ t \in NewTask(handling)
    /\ AddTask(t)
    /\ monitor' = "lookup" /\ handling' = NoInfo
    /\ UNCHANGED <<infos, timeoutJobs, jobsToRemove, jobOf, callback, attended>>

AddRetryTask(t) ==
    /\ monitor = "add" /\ t \in NewTask(handling)
    /\ AddTask(t)
    /\ jobOf' = [jobOf EXCEPT ![t] = handling]
    /\ monitor' = "lookup" /\ handling' = NoInfo
    /\ UNCHANGED <<infos, timeoutJobs, jobsToRemove, callback, attended>>

\* Seeded fault: a refusal of AddTask is only logged.
FallbackRetryLogsOnly ==
    /\ monitor = "add" /\ (~isRunning \/ ~CanExecute(breaker))
    /\ monitor' = "lookup" /\ handling' = NoInfo
    /\ UNCHANGED <<vars, infos, timeoutJobs, jobsToRemove, jobOf, callback, attended>>

\* AddTask refuses: fallbackRetry reschedules the job at once, and changes nothing
\* that is looked at, whatever comes of it.
FallbackRetry ==
    /\ monitor = "add" /\ (~isRunning \/ ~CanExecute(breaker))
    /\ attended' = attended \union InfosOf(KeyOf[handling])
    /\ monitor' = "lookup" /\ handling' = NoInfo
    /\ UNCHANGED <<vars, infos, timeoutJobs, jobsToRemove, jobOf, callback>>

EndCheck ==
    /\ monitor = "lookup" /\ timeoutJobs = {}
    /\ heartbeatMap' = [j \in Job |-> IF j \in jobsToRemove THEN NoInfo ELSE heartbeatMap[j]]
    /\ jobsToRemove' = {}
    /\ monitor' = "on"
    /\ UNCHANGED <<vars, made, timedOut, errorCount, timeoutJobs, handling, jobOf,
                   callback, attended>>

MonitorExit ==
    /\ monitor = "on" /\ Ending
    /\ monitor' = "off"
    /\ UNCHANGED <<vars, infos, timeoutJobs, handling, jobsToRemove, jobOf, callback, attended>>

MonitorStep ==
    \/ CheckTimeouts
    \/ \E i \in Info : LookUp(i)
    \/ \E t \in Task : AddRetryTask(t)
    \/ FallbackRetry
    \/ EndCheck

-----------------------------------------------------------------------------
(* The workers of the retry manager, and what they do in the callbacks. *)

\* The Executor is RescheduleJob.
CallExecutor(w) ==
    /\ StoreAttempts(w)
    /\ attended' = attended \union InfosOf(IdOf[current[w]])
    /\ UNCHANGED <<infos, check, jobOf, callback>>

BeginOnSuccess(w) ==
    /\ ExecutorSucceeds(w)
    /\ callback' = [callback EXCEPT ![w] = "write"]
    /\ UNCHANGED <<infos, check, jobOf, attended>>

BeginOnMaxRetries(w) ==
    /\ CallOnMaxRetries(w)
    /\ callback' = [callback EXCEPT ![w] = "unregister"]
    /\ UNCHANGED <<infos, check, jobOf, attended>>

\* ErrorCount and LastHeartbeat are written without hm.mutex: the reset of the
\* former may be lost to the increment of a check that goes on.
WriteJob(w) ==
    /\ callback[w] = "write"
    /\ LET i == jobOf[current[w]]
       IN  /\ \/ errorCount' = [errorCount EXCEPT ![i] = 0]
              \/ ~Unlocked /\ UNCHANGED errorCount
           /\ timedOut' = [timedOut EXCEPT ![i] = FALSE]
           /\ attended' = attended \ {i}
    /\ callback' = [callback EXCEPT ![w] = "readd"]
    /\ UNCHANGED <<vars, heartbeatMap, made, check, jobOf>>

\* Seeded fault: the map is read and written without hm.mutex.
ReaddJobUnlocked(w) ==
    /\ callback[w] = "readd"
    /\ LET i == jobOf[current[w]]
       IN  heartbeatMap' = [heartbeatMap EXCEPT ![KeyOf[i]] = IF @ = NoInfo THEN i ELSE @]
    /\ callback' = [callback EXCEPT ![w] = "unregister"]
    /\ UNCHANGED <<vars, made, timedOut, errorCount, check, jobOf, attended>>

\* The job comes back if it is gone, whoever removed it.
ReaddJob(w) ==
    /\ Unlocked /\ callback[w] = "readd"
    /\ LET i == jobOf[current[w]]
       IN  heartbeatMap' = [heartbeatMap EXCEPT ![KeyOf[i]] = IF @ = NoInfo THEN i ELSE @]
    /\ callback' = [callback EXCEPT ![w] = "unregister"]
    /\ UNCHANGED <<vars, made, timedOut, errorCount, check, jobOf, attended>>

\* The callbacks end with a RemoveTask of their own; the manager's follows.
UnregisterTask(w) ==
    /\ callback[w] = "unregister"
    /\ tasks' = Unregistered(IdOf[current[w]])
    /\ callback' = [callback EXCEPT ![w] = "none"]
    /\ UNCHANGED <<queue, attempts, due, breaker, lifecycle, scheduler, batch, pc,
                   current, register, history, infos, check, jobOf, attended>>

\* The rest is the retry manager's own.
AfterCallback(w) == callback[w] = "none" /\ (ResetBreaker(w) \/ RemoveTask(w))

OwnStep(w) ==
    /\ \/ Take(w)
       \/ LoadAttempts(w)
       \/ ExecutorFails(w)
       \/ ReachMaxRetries(w)
       \/ Backoff(w)
       \/ AfterCallback(w)
    /\ UNCHANGED hbVars

HBWorkerStep(w) ==
    \/ OwnStep(w)
    \/ CallExecutor(w)
    \/ BeginOnSuccess(w)
    \/ BeginOnMaxRetries(w)
    \/ WriteJob(w)
    \/ ReaddJob(w)
    \/ UnregisterTask(w)

ManagerStep ==
    /\ \/ CancelContext
       \/ SchedulerExit
       \/ BreakerTimeout
       \/ SchedulerStep
       \/ \E t \in Task : BackoffElapses(t)
       \/ \E w \in Worker : WorkerExit(w)
    /\ UNCHANGED hbVars

HBNext ==
    \/ StartMonitor
    \/ StopMonitor
    \/ MonitorExit
    \/ MonitorStep
    \/ \E i \in Info, isError \in BOOLEAN : UpdateHeartbeat(i, isError)
    \/ \E i \in Info : TimeOut(i)
    \/ \E j \in Job : RemoveHeartbeat(j)
    \/ \E w \in Worker : HBWorkerStep(w)
    \/ ManagerStep

HBSpec == HBInit /\ [][HBNext]_allVars

(***************************************************************************)
(* As for the retry manager; the ticker of the monitor ticks, and a Go     *)
(* mutex does not starve the callback that waits for it.                   *)
(***************************************************************************)
HBFairness ==
    /\ WF_allVars(MonitorStep)
    /\ WF_allVars(SchedulerStep /\ UNCHANGED hbVars)
    /\ \A w \in Worker : SF_allVars(HBWorkerStep(w))
    /\ \A t \in Task : WF_allVars(BackoffElapses(t) /\ UNCHANGED hbVars)

HBFairSpec == HBSpec /\ HBFairness

-----------------------------------------------------------------------------
(* Properties. *)

\* Somebody has the task in hand, or will have.
Pending(t) ==
    \/ t \in accepted /\ Registered(t)
    \/ \E k \in 1..Len(queue) : queue[k] = t
    \/ t \in batch
    \/ \E w \in Worker : Busy(w) /\ current[w] = t

\* A check forgets the job.
Forgets(j) ==
    monitor = "lookup" /\ monitor' = "on" /\ heartbeatMap[j] # NoInfo /\ heartbeatMap'[j] = NoInfo

\* What checkTimeouts says of jobs with too many errors ("let the retry logic run
\* first"): a job is forgotten only when it was attended to since it was last heard of (a
\* heartbeat, or the write of an OnSuccess), or some task that will reschedule it is under
\* way.
ForgottenWereRetried ==
    [][\A j \in Job : Forgets(j) =>
           heartbeatMap[j] \in attended \/ \E t \in Task : IdOf[t] = j /\ Pending(t)]_allVars

\* A check does not forget a job that was rescheduled with success while the check
\* went on, or if it does, the callback that waits for the mutex brings it back.
SuccessIsNotForgotten ==
    [][\A j \in Job : Forgets(j) =>
           \/ timedOut[heartbeatMap[j]]
           \/ \E w \in Worker : callback[w] = "readd" /\ jobOf[current[w]] = heartbeatMap[j]]_allVars

\* No more tasks to make, and none under way: the bound has been reached.
Exhausted(j) ==
    \A t \in Task : IdOf[t] = j => t \in accepted /\ ~Pending(t)

\* A job that times out is rescheduled, even when it is forgotten, and however the
\* retries of an earlier timeout linger on and unregister the task of the present
\* one, unless it reports again, is removed or the monitor stops.
TimedOutIsRescheduled ==
    \A i \in Info :
        Monitored(i) /\ timedOut[i] ~>
            \/ i \in attended
            \/ ~timedOut[i]
            \/ ~Serving \/ Exhausted(KeyOf[i])

-----------------------------------------------------------------------------
(***************************************************************************)
(* The inductive invariant behind the two properties of what is forgotten. *)
(***************************************************************************)
\* What the check and the tasks hold was made by UpdateHeartbeat.
OnlyMade ==
    /\ timeoutJobs \subseteq made
    /\ handling # NoInfo => handling \in made
    /\ \A t \in accepted : jobOf[t] \in made

\* Where in executeTask a worker is when it has something to do in a callback.
CallbackPlace ==
    \A w \in Worker :
        /\ callback[w] \in {"write", "readd"} => pc[w] = "reset"
        /\ callback[w] = "unregister" => pc[w] \in {"reset", "remove"}

NothingBetweenChecks == Unlocked => timeoutJobs = {} /\ jobsToRemove = {}

\* From the Executor's return to the end of executeTask.
Executed(w) == pc[w] \in {"execute", "check", "reset", "giveUp", "remove"}

\* A job times out only again after its task has left the worker.
ExecutedIsAttended ==
    \A w \in Worker, i \in Info :
        Executed(w) /\ IdOf[current[w]] = KeyOf[i] => i \in attended \/ ~timedOut[i]

Readding(w, i) == callback[w] = "readd" /\ jobOf[current[w]] = i

RemovedIsTimedOut ==
    \A j \in jobsToRemove :
        /\ heartbeatMap[j] # NoInfo
        /\ timedOut[heartbeatMap[j]] \/ \E w \in Worker : Readding(w, heartbeatMap[j])

Carried(j) == tasks[j] # NoTask \/ \E w \in Worker : Busy(w) /\ IdOf[current[w]] = j

RemovedIsHandled ==
    \A j \in jobsToRemove :
        \/ heartbeatMap[j] \in timeoutJobs \union {handling} \union attended
        \/ Carried(j)

HBInv ==
    /\ OnlyMade
    /\ CallbackPlace
    /\ NothingBetweenChecks
    /\ ExecutedIsAttended
    /\ RemovedIsTimedOut
    /\ RemovedIsHandled
=============================================================================
