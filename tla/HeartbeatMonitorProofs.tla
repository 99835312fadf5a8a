----------------------- MODULE HeartbeatMonitorProofs -----------------------
(***************************************************************************)
(* Proofs about HeartbeatMonitor, for every set of jobs, infos, tasks and  *)
(* workers: what a check forgets was attended to, and is not what a retry  *)
(* has just saved.                                                         *)
(***************************************************************************)
EXTENDS HeartbeatMonitor, RetryManagerProofs

(***************************************************************************)
(* The manager's part of a step.                                           *)
(***************************************************************************)

\* All that the monitor does to the manager is one of the manager's own steps, but
\* for the RemoveTask of a callback.
LEMMA StepOfManager ==
    HBNext => [Next]_vars \/ \E w \in Worker : UnregisterTask(w)
<1> SUFFICES ASSUME HBNext PROVE [Next]_vars \/ \E w \in Worker : UnregisterTask(w)
  OBVIOUS
<1>1. ASSUME NEW w \in Worker, HBWorkerStep(w)
      PROVE  [Next]_vars \/ UnregisterTask(w)
  BY <1>1 DEF HBWorkerStep, OwnStep, AfterCallback, CallExecutor, BeginOnSuccess,
              BeginOnMaxRetries, WriteJob, ReaddJob, Next, WorkerStep
<1>2. CASE MonitorStep
  BY <1>2 DEF MonitorStep, CheckTimeouts, LookUp, AddRetryTask, FallbackRetry, EndCheck,
              NewTask, Next
<1>3. CASE ManagerStep
  BY <1>3 DEF ManagerStep, Next
<1>4. CASE StartMonitor \/ StopMonitor \/ MonitorExit
  BY <1>4 DEF StartMonitor, StopMonitor, MonitorExit, Next
<1>5. ASSUME NEW i \in Info, NEW isError \in BOOLEAN, UpdateHeartbeat(i, isError)
      PROVE  [Next]_vars
  BY <1>5 DEF UpdateHeartbeat
<1>6. ASSUME NEW i \in Info, TimeOut(i) PROVE [Next]_vars
  BY <1>6 DEF TimeOut
<1>7. ASSUME NEW j \in Job, RemoveHeartbeat(j) PROVE [Next]_vars
  BY <1>7 DEF RemoveHeartbeat
<1>8. QED
  BY <1>1, <1>2, <1>3, <1>4, <1>5, <1>6, <1>7 DEF HBNext

\* The manager stays well typed, and holds nothing but what it has accepted.
LEMMA ManagerInv ==
    ASSUME TypeOK, OnlyAccepted, [HBNext]_allVars
    PROVE  TypeOK' /\ OnlyAccepted'
<1>1. CASE [Next]_vars
  BY <1>1, TypeStep, OnlyAcceptedStep
<1>2. ASSUME NEW w \in Worker, UnregisterTask(w) PROVE TypeOK' /\ OnlyAccepted'
  <2>1. /\ UNCHANGED <<queue, attempts, due, breaker, lifecycle, scheduler, batch, pc,
                       current, register, history>>
        /\ tasks' = [tasks EXCEPT ![IdOf[current[w]]] = NoTask]
    BY <1>2 DEF UnregisterTask, Unregistered
  <2>2. TypeOK'
    BY <2>1 DEF TypeOK, Busy, lifecycle, history
  <2>3. OnlyAccepted'
    BY <2>1 DEF TypeOK, OnlyAccepted, Busy, lifecycle, history
  <2>4. QED
    BY <2>2, <2>3
<1>3. [Next]_vars \/ \E w \in Worker : UnregisterTask(w)
  BY StepOfManager DEF allVars
<1>4. QED
  BY <1>1, <1>2, <1>3

\* A callback runs in a worker that has a task.
LEMMA CallbackIsBusy ==
    ASSUME TypeOK, CallbackPlace, NEW w \in Worker, callback[w] # "none",
           callback[w] \in Callback
    PROVE  Busy(w) /\ current[w] \in Task
BY DEF TypeOK, CallbackPlace, Busy, Callback

-----------------------------------------------------------------------------
(***************************************************************************)
(* Type correctness, with the parts of the invariant that it needs.        *)
(***************************************************************************)

\* All that is known of a state when its types are to be kept.
Typed == TypeOK /\ OnlyAccepted /\ HBTypeOK /\ OnlyMade /\ CallbackPlace

\* A worker's task has an info, which is of the task's job.
LEMMA JobOfWorker ==
    ASSUME Typed, NEW w \in Worker, Busy(w)
    PROVE  /\ current[w] \in accepted /\ current[w] \in Task
           /\ jobOf[current[w]] \in made /\ made \subseteq Info
           /\ KeyOf[jobOf[current[w]]] = IdOf[current[w]]
           /\ IdOf[current[w]] \in Job
BY HeartbeatAssumption, TaskAssumption
   DEF Typed, TypeOK, OnlyAccepted, HBTypeOK, OnlyMade

\* A new monitor is well typed.
LEMMA InitTyped == HBInit => Typed
<1> SUFFICES ASSUME HBInit PROVE Typed
  OBVIOUS
<1>1. TypeOK /\ OnlyAccepted
  BY InitType, InitInv DEF HBInit, IInv
<1>2. HBTypeOK
  BY HeartbeatAssumption DEF HBInit, Init, HBTypeOK, Callback
<1>3. OnlyMade /\ CallbackPlace
  BY DEF HBInit, Init, OnlyMade, CallbackPlace
<1>4. QED
  BY <1>1, <1>2, <1>3 DEF Typed

\* What a step of the interface or of time does to the monitor's state.
LEMMA OtherStepsTyped ==
    ASSUME Typed,
           \/ StartMonitor
           \/ StopMonitor
           \/ MonitorExit
           \/ ManagerStep
           \/ \E i \in Info : TimeOut(i)
           \/ \E j \in Job : RemoveHeartbeat(j)
    PROVE  HBTypeOK' /\ OnlyMade' /\ CallbackPlace'
<1> USE DEF Typed, HBTypeOK, OnlyMade, CallbackPlace, infos, check, hbVars
<1>1. CASE StartMonitor
  <2>1. \A w \in Worker : callback[w] = "none"
    BY <1>1 DEF StartMonitor, Start, Callback
  <2>2. QED
    BY <1>1, <2>1 DEF StartMonitor, Start, Unlocked, history
<1>2. CASE StopMonitor
  BY <1>2 DEF StopMonitor, Stop, history
<1>3. CASE MonitorExit
  BY <1>3 DEF MonitorExit, vars, history
<1>4. CASE ManagerStep
  <2>1. accepted' = accepted /\ UNCHANGED hbVars
    BY <1>4 DEF ManagerStep, CancelContext, SchedulerExit, BreakerTimeout, SchedulerStep,
                SchedulerScan, SchedulerSend, BackoffElapses, WorkerExit, history
  <2>2. \A w \in Worker : callback[w] # "none" => pc'[w] = pc[w]
    BY <1>4 DEF ManagerStep, CancelContext, SchedulerExit, BreakerTimeout, SchedulerStep,
                SchedulerScan, SchedulerSend, BackoffElapses, WorkerExit, TypeOK, Callback
  <2>3. QED
    BY <2>1, <2>2
<1>5. ASSUME NEW i \in Info, TimeOut(i) PROVE HBTypeOK' /\ OnlyMade' /\ CallbackPlace'
  BY <1>5 DEF TimeOut, vars, history
<1>6. ASSUME NEW j \in Job, RemoveHeartbeat(j)
      PROVE  HBTypeOK' /\ OnlyMade' /\ CallbackPlace'
  BY <1>6 DEF RemoveHeartbeat, vars, history
<1>7. QED
  BY <1>1, <1>2, <1>3, <1>4, <1>5, <1>6

\* A heartbeat, from a job that is monitored or not yet.
LEMMA UpdateTyped ==
    ASSUME Typed, NEW i \in Info, NEW isError \in BOOLEAN, UpdateHeartbeat(i, isError)
    PROVE  HBTypeOK' /\ OnlyMade' /\ CallbackPlace'
<1>1. UNCHANGED <<accepted, pc, monitor, timeoutJobs, handling, jobsToRemove, jobOf,
                  callback>>
  BY DEF UpdateHeartbeat, vars, check, history
<1>2. /\ heartbeatMap' \in [Job -> Info \union {NoInfo}]
      /\ made' \in SUBSET Info /\ made \subseteq made'
      /\ \A j \in Job : heartbeatMap'[j] # NoInfo =>
             heartbeatMap'[j] \in made' /\ KeyOf[heartbeatMap'[j]] = j
  BY HeartbeatAssumption DEF Typed, HBTypeOK, UpdateHeartbeat
<1>3. errorCount' \in [Info -> 0..(MaxErrors + 1)]
  <2>1. errorCount[i] \in 0..(MaxErrors + 1)
    BY DEF Typed, HBTypeOK
  <2>2. OneMore(errorCount[i]) \in 0..(MaxErrors + 1)
    BY <2>1, HeartbeatAssumption DEF OneMore
  <2>3. QED
    BY <2>2 DEF Typed, HBTypeOK, UpdateHeartbeat
<1>4. timedOut' \in [Info -> BOOLEAN] /\ attended' \in SUBSET Info
  BY DEF Typed, HBTypeOK, UpdateHeartbeat
<1>5. HBTypeOK'
  BY <1>1, <1>2, <1>3, <1>4 DEF Typed, HBTypeOK
<1>6. QED
  BY <1>1, <1>2, <1>5 DEF Typed, OnlyMade, CallbackPlace

\* A step of a check.
LEMMA MonitorTyped ==
    ASSUME Typed, MonitorStep
    PROVE  HBTypeOK' /\ OnlyMade' /\ CallbackPlace'
<1> USE DEF Typed, HBTypeOK, OnlyMade, CallbackPlace, infos, check
<1>1. CASE CheckTimeouts
  <2>1. errorCount' \in [Info -> 0..(MaxErrors + 1)]
    <3>1. ASSUME NEW i \in Info
          PROVE  errorCount[i] \in 0..(MaxErrors + 1)
                 /\ OneMore(errorCount[i]) \in 0..(MaxErrors + 1)
      <4>1. errorCount[i] \in 0..(MaxErrors + 1)
        OBVIOUS
      <4>2. QED
        BY <4>1, HeartbeatAssumption DEF OneMore
    <3>2. QED
      BY <1>1, <3>1 DEF CheckTimeouts
  <2>2. TimedOutJobs \subseteq Info /\ TimedOutJobs \subseteq made
    BY HeartbeatAssumption DEF TimedOutJobs, Monitored
  <2>3. jobsToRemove' \in SUBSET Job
    BY <1>1, <2>2, HeartbeatAssumption DEF CheckTimeouts
  <2>4. QED
    BY <1>1, <2>1, <2>2, <2>3 DEF CheckTimeouts, vars, history
<1>2. ASSUME NEW i \in Info, LookUp(i) PROVE HBTypeOK' /\ OnlyMade' /\ CallbackPlace'
  BY <1>2, HeartbeatAssumption DEF LookUp, vars, history
<1>3. ASSUME NEW t \in Task, AddRetryTask(t)
      PROVE  HBTypeOK' /\ OnlyMade' /\ CallbackPlace'
  <2>1. /\ accepted' = accepted \union {t} /\ pc' = pc /\ t \notin accepted
        /\ IdOf[t] = KeyOf[handling] /\ handling \in Info
        /\ jobOf' = [jobOf EXCEPT ![t] = handling]
    BY <1>3 DEF AddRetryTask, AddTask, NewTask
  <2>2. QED
    BY <1>3, <2>1 DEF AddRetryTask
<1>4. CASE FallbackRetry
  BY <1>4 DEF FallbackRetry, InfosOf, vars, history
<1>5. CASE EndCheck
  BY <1>5 DEF EndCheck, vars, history
<1>6. QED
  BY <1>1, <1>2, <1>3, <1>4, <1>5 DEF MonitorStep

\* A step of a worker, in a callback or outside of one.
LEMMA WorkerTyped ==
    ASSUME Typed, NEW w \in Worker, HBWorkerStep(w)
    PROVE  HBTypeOK' /\ OnlyMade' /\ CallbackPlace'
<1> USE DEF Typed, HBTypeOK, OnlyMade, CallbackPlace, infos, check, hbVars
<1>1. CASE OwnStep(w)
  <2>1. accepted' = accepted /\ \A v \in Worker \ {w} : pc'[v] = pc[v]
    BY <1>1 DEF OwnStep, AfterCallback, Take, LoadAttempts, ExecutorFails, ReachMaxRetries,
                Backoff, ResetBreaker, RemoveTask, history, TypeOK
  <2>2. callback[w] = "none"
    BY <1>1 DEF OwnStep, AfterCallback, Take, LoadAttempts, ExecutorFails,
                ReachMaxRetries, Backoff, Callback
  <2>3. UNCHANGED hbVars
    BY <1>1 DEF OwnStep
  <2>4. QED
    BY <2>1, <2>2, <2>3
<1>2. CASE CallExecutor(w)
  <2>1. callback[w] = "none"
    BY <1>2 DEF CallExecutor, StoreAttempts, Callback
  <2>2. QED
    BY <1>2, <2>1 DEF CallExecutor, StoreAttempts, InfosOf, TypeOK
<1>3. CASE BeginOnSuccess(w)
  BY <1>3 DEF BeginOnSuccess, ExecutorSucceeds, Callback, TypeOK
<1>4. CASE BeginOnMaxRetries(w)
  BY <1>4 DEF BeginOnMaxRetries, CallOnMaxRetries, Callback, TypeOK
<1>5. CASE WriteJob(w)
  <2>1. Busy(w)
    BY <1>5 DEF WriteJob, Busy
  <2>2. 0 \in 0..(MaxErrors + 1)
    BY HeartbeatAssumption
  <2>3. errorCount' \in [Info -> 0..(MaxErrors + 1)]
    BY <1>5, <2>1, <2>2, JobOfWorker DEF WriteJob
  <2>4. QED
    BY <1>5, <2>1, <2>3, JobOfWorker DEF WriteJob, Callback, vars, history
<1>6. CASE ReaddJob(w)
  <2>1. Busy(w)
    BY <1>6 DEF ReaddJob, Busy
  <2>2. QED
    BY <1>6, <2>1, JobOfWorker DEF ReaddJob, Callback, vars, history
<1>7. CASE UnregisterTask(w)
  BY <1>7 DEF UnregisterTask, Callback, history
<1>8. QED
  BY <1>1, <1>2, <1>3, <1>4, <1>5, <1>6, <1>7 DEF HBWorkerStep

\* Every step keeps the types.
LEMMA TypedStep == Typed /\ [HBNext]_allVars => Typed'
<1> SUFFICES ASSUME Typed, [HBNext]_allVars PROVE Typed'
  OBVIOUS
<1>1. TypeOK' /\ OnlyAccepted'
  BY ManagerInv DEF Typed
<1>2. HBTypeOK' /\ OnlyMade' /\ CallbackPlace'
  <2>1. CASE HBNext
    BY <2>1, OtherStepsTyped, UpdateTyped, MonitorTyped, WorkerTyped DEF HBNext
  <2>2. CASE UNCHANGED allVars
    BY <2>2 DEF allVars, vars, hbVars, infos, check, history, Typed, HBTypeOK, OnlyMade,
                CallbackPlace
  <2>3. QED
    BY <2>1, <2>2
<1>3. QED
  BY <1>1, <1>2 DEF Typed

\* Every reachable state is well typed: the map's entries are those of their jobs,
\* a check handles one at a time, and a task knows the job it retries.
THEOREM HBTypeCorrect == HBSpec => []HBTypeOK
<1>1. Typed => HBTypeOK
  BY DEF Typed
<1>2. QED
  BY <1>1, InitTyped, TypedStep, PTL DEF HBSpec

-----------------------------------------------------------------------------
(***************************************************************************)
(* The rest of the invariant, one part at a time.                          *)
(***************************************************************************)

\* Only a check fills the two sets, and it ends when it has emptied them.
LEMMA NothingBetweenChecksStep ==
    ASSUME Typed, NothingBetweenChecks, [HBNext]_allVars
    PROVE  NothingBetweenChecks'
<1>1. CASE MonitorStep
  BY <1>1 DEF MonitorStep, CheckTimeouts, LookUp, AddRetryTask, FallbackRetry, EndCheck,
              Unlocked, NothingBetweenChecks
<1>2. CASE StartMonitor \/ MonitorExit
  BY <1>2 DEF StartMonitor, MonitorExit, Unlocked, NothingBetweenChecks
<1>3. CASE UNCHANGED <<monitor, timeoutJobs, jobsToRemove>>
  BY <1>3 DEF Unlocked, NothingBetweenChecks
<1>4. ASSUME NEW w \in Worker, HBWorkerStep(w)
      PROVE  UNCHANGED <<monitor, timeoutJobs, jobsToRemove>>
  BY <1>4 DEF HBWorkerStep, OwnStep, CallExecutor, BeginOnSuccess, BeginOnMaxRetries,
              WriteJob, ReaddJob, UnregisterTask, hbVars, check
<1>5. QED
  BY <1>1, <1>2, <1>3, <1>4
     DEF HBNext, StopMonitor, UpdateHeartbeat, TimeOut, RemoveHeartbeat, ManagerStep,
         allVars, hbVars, check

\* Where a worker has its task after the Executor's return, it had it before, unless
\* the step is the call of the Executor; and it has kept its task.
LEMMA ExecutedBefore ==
    ASSUME Typed, [HBNext]_allVars, NEW w \in Worker, Executed(w)'
    PROVE  /\ current'[w] = current[w]
           /\ Executed(w) \/ CallExecutor(w)
<1>1. ASSUME NEW v \in Worker, HBWorkerStep(v)
      PROVE  /\ current'[w] = current[w]
             /\ Executed(w) \/ CallExecutor(w)
  <2>1. CASE v # w
    <3>1. current'[w] = current[w] /\ pc'[w] = pc[w]
      BY <1>1, <2>1
         DEF HBWorkerStep, OwnStep, AfterCallback, CallExecutor, BeginOnSuccess,
             BeginOnMaxRetries, WriteJob, ReaddJob, UnregisterTask, Take, LoadAttempts,
             StoreAttempts, ExecutorSucceeds, ExecutorFails, ResetBreaker,
             ReachMaxRetries, Backoff, CallOnMaxRetries, RemoveTask, vars, Typed, TypeOK
    <3>2. QED
      BY <3>1 DEF Executed
  <2>2. CASE v = w
    BY <1>1, <2>2
       DEF HBWorkerStep, OwnStep, AfterCallback, CallExecutor, BeginOnSuccess,
           BeginOnMaxRetries, WriteJob, ReaddJob, UnregisterTask, Take, LoadAttempts,
           StoreAttempts, ExecutorSucceeds, ExecutorFails, ResetBreaker, ReachMaxRetries,
           Backoff, CallOnMaxRetries, RemoveTask, vars, Typed, TypeOK, Executed
  <2>3. QED
    BY <2>1, <2>2
<1>2. CASE MonitorStep
  BY <1>2 DEF MonitorStep, CheckTimeouts, LookUp, AddRetryTask, AddTask, FallbackRetry,
              EndCheck, vars, Executed
<1>3. CASE ManagerStep
  BY <1>3 DEF ManagerStep, CancelContext, SchedulerExit, BreakerTimeout, SchedulerStep,
              SchedulerScan, SchedulerSend, BackoffElapses, WorkerExit, Executed, Typed,
              TypeOK
<1>4. CASE StartMonitor
  BY <1>4 DEF StartMonitor, Start, Executed
<1>5. CASE StopMonitor \/ MonitorExit \/ UNCHANGED allVars
  BY <1>5 DEF StopMonitor, Stop, MonitorExit, allVars, vars, Executed
<1>6. ASSUME \/ \E i \in Info, isError \in BOOLEAN : UpdateHeartbeat(i, isError)
             \/ \E i \in Info : TimeOut(i)
             \/ \E j \in Job : RemoveHeartbeat(j)
      PROVE  current' = current /\ pc' = pc
  BY <1>6 DEF UpdateHeartbeat, TimeOut, RemoveHeartbeat, vars
<1>7. QED
  BY <1>1, <1>2, <1>3, <1>4, <1>5, <1>6 DEF HBNext, Executed

\* Only time makes an info time out.
LEMMA TimedOutBefore ==
    ASSUME Typed, [HBNext]_allVars, NEW i \in Info, timedOut'[i]
    PROVE  timedOut[i] \/ TimeOut(i)
<1> USE DEF Typed, HBTypeOK
<1>1. CASE MonitorStep \/ ManagerStep \/ StartMonitor \/ StopMonitor \/ MonitorExit
           \/ UNCHANGED allVars
  BY <1>1 DEF MonitorStep, CheckTimeouts, LookUp, AddRetryTask, FallbackRetry, EndCheck,
              ManagerStep, StartMonitor, StopMonitor, MonitorExit, allVars, hbVars, infos
<1>2. ASSUME NEW w \in Worker, HBWorkerStep(w) PROVE timedOut[i]
  BY <1>2 DEF HBWorkerStep, OwnStep, CallExecutor, BeginOnSuccess, BeginOnMaxRetries,
              WriteJob, ReaddJob, UnregisterTask, hbVars, infos
<1>3. ASSUME \/ \E k \in Info, isError \in BOOLEAN : UpdateHeartbeat(k, isError)
             \/ \E k \in Info \ {i} : TimeOut(k)
             \/ \E j \in Job : RemoveHeartbeat(j)
      PROVE  timedOut[i]
  BY <1>3 DEF UpdateHeartbeat, TimeOut, RemoveHeartbeat
<1>4. QED
  BY <1>1, <1>2, <1>3 DEF HBNext

\* An info is no longer among those attended to when it has reported, or was written
\* as if it had, and then it is not timed out.
LEMMA AttendedStays ==
    ASSUME Typed, [HBNext]_allVars, NEW i \in attended
    PROVE  \/ i \in attended'
           \/ ~timedOut'[i] /\ (Unlocked \/ \E w \in Worker :
                                   WriteJob(w) /\ jobOf[current[w]] = i)
<1> USE DEF Typed, HBTypeOK
<1>1. CASE MonitorStep \/ ManagerStep \/ StartMonitor \/ StopMonitor \/ MonitorExit
           \/ UNCHANGED allVars
  BY <1>1 DEF MonitorStep, CheckTimeouts, LookUp, AddRetryTask, FallbackRetry, EndCheck,
              ManagerStep, StartMonitor, StopMonitor, MonitorExit, allVars, hbVars
<1>2. ASSUME NEW w \in Worker, HBWorkerStep(w)
      PROVE  i \in attended' \/ (~timedOut'[i] /\ WriteJob(w) /\ jobOf[current[w]] = i)
  BY <1>2 DEF HBWorkerStep, OwnStep, CallExecutor, BeginOnSuccess, BeginOnMaxRetries,
              WriteJob, ReaddJob, UnregisterTask, hbVars
<1>3. ASSUME \/ \E k \in Info, isError \in BOOLEAN : UpdateHeartbeat(k, isError)
             \/ \E k \in Info : TimeOut(k)
             \/ \E j \in Job : RemoveHeartbeat(j)
      PROVE  i \in attended' \/ (Unlocked /\ ~timedOut'[i])
  BY <1>3 DEF UpdateHeartbeat, TimeOut, RemoveHeartbeat
<1>4. QED
  BY <1>1, <1>2, <1>3 DEF HBNext

\* A job whose task a worker has run is attended to until it reports again: it does
\* not time out while the worker is at it.
LEMMA ExecutedIsAttendedStep ==
    ASSUME Typed, ExecutedIsAttended, [HBNext]_allVars
    PROVE  ExecutedIsAttended'
<1> SUFFICES ASSUME NEW w \in Worker, NEW i \in Info, Executed(w)',
                    IdOf[current'[w]] = KeyOf[i], timedOut'[i]
             PROVE  i \in attended'
  BY DEF ExecutedIsAttended, Executed
<1>1. IdOf[current[w]] = KeyOf[i] /\ (Executed(w) \/ CallExecutor(w))
  BY ExecutedBefore
<1>2. CASE CallExecutor(w)
  BY <1>1, <1>2 DEF CallExecutor, InfosOf
<1>3. CASE Executed(w)
  <2>1. Busy(w)
    BY <1>3 DEF Executed, Busy
  <2>2. timedOut[i]
    BY <1>1, <2>1, TimedOutBefore DEF TimeOut
  <2>3. i \in attended
    BY <1>1, <1>3, <2>2 DEF ExecutedIsAttended
  <2>4. QED
    BY <2>3, AttendedStays
<1>4. QED
  BY <1>1, <1>2, <1>3

\* While a job is to be forgotten, the check holds the mutex that guards the map.
LEMMA RemovalGoesOn ==
    ASSUME Typed, NothingBetweenChecks, [HBNext]_allVars, NEW j \in jobsToRemove'
    PROVE  CheckTimeouts \/ (j \in jobsToRemove /\ ~Unlocked /\ UNCHANGED heartbeatMap)
<1>1. CASE MonitorStep
  BY <1>1 DEF MonitorStep, LookUp, AddRetryTask, FallbackRetry, EndCheck, infos,
              NothingBetweenChecks
<1>2. ASSUME NEW w \in Worker, HBWorkerStep(w)
      PROVE  j \in jobsToRemove /\ ~Unlocked /\ UNCHANGED heartbeatMap
  BY <1>2 DEF HBWorkerStep, OwnStep, CallExecutor, BeginOnSuccess, BeginOnMaxRetries,
              WriteJob, ReaddJob, UnregisterTask, hbVars, check, infos,
              NothingBetweenChecks
<1>3. CASE ~MonitorStep /\ ~\E w \in Worker : HBWorkerStep(w)
  BY <1>3 DEF HBNext, StartMonitor, StopMonitor, MonitorExit, UpdateHeartbeat, TimeOut,
              RemoveHeartbeat, ManagerStep, allVars, hbVars, check, infos,
              NothingBetweenChecks, Unlocked
<1>4. QED
  BY <1>1, <1>2, <1>3

\* A worker keeps its task until it backs off from it or has removed it.
LEMMA BusyStays ==
    ASSUME Typed, [HBNext]_allVars, NEW w \in Worker, Busy(w)
    PROVE  \/ Busy(w)' /\ current'[w] = current[w]
           \/ callback[w] = "none" /\ Executed(w) /\ UNCHANGED hbVars
              /\ \A v \in Worker \ {w} : UNCHANGED <<pc[v], current[v]>>
<1> USE DEF Typed, TypeOK, Busy
<1>1. ASSUME NEW v \in Worker, HBWorkerStep(v), v # w
      PROVE  Busy(w)' /\ current'[w] = current[w]
  BY <1>1 DEF HBWorkerStep, OwnStep, AfterCallback, CallExecutor, BeginOnSuccess,
              BeginOnMaxRetries, WriteJob, ReaddJob, UnregisterTask, Take, LoadAttempts,
              StoreAttempts, ExecutorSucceeds, ExecutorFails, ResetBreaker,
              ReachMaxRetries, Backoff, CallOnMaxRetries, RemoveTask, vars
<1>2. CASE OwnStep(w)
  <2>1. CASE Backoff(w)
    <3>1. callback[w] = "none"
      BY <2>1 DEF Backoff, HBTypeOK, CallbackPlace, Callback
    <3>2. QED
      BY <1>2, <2>1, <3>1 DEF Backoff, OwnStep, hbVars, infos, Executed
  <2>2. CASE AfterCallback(w) /\ RemoveTask(w)
    BY <1>2, <2>2 DEF RemoveTask, AfterCallback, OwnStep, hbVars, infos, Executed
  <2>3. QED
    BY <1>2, <2>1, <2>2 DEF OwnStep, AfterCallback, Take, LoadAttempts, ExecutorFails,
                            ReachMaxRetries, ResetBreaker
<1>3. ASSUME HBWorkerStep(w), ~OwnStep(w) PROVE Busy(w)' /\ current'[w] = current[w]
  BY <1>3 DEF HBWorkerStep, CallExecutor, BeginOnSuccess, BeginOnMaxRetries, WriteJob,
              ReaddJob, UnregisterTask, StoreAttempts, ExecutorSucceeds,
              CallOnMaxRetries, vars
<1>4. CASE MonitorStep
  BY <1>4 DEF MonitorStep, CheckTimeouts, LookUp, AddRetryTask, AddTask, FallbackRetry,
              EndCheck, vars
<1>5. CASE ManagerStep
  BY <1>5 DEF ManagerStep, CancelContext, SchedulerExit, BreakerTimeout, SchedulerStep,
              SchedulerScan, SchedulerSend, BackoffElapses, WorkerExit
<1>6. ASSUME \/ \E i \in Info, isError \in BOOLEAN : UpdateHeartbeat(i, isError)
             \/ \E i \in Info : TimeOut(i)
             \/ \E j \in Job : RemoveHeartbeat(j)
             \/ UNCHANGED allVars
      PROVE  current' = current /\ pc' = pc
  BY <1>6 DEF UpdateHeartbeat, TimeOut, RemoveHeartbeat, vars, allVars
<1>7. CASE StartMonitor \/ StopMonitor \/ MonitorExit
  BY <1>7 DEF StartMonitor, Start, StopMonitor, Stop, MonitorExit, vars
<1>8. QED
  BY <1>1, <1>2, <1>3, <1>4, <1>5, <1>6, <1>7 DEF HBNext

\* A callback that waits for the mutex waits while the check holds it.
LEMMA ReaddingStays ==
    ASSUME Typed, ~Unlocked, [HBNext]_allVars, NEW w \in Worker, NEW i \in Info,
           Readding(w, i)
    PROVE  Readding(w, i)'
<1>1. Busy(w) /\ callback[w] = "readd" /\ pc[w] = "reset"
  BY DEF Readding, Typed, CallbackPlace, Busy
<1>2. current'[w] = current[w]
  BY <1>1, BusyStays
<1>3. callback'[w] = "readd"
  <2>1. ASSUME NEW v \in Worker, HBWorkerStep(v) PROVE callback'[w] = "readd"
    BY <1>1, <2>1 DEF HBWorkerStep, OwnStep, CallExecutor, BeginOnSuccess,
                      BeginOnMaxRetries, ExecutorSucceeds, CallOnMaxRetries, WriteJob,
                      ReaddJob, UnregisterTask, hbVars, Typed, HBTypeOK
  <2>2. QED
    BY <1>1, <2>1 DEF HBNext, StartMonitor, StopMonitor, MonitorExit, MonitorStep,
                      CheckTimeouts, LookUp, AddRetryTask, FallbackRetry, EndCheck,
                      UpdateHeartbeat, TimeOut, RemoveHeartbeat, ManagerStep, allVars,
                      hbVars
<1>4. jobOf'[current[w]] = jobOf[current[w]]
  <2>1. current[w] \in accepted
    BY <1>1, JobOfWorker
  <2>2. ASSUME NEW t \in Task, AddRetryTask(t) PROVE jobOf'[current[w]] = jobOf[current[w]]
    BY <2>1, <2>2 DEF AddRetryTask, NewTask, Typed, HBTypeOK
  <2>3. ASSUME NEW v \in Worker, HBWorkerStep(v) PROVE jobOf' = jobOf
    BY <2>3 DEF HBWorkerStep, OwnStep, CallExecutor, BeginOnSuccess, BeginOnMaxRetries,
                WriteJob, ReaddJob, UnregisterTask, hbVars
  <2>4. QED
    BY <2>2, <2>3 DEF HBNext, StartMonitor, StopMonitor, MonitorExit, MonitorStep,
                      CheckTimeouts, LookUp, FallbackRetry, EndCheck, UpdateHeartbeat,
                      TimeOut, RemoveHeartbeat, ManagerStep, allVars, hbVars
<1>5. QED
  BY <1>2, <1>3, <1>4 DEF Readding

\* While a check goes on, only the callback of a retry's success can clear a timeout,
\* and then waits for the mutex.
LEMMA TimedOutStays ==
    ASSUME Typed, ~Unlocked, [HBNext]_allVars, NEW i \in Info, timedOut[i]
    PROVE  timedOut'[i] \/ \E w \in Worker : Readding(w, i)'
<1>1. ASSUME NEW w \in Worker, WriteJob(w), jobOf[current[w]] = i PROVE Readding(w, i)'
  BY <1>1 DEF WriteJob, Readding, vars, Typed, HBTypeOK
<1>2. ASSUME NEW w \in Worker, HBWorkerStep(w), ~(WriteJob(w) /\ jobOf[current[w]] = i)
      PROVE  timedOut'[i]
  BY <1>2 DEF HBWorkerStep, OwnStep, CallExecutor, BeginOnSuccess, BeginOnMaxRetries,
              WriteJob, ReaddJob, UnregisterTask, hbVars, infos, Typed, HBTypeOK
<1>3. QED
  BY <1>1, <1>2 DEF HBNext, StartMonitor, StopMonitor, MonitorExit, MonitorStep,
                    CheckTimeouts, LookUp, AddRetryTask, FallbackRetry, EndCheck,
                    UpdateHeartbeat, TimeOut, RemoveHeartbeat, ManagerStep, allVars,
                    hbVars, infos, Typed, HBTypeOK

\* A job to be forgotten is in the map, and timed out or about to be put back.
LEMMA RemovedIsTimedOutStep ==
    ASSUME Typed, NothingBetweenChecks, RemovedIsTimedOut, [HBNext]_allVars
    PROVE  RemovedIsTimedOut'
<1> SUFFICES ASSUME NEW j \in jobsToRemove'
             PROVE  \E i \in Info : /\ heartbeatMap'[j] = i
                                    /\ timedOut'[i] \/ \E w \in Worker : Readding(w, i)'
  BY HeartbeatAssumption DEF RemovedIsTimedOut, Readding
<1>1. CASE CheckTimeouts
  BY <1>1, HeartbeatAssumption DEF CheckTimeouts, TimedOutJobs, Monitored
<1>2. CASE ~CheckTimeouts
  <2>1. j \in jobsToRemove /\ ~Unlocked /\ UNCHANGED heartbeatMap
    BY <1>2, RemovalGoesOn
  <2>2. PICK i \in Info : heartbeatMap[j] = i
    BY <2>1 DEF RemovedIsTimedOut, Typed, HBTypeOK
  <2>3. timedOut[i] \/ \E w \in Worker : Readding(w, i)
    BY <2>1, <2>2 DEF RemovedIsTimedOut
  <2>4. timedOut'[i] \/ \E w \in Worker : Readding(w, i)'
    BY <2>1, <2>3, TimedOutStays, ReaddingStays
  <2>5. QED
    BY <2>1, <2>2, <2>4
<1>3. QED
  BY <1>1, <1>2

\* A task that carries a job goes from the map to a worker's hands, and leaves these
\* only with the job attended to.
LEMMA CarriedStays ==
    ASSUME Typed, ExecutedIsAttended, RemovedIsTimedOut, ~Unlocked, [HBNext]_allVars,
           NEW j \in jobsToRemove, NEW i \in Info, heartbeatMap[j] = i, Carried(j)
    PROVE  Carried(j)' \/ i \in attended'
<1>1. KeyOf[i] = j /\ j \in Job /\ i # NoInfo
  BY HeartbeatAssumption DEF Typed, HBTypeOK
<1>2. ASSUME NEW w \in Worker, Busy(w), IdOf[current[w]] = j
      PROVE  Carried(j)' \/ i \in attended'
  <2>1. CASE Busy(w)' /\ current'[w] = current[w]
    BY <1>2, <2>1 DEF Carried
  <2>2. CASE /\ callback[w] = "none" /\ Executed(w) /\ UNCHANGED hbVars
             /\ \A v \in Worker \ {w} : UNCHANGED <<pc[v], current[v]>>
    <3>1. CASE i \in attended
      BY <2>2, <3>1 DEF hbVars
    <3>2. CASE i \notin attended
      <4>1. ~timedOut[i]
        BY <1>1, <1>2, <2>2, <3>2 DEF ExecutedIsAttended
      <4>2. PICK v \in Worker : Readding(v, i)
        BY <4>1 DEF RemovedIsTimedOut
      <4>3. Busy(v) /\ v # w
        BY <2>2, <4>2 DEF Readding, Typed, CallbackPlace, Busy
      <4>4. IdOf[current[v]] = j
        BY <1>1, <4>2, <4>3, JobOfWorker DEF Readding
      <4>5. Busy(v)' /\ current'[v] = current[v]
        BY <2>2, <4>3 DEF Busy
      <4>6. QED
        BY <4>4, <4>5 DEF Carried
    <3>3. QED
      BY <3>1, <3>2
  <2>3. QED
    BY <1>2, <2>1, <2>2, BusyStays
<1>3. CASE tasks[j] # NoTask
  <2>1. ASSUME NEW w \in Worker, HBWorkerStep(w), tasks'[j] = NoTask
        PROVE  Busy(w) /\ IdOf[current[w]] = j
    BY <1>1, <1>3, <2>1, HeartbeatAssumption
       DEF HBWorkerStep, OwnStep, AfterCallback, CallExecutor, BeginOnSuccess,
           BeginOnMaxRetries, WriteJob, ReaddJob, UnregisterTask, Take, LoadAttempts,
           StoreAttempts, ExecutorSucceeds, ExecutorFails, ResetBreaker, ReachMaxRetries,
           Backoff, CallOnMaxRetries, RemoveTask, Unregistered, vars, Typed, TypeOK, Busy,
           HBTypeOK, CallbackPlace
  <2>2. ASSUME NEW t \in Task, AddRetryTask(t) PROVE tasks'[j] # NoTask
    BY <1>3, <2>2, TaskAssumption DEF AddRetryTask, AddTask, Typed, TypeOK
  <2>3. ASSUME ~\E w \in Worker : HBWorkerStep(w), ~\E t \in Task : AddRetryTask(t)
        PROVE  tasks'[j] # NoTask
    BY <1>3, <2>3
       DEF HBNext, StartMonitor, Start, StopMonitor, Stop, MonitorExit, MonitorStep,
           CheckTimeouts, LookUp, FallbackRetry, EndCheck, UpdateHeartbeat, TimeOut,
           RemoveHeartbeat, ManagerStep, CancelContext, SchedulerExit, BreakerTimeout,
           SchedulerStep, SchedulerScan, SchedulerSend, BackoffElapses, WorkerExit,
           allVars, vars
  <2>4. tasks'[j] # NoTask => Carried(j)'
    BY DEF Carried
  <2>5. tasks'[j] # NoTask \/ \E w \in Worker : Busy(w) /\ IdOf[current[w]] = j
    BY <2>1, <2>2, <2>3
  <2>6. QED
    BY <1>2, <2>4, <2>5
<1>4. QED
  BY <1>2, <1>3 DEF Carried

\* Until the check ends, a job to be forgotten has still to be handled, was attended
\* to, or has a task that carries it.
LEMMA RemovedIsHandledStep ==
    ASSUME Typed, NothingBetweenChecks, ExecutedIsAttended, RemovedIsTimedOut,
           RemovedIsHandled, [HBNext]_allVars
    PROVE  RemovedIsHandled'
<1> SUFFICES ASSUME NEW j \in jobsToRemove'
             PROVE  \/ heartbeatMap'[j] \in timeoutJobs' \union {handling'} \union attended'
                    \/ Carried(j)'
  BY DEF RemovedIsHandled, Carried
<1>1. CASE CheckTimeouts
  BY <1>1, HeartbeatAssumption DEF CheckTimeouts, TimedOutJobs, Monitored
<1>2. CASE ~CheckTimeouts
  <2>1. j \in jobsToRemove /\ ~Unlocked /\ UNCHANGED heartbeatMap
    BY <1>2, RemovalGoesOn
  <2>2. PICK i \in Info : heartbeatMap[j] = i
    BY <2>1 DEF RemovedIsTimedOut, Typed, HBTypeOK
  <2>3. KeyOf[i] = j /\ i # NoInfo
    BY <2>1, <2>2, HeartbeatAssumption DEF Typed, HBTypeOK
  <2> SUFFICES i \in timeoutJobs' \/ i = handling' \/ i \in attended' \/ Carried(j)'
    BY <2>1, <2>2
  <2>4. CASE Carried(j)
    BY <2>1, <2>2, <2>4, CarriedStays
  <2>5. CASE i \in attended
    <3>1. ASSUME NEW w \in Worker, WriteJob(w), jobOf[current[w]] = i PROVE Carried(j)'
      <4>1. Busy(w)
        BY <3>1 DEF WriteJob, Busy, Typed, CallbackPlace
      <4>2. IdOf[current[w]] = j
        BY <2>3, <3>1, <4>1, JobOfWorker
      <4>3. QED
        BY <3>1, <4>1, <4>2 DEF WriteJob, vars, Carried, Busy
    <3>2. QED
      BY <2>1, <2>5, <3>1, AttendedStays
  <2>6. CASE i \in timeoutJobs
    <3>1. ASSUME LookUp(i), tasks[j] # NoTask PROVE Carried(j)'
      BY <3>1 DEF LookUp, vars, Carried
    <3>2. CASE MonitorStep
      BY <2>1, <2>3, <2>6, <3>1, <3>2, <1>2 DEF MonitorStep, LookUp, AddRetryTask,
         FallbackRetry, EndCheck
    <3>3. ASSUME NEW w \in Worker, HBWorkerStep(w) PROVE UNCHANGED timeoutJobs
      BY <3>3 DEF HBWorkerStep, OwnStep, CallExecutor, BeginOnSuccess, BeginOnMaxRetries,
                  WriteJob, ReaddJob, UnregisterTask, hbVars, check
    <3>4. QED
      BY <2>6, <3>2, <3>3 DEF HBNext, StartMonitor, StopMonitor, MonitorExit,
         UpdateHeartbeat, TimeOut, RemoveHeartbeat, ManagerStep, allVars, hbVars, check
  <2>7. CASE i = handling
    <3>1. ASSUME NEW t \in Task, AddRetryTask(t) PROVE tasks'[j] # NoTask
      BY <2>1, <2>3, <2>7, <3>1, TaskAssumption, HeartbeatAssumption
         DEF AddRetryTask, AddTask, NewTask, Typed, TypeOK, HBTypeOK
    <3>2. CASE MonitorStep
      BY <2>3, <2>7, <3>1, <3>2, <1>2 DEF MonitorStep, LookUp, FallbackRetry, EndCheck,
         Typed, HBTypeOK, InfosOf, Carried
    <3>3. ASSUME NEW w \in Worker, HBWorkerStep(w) PROVE UNCHANGED handling
      BY <3>3 DEF HBWorkerStep, OwnStep, CallExecutor, BeginOnSuccess, BeginOnMaxRetries,
                  WriteJob, ReaddJob, UnregisterTask, hbVars, check
    <3>4. QED
      BY <2>7, <3>2, <3>3 DEF HBNext, StartMonitor, StopMonitor, MonitorExit,
         UpdateHeartbeat, TimeOut, RemoveHeartbeat, ManagerStep, allVars, hbVars, check
  <2>8. QED
    BY <2>1, <2>2, <2>4, <2>5, <2>6, <2>7 DEF RemovedIsHandled
<1>3. QED
  BY <1>1, <1>2

-----------------------------------------------------------------------------
(***************************************************************************)
(* What a check forgets.                                                   *)
(***************************************************************************)

\* The invariant holds of a new monitor and is kept by every step.
LEMMA HBInvariant == HBSpec => [](Typed /\ HBInv)
<1>1. HBInit => Typed /\ HBInv
  <2>1. HBInit => NothingBetweenChecks /\ ExecutedIsAttended /\ RemovedIsTimedOut
                  /\ RemovedIsHandled
    BY DEF HBInit, NothingBetweenChecks, ExecutedIsAttended, RemovedIsTimedOut,
           RemovedIsHandled
  <2>2. QED
    BY <2>1, InitTyped DEF Typed, HBInv
<1>2. Typed /\ HBInv /\ [HBNext]_allVars => (Typed /\ HBInv)'
  <2> SUFFICES ASSUME Typed, HBInv, [HBNext]_allVars PROVE Typed' /\ HBInv'
    OBVIOUS
  <2>1. Typed'
    BY TypedStep
  <2>2. NothingBetweenChecks' /\ ExecutedIsAttended'
    BY NothingBetweenChecksStep, ExecutedIsAttendedStep DEF HBInv
  <2>3. RemovedIsTimedOut' /\ RemovedIsHandled'
    BY RemovedIsTimedOutStep, RemovedIsHandledStep DEF HBInv
  <2>4. QED
    BY <2>1, <2>2, <2>3 DEF Typed, HBInv
<1>3. QED
  BY <1>1, <1>2, PTL DEF HBSpec

\* Only the end of a check forgets, and only what was to be removed.
LEMMA ForgetsAtEnd ==
    ASSUME Typed, [HBNext]_allVars, NEW j \in Job, Forgets(j)
    PROVE  EndCheck /\ j \in jobsToRemove
<1>1. ASSUME NEW w \in Worker, HBWorkerStep(w) PROVE UNCHANGED monitor
  BY <1>1 DEF HBWorkerStep, OwnStep, CallExecutor, BeginOnSuccess, BeginOnMaxRetries,
              WriteJob, ReaddJob, UnregisterTask, hbVars, check
<1>2. EndCheck
  BY <1>1 DEF Forgets, HBNext, StartMonitor, StopMonitor, MonitorExit, MonitorStep,
              CheckTimeouts, LookUp, AddRetryTask, FallbackRetry, UpdateHeartbeat, TimeOut,
              RemoveHeartbeat, ManagerStep, allVars, hbVars, check
<1>3. QED
  BY <1>2 DEF EndCheck, Forgets

\* A check never forgets a job that a retry rescheduled while it went on, unless the
\* retry's callback is there to put it back.
THEOREM SuccessesAreKept == HBSpec => SuccessIsNotForgotten
<1>1. Typed /\ HBInv /\ [HBNext]_allVars =>
        [\A j \in Job : Forgets(j) =>
           \/ timedOut[heartbeatMap[j]]
           \/ \E w \in Worker : callback[w] = "readd" /\ jobOf[current[w]] = heartbeatMap[j]
        ]_allVars
  BY ForgetsAtEnd DEF HBInv, RemovedIsTimedOut, Readding
<1>2. QED
  BY <1>1, HBInvariant, PTL DEF HBSpec, SuccessIsNotForgotten

\* A check never forgets a job that nobody attended to since it was last heard of, unless a
\* task of it is registered or in a worker's hands.
THEOREM ForgottenWereAttended == HBSpec => ForgottenWereRetried
<1>1. ASSUME Typed, HBInv, [HBNext]_allVars, NEW j \in Job, Forgets(j)
      PROVE  heartbeatMap[j] \in attended \/ \E t \in Task : IdOf[t] = j /\ Pending(t)
  <2>1. timeoutJobs = {} /\ j \in jobsToRemove /\ monitor = "lookup"
        /\ heartbeatMap[j] # NoInfo
    BY <1>1, ForgetsAtEnd DEF EndCheck, Forgets
  <2>2. handling = NoInfo
    BY <1>1, <2>1 DEF Typed, HBTypeOK
  <2>3. heartbeatMap[j] \in attended \/ Carried(j)
    BY <1>1, <2>1, <2>2 DEF HBInv, RemovedIsHandled
  <2>4. ASSUME tasks[j] # NoTask PROVE \E t \in Task : IdOf[t] = j /\ Pending(t)
    BY <1>1, <2>4, HeartbeatAssumption
       DEF Typed, TypeOK, OnlyAccepted, Pending, Registered
  <2>5. ASSUME NEW w \in Worker, Busy(w), IdOf[current[w]] = j
        PROVE  \E t \in Task : IdOf[t] = j /\ Pending(t)
    BY <1>1, <2>5 DEF Typed, TypeOK, Pending
  <2>6. QED
    BY <2>3, <2>4, <2>5 DEF Carried
<1>2. Typed /\ HBInv /\ [HBNext]_allVars =>
        [\A j \in Job : Forgets(j) =>
           heartbeatMap[j] \in attended \/ \E t \in Task : IdOf[t] = j /\ Pending(t)]_allVars
  BY <1>1
<1>3. QED
  BY <1>2, HBInvariant, PTL DEF HBSpec, ForgottenWereRetried

-----------------------------------------------------------------------------
(***************************************************************************)
(* The manager under its monitor.                                          *)
(***************************************************************************)

\* What the manager keeps by itself it keeps under the monitor, whose callbacks only
\* unregister tasks.
LEMMA ManagerCounts ==
    ASSUME TypeOK, AttemptsCounted, NoEarlyGiveUp, BreakerConsistent, [HBNext]_allVars
    PROVE  AttemptsCounted' /\ NoEarlyGiveUp' /\ BreakerConsistent'
<1>1. CASE [Next]_vars
  <2>1. AttemptsCounted' /\ NoEarlyGiveUp'
    BY <1>1, AttemptsCountedStep, NoEarlyGiveUpStep
  <2>2. BreakerConsistent'
    BY <1>1, BreakerConsistentStep
  <2>3. QED
    BY <2>1, <2>2
<1>2. ASSUME NEW w \in Worker, UnregisterTask(w)
      PROVE  AttemptsCounted' /\ NoEarlyGiveUp' /\ BreakerConsistent'
  BY <1>2
  DEF UnregisterTask, history, AttemptsCounted, NoEarlyGiveUp, BreakerConsistent, Consistent
<1>3. [Next]_vars \/ \E w \in Worker : UnregisterTask(w)
  BY StepOfManager DEF allVars
<1>4. QED
  BY <1>1, <1>2, <1>3

\* A callback unregisters a task that was reported, or another one of its ID.
LEMMA UnregisterIsDrop ==
    ASSUME Typed, ReportedFirst, NEW w \in Worker, UnregisterTask(w)
    PROVE  Contract!Drop(current[w]) /\ current[w] \in accepted
<1>1. /\ current[w] \in accepted /\ current[w] \in Task
      /\ reported[current[w]] # {}
      /\ UNCHANGED <<accepted, runs, reported>>
      /\ tasks' = [tasks EXCEPT ![IdOf[current[w]]] = NoTask]
  BY CallbackIsBusy
     DEF Typed, TypeOK, HBTypeOK, OnlyAccepted, CallbackPlace, ReportedFirst, UnregisterTask,
         Unregistered, history, Busy
<1>2. \A u \in Task : tasks'[IdOf[u]] = u <=> tasks[IdOf[u]] = u /\ IdOf[u] # IdOf[current[w]]
  BY <1>1, TaskAssumption DEF Typed, TypeOK
<1>3. QED
  BY <1>1, <1>2 DEF Contract!Drop, Contract!OfOtherIDs, Registered

\* The callbacks' RemoveTask leaves what is reported as it was, and so the invariant.
LEMMA ReportedFirstUnderMonitor ==
    ASSUME Typed, ReportedFirst, [HBNext]_allVars
    PROVE  ReportedFirst'
<1>1. CASE [Next]_vars
  BY <1>1, ReportedFirstStep DEF Typed
<1>2. ASSUME NEW w \in Worker, UnregisterTask(w) PROVE ReportedFirst'
  <2>1. /\ current[w] \in accepted /\ current[w] \in Task
        /\ reported[current[w]] # {}
        /\ UNCHANGED <<pc, current, accepted, runs, reported>>
        /\ tasks' = [tasks EXCEPT ![IdOf[current[w]]] = NoTask]
    BY <1>2, UnregisterIsDrop
       DEF Typed, TypeOK, UnregisterTask, Unregistered, history, Contract!Drop
  <2>2. ASSUME NEW t \in accepted
        PROVE  \E u \in accepted : IdOf[u] = IdOf[t] /\ (Registered(u)' \/ reported'[u] # {})
    <3>1. CASE IdOf[t] = IdOf[current[w]]
      BY <2>1, <3>1
    <3>2. CASE IdOf[t] # IdOf[current[w]]
      <4>1. PICK u \in accepted : IdOf[u] = IdOf[t] /\ (Registered(u) \/ reported[u] # {})
        BY DEF ReportedFirst, NoSilentDrop, SameID
      <4>2. Registered(u)' <=> Registered(u)
        BY <2>1, <3>2, <4>1, TaskAssumption DEF Typed, TypeOK, Registered
      <4>3. QED
        BY <2>1, <4>1, <4>2
    <3>3. QED
      BY <3>1, <3>2
  <2>3. QED
    BY <2>1, <2>2 DEF ReportedFirst, NoSilentDrop, SameID
<1>3. [Next]_vars \/ \E w \in Worker : UnregisterTask(w)
  BY StepOfManager DEF allVars
<1>4. QED
  BY <1>1, <1>2, <1>3

\* With several tasks for one job and callbacks that unregister them early, no task is
\* given up before it ran MaxRetries times or dropped before one of its ID was reported, and
\* the breaker counts right.
THEOREM ManagerKeepsItsWord == HBSpec => [](IInv /\ BreakerConsistent)
<1> DEFINE Counts == AttemptsCounted /\ NoEarlyGiveUp /\ BreakerConsistent
<1>1. HBInit => Counts /\ ReportedFirst
  <2>1. HBInit => Init /\ IInv
    BY InitInv DEF HBInit
  <2>2. Init => BreakerConsistent
    BY InitBreaker
  <2>3. QED
    BY <2>1, <2>2 DEF IInv
<1>2. Typed /\ Counts /\ [HBNext]_allVars => Counts'
  BY ManagerCounts DEF Typed
<1>3. Typed /\ ReportedFirst /\ [HBNext]_allVars => ReportedFirst'
  BY ReportedFirstUnderMonitor
<1>4. Typed /\ Counts /\ ReportedFirst => IInv /\ BreakerConsistent
  BY DEF Typed, IInv
<1>5. QED
  BY <1>1, <1>2, <1>3, <1>4, HBInvariant, PTL DEF HBSpec

\* The contract of AddTask holds where it is used: all retries of a job have one ID, and
\* the callbacks of an earlier one may unregister a later one.
THEOREM ManagerKeepsItsContract == HBSpec => ContractSpec
<1>1. HBInit => Contract!Init
  BY TaskAssumption DEF HBInit, Init, Contract!Init, Registered
<1>2. ASSUME Typed, IInv, [HBNext]_allVars PROVE [Contract!Next]_(Contract!vars)
  <2>1. CASE [Next]_vars
    BY <1>2, <2>1, ContractStep DEF Typed
  <2>2. ASSUME NEW w \in Worker, UnregisterTask(w) PROVE Contract!Next
    <3>1. current[w] \in Task /\ Contract!Drop(current[w])
      BY <1>2, <2>2, UnregisterIsDrop DEF Typed, TypeOK, IInv
    <3>2. QED
      BY <3>1 DEF Contract!Next
  <2>3. [Next]_vars \/ \E w \in Worker : UnregisterTask(w)
    BY <1>2, StepOfManager DEF allVars
  <2>4. QED
    BY <2>1, <2>2, <2>3
<1>3. QED
  BY <1>1, <1>2, HBInvariant, ManagerKeepsItsWord, PTL DEF HBSpec, ContractSpec, Contract!Spec
=============================================================================
