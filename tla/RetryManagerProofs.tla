------------------------- MODULE RetryManagerProofs -------------------------
(***************************************************************************)
(* Proofs about RetryManager, for every set of tasks, IDs and workers,     *)
(* every MaxRetries, channel capacity and breaker threshold.               *)
(***************************************************************************)
EXTENDS RetryManager, SequenceTheorems, TLAPS

(***************************************************************************)
(* Lemmas about the helpers.                                               *)
(***************************************************************************)

\* Each method of the breaker keeps its type and the tie between its state
\* and its failure count.
LEMMA BreakerSteps ==
    ASSUME NEW cb \in Breaker
    PROVE  /\ Probed(cb) \in Breaker /\ OnSuccess(cb) \in Breaker
           /\ OnFailure(cb) \in Breaker /\ CoolDown(cb) \in Breaker
           /\ Consistent(cb) => /\ Consistent(Probed(cb))
                                /\ Consistent(OnSuccess(cb))
                                /\ Consistent(OnFailure(cb))
                                /\ Consistent(CoolDown(cb))
<1>1. /\ cb.state \in CircuitState /\ cb.failureCount \in 0..FailureThreshold
      /\ cb.cooled \in BOOLEAN
      /\ cb = [state |-> cb.state, failureCount |-> cb.failureCount,
                cooled |-> cb.cooled]
  BY DEF Breaker
<1>2. Probed(cb) \in Breaker /\ (Consistent(cb) => Consistent(Probed(cb)))
  BY <1>1 DEF Breaker, CircuitState, Probed, Consistent
<1>3. OnSuccess(cb) \in Breaker /\ Consistent(OnSuccess(cb))
  BY <1>1, FailureThresholdAssumption DEF Breaker, CircuitState, OnSuccess, Consistent
<1>4. OnFailure(cb) \in Breaker /\ (Consistent(cb) => Consistent(OnFailure(cb)))
  <2>1. Counted(cb) \in 0..FailureThreshold
    BY <1>1, FailureThresholdAssumption DEF Counted
  <2>2. Consistent(cb) /\ Counted(cb) < FailureThreshold => cb.state = "Closed"
    BY <1>1, FailureThresholdAssumption DEF Counted, Consistent
  <2>3. QED
    BY <1>1, <2>1, <2>2, FailureThresholdAssumption
       DEF Breaker, CircuitState, OnFailure, Consistent
<1>5. CoolDown(cb) \in Breaker /\ (Consistent(cb) => Consistent(CoolDown(cb)))
  BY <1>1 DEF Breaker, CoolDown, Consistent
<1>6. QED
  BY <1>2, <1>3, <1>4, <1>5

\* The non-blocking send keeps the channel within its capacity and adds
\* nothing but the task offered.
LEMMA OfferedSteps ==
    ASSUME TypeOK, NEW t \in Task
    PROVE  /\ Offered(t) \in Seq(Task) /\ Len(Offered(t)) <= QueueCap
           /\ \A i \in 1..Len(Offered(t)) :
                  Offered(t)[i] = t \/ (i \in 1..Len(queue) /\ Offered(t)[i] = queue[i])
BY RetryAssumption DEF TypeOK, Offered

\* Receiving from a channel that is not empty.
LEMMA TakenSteps ==
    ASSUME TypeOK, queue # <<>>
    PROVE  /\ Tail(queue) \in Seq(Task) /\ Len(Tail(queue)) <= QueueCap
           /\ Head(queue) \in Task
           /\ Head(queue) = queue[1] /\ 1 \in 1..Len(queue)
           /\ \A i \in 1..Len(Tail(queue)) :
                  i + 1 \in 1..Len(queue) /\ Tail(queue)[i] = queue[i + 1]
BY RetryAssumption, HeadTailProperties, EmptySeq, LenProperties DEF TypeOK

-----------------------------------------------------------------------------
(***************************************************************************)
(* Type correctness.                                                       *)
(***************************************************************************)

\* A new manager is well typed.
LEMMA InitType == Init => TypeOK
<1> SUFFICES ASSUME Init PROVE TypeOK
  OBVIOUS
<1>1. breaker \in Breaker
  BY FailureThresholdAssumption DEF Init, NewBreaker, Breaker, CircuitState
<1>2. queue \in Seq(Task) /\ Len(queue) <= QueueCap
  BY EmptySeq, RetryAssumption DEF Init
<1>3. QED
  BY <1>1, <1>2 DEF Init, TypeOK, PC, Busy

\* Every step of a goroutine, a caller or the clock keeps the types.
LEMMA TypeStep == TypeOK /\ [Next]_vars => TypeOK'
<1> SUFFICES ASSUME TypeOK, [Next]_vars PROVE TypeOK'
  OBVIOUS
<1> USE DEF TypeOK, Busy, lifecycle, history
<1>1. CASE Start
  <2>1. pc' \in [Worker -> PC] /\ \A w \in Worker : ~Busy(w)'
    BY <1>1 DEF Start, PC
  <2>2. starts' \in Nat
    BY <1>1 DEF Start
  <2>3. QED
    BY <1>1, <2>1, <2>2 DEF Start
<1>2. CASE Stop
  BY <1>2 DEF Stop
<1>3. CASE CancelContext
  BY <1>3 DEF CancelContext
<1>4. CASE SchedulerExit
  BY <1>4 DEF SchedulerExit
<1>5. CASE BreakerTimeout
  BY <1>5, BreakerSteps DEF BreakerTimeout
<1>6. CASE SchedulerScan
  BY <1>6 DEF SchedulerScan, ReadyTasks
<1>7. ASSUME NEW t \in Task, SchedulerSend(t) PROVE TypeOK'
  BY <1>7, OfferedSteps DEF SchedulerSend
<1>8. ASSUME NEW t \in Task, AddTask(t) PROVE TypeOK'
  <2>1. queue' \in Seq(Task) /\ Len(queue') <= QueueCap /\ breaker' \in Breaker
    BY <1>8, OfferedSteps, BreakerSteps DEF AddTask
  <2>2. QED
    BY <1>8, <2>1, TaskAssumption DEF AddTask
<1>9. ASSUME NEW t \in Task, BackoffElapses(t) PROVE TypeOK'
  BY <1>9 DEF BackoffElapses
<1>10. ASSUME NEW w \in Worker, WorkerExit(w) PROVE TypeOK'
  BY <1>10 DEF WorkerExit, PC
<1>11. ASSUME NEW w \in Worker, WorkerStep(w) PROVE TypeOK'
  <2>2. CASE Take(w)
    BY <2>2, TakenSteps DEF Take, PC
  <2>3. CASE LoadAttempts(w)
    BY <2>3 DEF LoadAttempts, PC
  <2>4. CASE StoreAttempts(w)
    <3>1. current[w] \in Task /\ register[w] \in Nat
      BY <2>4 DEF StoreAttempts
    <3>2. attempts' \in [Task -> Nat] /\ runs' \in [Task -> Nat]
      <4>1. runs[current[w]] \in Nat
        BY <3>1
      <4>2. register[w] + 1 \in Nat /\ runs[current[w]] + 1 \in Nat
        BY <3>1, <4>1, SMT
      <4>3. QED
        BY <2>4, <3>1, <4>2 DEF StoreAttempts
    <3>3. register' \in [Worker -> Nat]
      BY <2>4 DEF StoreAttempts
    <3>4. pc' \in [Worker -> PC] /\ \A v \in Worker : Busy(v)' => current'[v] \in Task
      BY <2>4 DEF StoreAttempts, PC
    <3>5. QED
      BY <2>4, <3>2, <3>3, <3>4 DEF StoreAttempts
  <2>5. CASE ExecutorSucceeds(w)
    <3>1. reported' \in [Task -> SUBSET Outcome]
      BY <2>5 DEF ExecutorSucceeds, Outcome
    <3>2. QED
      BY <2>5, <3>1 DEF ExecutorSucceeds, PC
  <2>6. CASE ExecutorFails(w)
    BY <2>6, BreakerSteps DEF ExecutorFails, PC
  <2>7. CASE ResetBreaker(w)
    BY <2>7, BreakerSteps DEF ResetBreaker, PC
  <2>8. CASE ReachMaxRetries(w)
    BY <2>8 DEF ReachMaxRetries, PC
  <2>9. CASE Backoff(w)
    BY <2>9 DEF Backoff, PC
  <2>10. CASE CallOnMaxRetries(w)
    BY <2>10 DEF CallOnMaxRetries, PC, Outcome
  <2>11. CASE RemoveTask(w)
    BY <2>11 DEF RemoveTask, Unregistered, PC
  <2>12. QED
    BY <1>11, <2>2, <2>3, <2>4, <2>5, <2>6, <2>7, <2>8, <2>9, <2>10, <2>11
       DEF WorkerStep
<1>12. CASE UNCHANGED vars
  BY <1>12 DEF vars
<1>13. QED
  BY <1>1, <1>2, <1>3, <1>4, <1>5, <1>6, <1>7, <1>8, <1>9, <1>10, <1>11, <1>12
     DEF Next, SchedulerStep

\* Every reachable state is well typed; in particular the channel never holds
\* more than its capacity and a worker in executeTask always holds a task.
THEOREM TypeCorrect == Spec => []TypeOK
BY InitType, TypeStep, PTL DEF Spec

-----------------------------------------------------------------------------
(***************************************************************************)
(* The circuit breaker.                                                    *)
(***************************************************************************)

\* What any step does to the breaker: nothing, or one of its methods.
LEMMA BreakerOfAStep ==
    [Next]_vars => breaker' \in {breaker, Probed(breaker), OnSuccess(breaker),
                                 OnFailure(breaker), CoolDown(breaker)}
BY DEF Next, vars, lifecycle, SchedulerStep, WorkerStep, Start, Stop, CancelContext,
       SchedulerExit, BreakerTimeout, SchedulerScan, SchedulerSend, AddTask,
       BackoffElapses, WorkerExit, Take, LoadAttempts, StoreAttempts,
       ExecutorSucceeds, ExecutorFails, ResetBreaker, ReachMaxRetries, Backoff,
       CallOnMaxRetries, RemoveTask

\* A new breaker is closed and has counted nothing.
LEMMA InitBreaker == Init => BreakerConsistent
BY FailureThresholdAssumption DEF Init, BreakerConsistent, Consistent, NewBreaker

\* Whoever uses the breaker leaves its state and its count in agreement.
LEMMA BreakerConsistentStep ==
    ASSUME TypeOK, BreakerConsistent, [Next]_vars
    PROVE  BreakerConsistent'
<1> SUFFICES Consistent(breaker')
  BY DEF BreakerConsistent, Consistent
<1>1. breaker \in Breaker /\ Consistent(breaker)
  BY DEF TypeOK, BreakerConsistent
<1>2. QED
  BY <1>1, BreakerOfAStep, BreakerSteps

\* The breaker is closed exactly while it has counted fewer failures than the
\* threshold, in every interleaving of AddTask with the workers.
THEOREM BreakerAlwaysConsistent == Spec => []BreakerConsistent
BY InitBreaker, BreakerConsistentStep, TypeCorrect, PTL DEF Spec

-----------------------------------------------------------------------------
(***************************************************************************)
(* The inductive invariant, one part at a time.                            *)
(***************************************************************************)

\* A new manager has accepted, run and reported nothing.
LEMMA InitInv == Init => IInv
BY EmptySeq DEF Init, IInv, OnlyAccepted, AttemptsCounted, NoEarlyGiveUp, ReportedFirst,
       NoSilentDrop, Busy

\* What is in the map, the channel, a batch or a worker's hands went through
\* AddTask.
LEMMA OnlyAcceptedStep ==
    ASSUME TypeOK, OnlyAccepted, [Next]_vars
    PROVE  OnlyAccepted'
<1>1. accepted \subseteq accepted'
  BY DEF Next, vars, lifecycle, history, SchedulerStep, WorkerStep, Start, Stop,
         CancelContext, SchedulerExit, BreakerTimeout, SchedulerScan, SchedulerSend,
         AddTask, BackoffElapses, WorkerExit, Take, LoadAttempts, StoreAttempts,
         ExecutorSucceeds, ExecutorFails, ResetBreaker, ReachMaxRetries, Backoff,
         CallOnMaxRetries, RemoveTask
<1>2. (\A i \in 1..Len(queue) : queue[i] \in accepted)'
  <2>1. CASE UNCHANGED queue
    BY <1>1, <2>1 DEF OnlyAccepted
  <2>2. ASSUME NEW t \in Task, queue' = Offered(t), t \in accepted'
        PROVE  (\A i \in 1..Len(queue) : queue[i] \in accepted)'
    BY <1>1, <2>2, OfferedSteps DEF OnlyAccepted
  <2>3. CASE queue # <<>> /\ queue' = Tail(queue)
    BY <1>1, <2>3, TakenSteps DEF OnlyAccepted
  <2>4. \/ UNCHANGED queue
        \/ \E t \in Task : queue' = Offered(t) /\ t \in accepted'
        \/ queue # <<>> /\ queue' = Tail(queue)
    BY DEF OnlyAccepted, Next, vars, lifecycle, history, SchedulerStep, WorkerStep, Start,
         Stop, CancelContext, SchedulerExit, BreakerTimeout, SchedulerScan, SchedulerSend,
         AddTask, BackoffElapses, WorkerExit, Take, LoadAttempts, StoreAttempts,
         ExecutorSucceeds, ExecutorFails, ResetBreaker, ReachMaxRetries, Backoff,
         CallOnMaxRetries, RemoveTask
  <2>5. QED
    BY <2>1, <2>2, <2>3, <2>4
<1>3. batch' \subseteq accepted'
  <2>1. ReadyTasks \subseteq accepted
    BY TaskAssumption DEF ReadyTasks, Registered, OnlyAccepted
  <2>2. QED
    BY <1>1, <2>1 DEF OnlyAccepted, Next, vars, lifecycle, SchedulerStep, WorkerStep, Start,
         Stop, CancelContext, SchedulerExit, BreakerTimeout, SchedulerScan, SchedulerSend,
         AddTask, BackoffElapses, WorkerExit, Take, LoadAttempts, StoreAttempts,
         ExecutorSucceeds, ExecutorFails, ResetBreaker, ReachMaxRetries, Backoff,
         CallOnMaxRetries, RemoveTask
<1>4. (\A w \in Worker : Busy(w) => current[w] \in accepted)'
  <2>1. queue # <<>> => Head(queue) \in accepted
    BY TakenSteps DEF OnlyAccepted
  <2>2. QED
    BY <1>1, <2>1 DEF TypeOK, OnlyAccepted, Busy, Next, vars, lifecycle, SchedulerStep,
         WorkerStep, Start,
         Stop, CancelContext, SchedulerExit, BreakerTimeout, SchedulerScan, SchedulerSend,
         AddTask, BackoffElapses, WorkerExit, Take, LoadAttempts, StoreAttempts,
         ExecutorSucceeds, ExecutorFails, ResetBreaker, ReachMaxRetries, Backoff,
         CallOnMaxRetries, RemoveTask
<1>5. (\A id \in TaskID :
          tasks[id] # NoTask => tasks[id] \in accepted /\ IdOf[tasks[id]] = id)'
  BY <1>1, TaskAssumption DEF TypeOK, OnlyAccepted, Next, vars, lifecycle, SchedulerStep,
         WorkerStep, Start, Unregistered,
         Stop, CancelContext, SchedulerExit, BreakerTimeout, SchedulerScan, SchedulerSend,
         AddTask, BackoffElapses, WorkerExit, Take, LoadAttempts, StoreAttempts,
         ExecutorSucceeds, ExecutorFails, ResetBreaker, ReachMaxRetries, Backoff,
         CallOnMaxRetries, RemoveTask
<1>6. QED
  BY <1>2, <1>3, <1>4, <1>5 DEF OnlyAccepted

\* Attempts, and the values of it loaded and not yet stored, stay below the
\* number of runs.
LEMMA AttemptsCountedStep ==
    ASSUME TypeOK, AttemptsCounted, [Next]_vars
    PROVE  AttemptsCounted'
<1>1. ASSUME NEW w \in Worker, StoreAttempts(w) PROVE AttemptsCounted'
  <2>1. /\ current[w] \in Task /\ register[w] <= runs[current[w]]
        /\ register[w] \in Nat /\ runs[current[w]] \in Nat
    BY <1>1 DEF TypeOK, Busy, AttemptsCounted, StoreAttempts
  <2>2. /\ runs' = [runs EXCEPT ![current[w]] = runs[current[w]] + 1]
        /\ attempts' = [attempts EXCEPT ![current[w]] = register[w] + 1]
        /\ current' = current
    BY <1>1 DEF StoreAttempts
  <2>3. \A t \in Task : runs[t] \in Nat /\ runs'[t] \in Nat /\ runs[t] <= runs'[t]
    BY <2>1, <2>2 DEF TypeOK
  <2>4. \A t \in Task : attempts'[t] <= runs'[t]
    BY <2>1, <2>2 DEF TypeOK, AttemptsCounted
  <2>5. ASSUME NEW v \in Worker
        PROVE  /\ pc'[v] = "store" => register'[v] <= runs'[current'[v]]
               /\ pc'[v] = "execute" => runs'[current'[v]] >= 1
               /\ pc'[v] = "giveUp" => runs'[current'[v]] >= MaxRetries
    <3>1. CASE v = w
      BY <1>1, <2>1, <2>2, <3>1 DEF TypeOK, StoreAttempts
    <3>2. CASE v # w
      <4>1. pc'[v] = pc[v] /\ register'[v] = register[v]
        BY <1>1, <3>2 DEF TypeOK, StoreAttempts
      <4>2. Busy(v) => current[v] \in Task
        BY DEF TypeOK
      <4>3. QED
        BY <2>2, <2>3, <4>1, <4>2, RetryAssumption DEF TypeOK, AttemptsCounted, Busy
    <3>3. QED
      BY <3>1, <3>2
  <2>6. QED
    BY <2>4, <2>5 DEF AttemptsCounted
<1> DEFINE Loaded(w) ==
               \/ pc[w] = "store" /\ UNCHANGED <<current[w], register[w]>>
               \/ current'[w] \in Task /\ register'[w] = attempts[current'[w]]
           Exhausted(w) ==
               \/ pc[w] = "giveUp" /\ UNCHANGED current[w]
               \/ current'[w] \in Task /\ attempts[current'[w]] >= MaxRetries
           OtherStep ==
               /\ UNCHANGED <<attempts, runs>>
               /\ \A w \in Worker :
                      /\ pc'[w] = "store" => Loaded(w)
                      /\ pc'[w] = "execute" => pc[w] = "execute" /\ UNCHANGED current[w]
                      /\ pc'[w] = "giveUp" => Exhausted(w)
<1>2. ASSUME OtherStep PROVE AttemptsCounted'
  BY <1>2, RetryAssumption DEF TypeOK, AttemptsCounted
<1>3. (\E w \in Worker : StoreAttempts(w)) \/ OtherStep
  BY DEF TypeOK, Busy, Next, vars, lifecycle, history, SchedulerStep, WorkerStep, Start,
         Stop, CancelContext, SchedulerExit, BreakerTimeout, SchedulerScan, SchedulerSend,
         AddTask, BackoffElapses, WorkerExit, Take, LoadAttempts,
         ExecutorSucceeds, ExecutorFails, ResetBreaker, ReachMaxRetries, Backoff,
         CallOnMaxRetries, RemoveTask
<1>4. QED
  BY <1>1, <1>2, <1>3

\* handleTaskFailure calls OnMaxRetries only after MaxRetries runs.
LEMMA NoEarlyGiveUpStep ==
    ASSUME TypeOK, AttemptsCounted, NoEarlyGiveUp, [Next]_vars
    PROVE  NoEarlyGiveUp'
<1>1. ASSUME NEW w \in Worker, CallOnMaxRetries(w) PROVE NoEarlyGiveUp'
  <2>1. current[w] \in Task /\ runs[current[w]] >= MaxRetries
    BY <1>1 DEF TypeOK, Busy, AttemptsCounted, CallOnMaxRetries
  <2>2. QED
    BY <1>1, <2>1 DEF TypeOK, NoEarlyGiveUp, CallOnMaxRetries
<1>2. ASSUME NEW w \in Worker, ExecutorSucceeds(w) PROVE NoEarlyGiveUp'
  BY <1>2 DEF TypeOK, Busy, NoEarlyGiveUp, ExecutorSucceeds
<1>3. ASSUME NEW w \in Worker, StoreAttempts(w) PROVE NoEarlyGiveUp'
  <2>1. \A t \in Task : runs[t] \in Nat /\ runs'[t] >= runs[t]
    BY <1>3 DEF TypeOK, StoreAttempts
  <2>2. QED
    BY <1>3, <2>1, RetryAssumption DEF TypeOK, NoEarlyGiveUp, StoreAttempts
<1>4. CASE UNCHANGED <<runs, reported>>
  BY <1>4 DEF NoEarlyGiveUp
<1>5. \/ \E w \in Worker : CallOnMaxRetries(w) \/ ExecutorSucceeds(w) \/ StoreAttempts(w)
      \/ UNCHANGED <<runs, reported>>
  BY DEF Next, vars, lifecycle, history, SchedulerStep, WorkerStep, Start,
         Stop, CancelContext, SchedulerExit, BreakerTimeout, SchedulerScan, SchedulerSend,
         AddTask, BackoffElapses, WorkerExit, Take, LoadAttempts,
         ExecutorFails, ResetBreaker, ReachMaxRetries, Backoff, RemoveTask
<1>6. QED
  BY <1>1, <1>2, <1>3, <1>4, <1>5

\* RemoveTask comes after a callback, and what AddTask overwrites has the ID of what it adds.
LEMMA ReportedFirstStep ==
    ASSUME TypeOK, OnlyAccepted, ReportedFirst, [Next]_vars
    PROVE  ReportedFirst'
<1>1. \A t \in Task : reported[t] \subseteq reported'[t]
  <2>1. ASSUME NEW w \in Worker, CallOnMaxRetries(w) \/ ExecutorSucceeds(w)
        PROVE  \A t \in Task : reported[t] \subseteq reported'[t]
    <3>1. PICK outcome \in Outcome :
              reported' = [reported EXCEPT ![current[w]] =
                               reported[current[w]] \union {outcome}]
      BY <2>1 DEF CallOnMaxRetries, ExecutorSucceeds, Outcome
    <3>2. ASSUME NEW t \in Task PROVE reported[t] \subseteq reported'[t]
      <4>1. reported \in [Task -> SUBSET Outcome]
        BY DEF TypeOK
      <4>2. CASE t = current[w]
        <5>1. reported'[t] = reported[t] \union {outcome}
          BY <3>1, <4>1, <4>2
        <5>2. QED
          BY <5>1
      <4>3. CASE t # current[w]
        <5>1. reported'[t] = reported[t]
          BY <3>1, <4>1, <4>3
        <5>2. QED
          BY <5>1
      <4>4. QED
        BY <4>2, <4>3
    <3>3. QED
      BY <3>2
  <2>2. \/ \E w \in Worker : CallOnMaxRetries(w) \/ ExecutorSucceeds(w)
        \/ UNCHANGED reported
    BY DEF Next, vars, lifecycle, history, SchedulerStep, WorkerStep, Start, Stop,
         CancelContext, SchedulerExit, BreakerTimeout, SchedulerScan, SchedulerSend,
         AddTask, BackoffElapses, WorkerExit, Take, LoadAttempts, StoreAttempts,
         ExecutorFails, ResetBreaker, ReachMaxRetries, Backoff, RemoveTask
  <2>3. QED
    BY <2>1, <2>2
<1>2. (\A w \in Worker : pc[w] \in {"reset", "remove"} => reported[current[w]] # {})'
  <2> SUFFICES ASSUME NEW w \in Worker, pc'[w] \in {"reset", "remove"}
               PROVE  reported'[current'[w]] # {}
    OBVIOUS
  <2>1. CASE pc[w] \in {"reset", "remove"} /\ current'[w] = current[w]
    BY <1>1, <2>1 DEF TypeOK, Busy, ReportedFirst
  <2>2. CASE CallOnMaxRetries(w) \/ ExecutorSucceeds(w)
    BY <2>2 DEF TypeOK, Busy, CallOnMaxRetries, ExecutorSucceeds
  <2>3. \/ pc[w] \in {"reset", "remove"} /\ current'[w] = current[w]
        \/ CallOnMaxRetries(w) \/ ExecutorSucceeds(w)
    BY DEF TypeOK, Next, vars, lifecycle, history, SchedulerStep, WorkerStep, Start,
         Stop, CancelContext, SchedulerExit, BreakerTimeout, SchedulerScan, SchedulerSend,
         AddTask, BackoffElapses, WorkerExit, Take, LoadAttempts, StoreAttempts,
         ExecutorSucceeds, ExecutorFails, ResetBreaker, ReachMaxRetries, Backoff,
         CallOnMaxRetries, RemoveTask
  <2>4. QED
    BY <2>1, <2>2, <2>3
<1>3. ASSUME NEW t \in accepted'
      PROVE  \E u \in accepted' : IdOf[u] = IdOf[t] /\ (Registered(u)' \/ reported'[u] # {})
  <2>1. accepted \subseteq accepted' /\ accepted' \subseteq Task
    <3>1. accepted' \in SUBSET Task
      BY TypeStep DEF TypeOK
    <3>2. accepted \subseteq accepted'
      BY DEF Next, vars, lifecycle, history, SchedulerStep, WorkerStep, Start, Stop,
             CancelContext, SchedulerExit, BreakerTimeout, SchedulerScan, SchedulerSend,
             AddTask, BackoffElapses, WorkerExit, Take, LoadAttempts, StoreAttempts,
             ExecutorSucceeds, ExecutorFails, ResetBreaker, ReachMaxRetries, Backoff,
             CallOnMaxRetries, RemoveTask
    <3>3. QED
      BY <3>1, <3>2
  <2>2. t \in Task /\ IdOf[t] \in TaskID
    BY <2>1, TaskAssumption
  <2>3. CASE tasks'[IdOf[t]] # NoTask
    <3>1. tasks'[IdOf[t]] \in accepted' /\ IdOf[tasks'[IdOf[t]]] = IdOf[t]
      BY <2>2, <2>3, OnlyAcceptedStep DEF OnlyAccepted
    <3>2. QED
      BY <3>1 DEF Registered
  <2>4. ASSUME NEW w \in Worker, RemoveTask(w), IdOf[current[w]] = IdOf[t]
        PROVE  \E u \in accepted' : IdOf[u] = IdOf[t] /\ reported'[u] # {}
    <3>1. current[w] \in accepted /\ reported[current[w]] # {}
      BY <2>4 DEF OnlyAccepted, Busy, ReportedFirst, RemoveTask
    <3>2. QED
      BY <1>1, <2>1, <2>4, <3>1
  <2>5. CASE tasks'[IdOf[t]] = NoTask /\ tasks[IdOf[t]] = NoTask /\ t \in accepted
    <3>1. PICK u \in accepted : IdOf[u] = IdOf[t] /\ (Registered(u) \/ reported[u] # {})
      BY <2>5 DEF ReportedFirst, NoSilentDrop, SameID
    <3>2. ~Registered(u)
      BY <2>1, <2>5, <3>1, TaskAssumption DEF Registered
    <3>3. QED
      BY <1>1, <2>1, <3>1, <3>2
  <2>6. \/ tasks'[IdOf[t]] # NoTask
        \/ \E w \in Worker : RemoveTask(w) /\ IdOf[current[w]] = IdOf[t]
        \/ tasks[IdOf[t]] = NoTask /\ t \in accepted
    <3>1. ASSUME NEW u \in Task, AddTask(u)
          PROVE  tasks'[IdOf[t]] # NoTask \/ (tasks[IdOf[t]] = NoTask /\ t \in accepted)
      BY <2>2, <3>1, TaskAssumption DEF TypeOK, AddTask
    <3>2. ASSUME NEW w \in Worker, RemoveTask(w), IdOf[current[w]] # IdOf[t]
          PROVE  tasks'[IdOf[t]] = tasks[IdOf[t]] /\ accepted' = accepted
      BY <2>2, <3>2 DEF TypeOK, RemoveTask, Unregistered, history
    <3>3. \/ \E u \in Task : AddTask(u)
          \/ \E w \in Worker : RemoveTask(w)
          \/ UNCHANGED <<tasks, accepted>>
      BY DEF Next, vars, lifecycle, history, SchedulerStep, WorkerStep, Start, Stop,
             CancelContext, SchedulerExit, BreakerTimeout, SchedulerScan, SchedulerSend,
             BackoffElapses, WorkerExit, Take, LoadAttempts, StoreAttempts,
             ExecutorSucceeds, ExecutorFails, ResetBreaker, ReachMaxRetries, Backoff,
             CallOnMaxRetries
    <3>4. QED
      BY <3>1, <3>2, <3>3
  <2>7. QED
    BY <2>3, <2>4, <2>5, <2>6
<1>4. NoSilentDrop'
  BY <1>3 DEF NoSilentDrop, SameID
<1>5. QED
  BY <1>2, <1>4 DEF ReportedFirst

\* The inductive invariant holds in every reachable state.
THEOREM Invariance == Spec => []IInv
<1>1. TypeOK /\ IInv /\ [Next]_vars => IInv'
  BY OnlyAcceptedStep, AttemptsCountedStep, NoEarlyGiveUpStep, ReportedFirstStep DEF IInv
<1>2. QED
  BY <1>1, InitInv, TypeCorrect, PTL DEF Spec

\* A task is given up only after MaxRetries calls of its Executor, whatever
\* increments of Attempts the workers lose to each other.
THEOREM NeverGivesUpEarly == Spec => []NoEarlyGiveUp
<1>1. IInv => NoEarlyGiveUp
  BY DEF IInv
<1>2. QED
  BY <1>1, Invariance, PTL

\* Once AddTask has taken a task, one of its ID stays registered until a callback has
\* reported one of them, however full the channel is and whatever AddTask overwrites.
THEOREM NeverDropsSilently == Spec => []NoSilentDrop
<1>1. IInv => NoSilentDrop
  BY DEF IInv, ReportedFirst
<1>2. QED
  BY <1>1, Invariance, PTL

-----------------------------------------------------------------------------
(***************************************************************************)
(* The retry manager implements its contract.                              *)
(***************************************************************************)

\* A step of the manager is a step of the contract, or leaves it alone.
LEMMA ContractStep ==
    ASSUME TypeOK, IInv, [Next]_vars
    PROVE  [Contract!Next]_(Contract!vars)
<1>1. ASSUME NEW t \in Task, AddTask(t) PROVE Contract!Next
  <2>1. \A u \in Task :
            tasks'[IdOf[u]] = u <=> (tasks[IdOf[u]] = u /\ IdOf[u] # IdOf[t]) \/ u = t
    BY <1>1, TaskAssumption DEF TypeOK, AddTask
  <2>2. Contract!Accept(t)
    BY <1>1, <2>1 DEF Contract!Accept, Contract!OfOtherIDs, Registered, AddTask, history
  <2>3. QED
    BY <2>2 DEF Contract!Next
<1>2. ASSUME NEW w \in Worker, RemoveTask(w) PROVE Contract!Next
  <2>1. current[w] \in Task /\ reported[current[w]] # {}
    BY <1>2 DEF TypeOK, Busy, IInv, ReportedFirst, RemoveTask
  <2>2. \A u \in Task :
            tasks'[IdOf[u]] = u <=> tasks[IdOf[u]] = u /\ IdOf[u] # IdOf[current[w]]
    BY <1>2, <2>1, TaskAssumption DEF TypeOK, RemoveTask, Unregistered
  <2>3. Contract!Drop(current[w])
    BY <1>2, <2>1, <2>2 DEF Contract!Drop, Contract!OfOtherIDs, Registered, RemoveTask, history
  <2>4. QED
    BY <2>1, <2>3 DEF Contract!Next
<1>3. ASSUME NEW w \in Worker, StoreAttempts(w) PROVE Contract!Next
  <2>1. current[w] \in Task /\ current[w] \in accepted
    BY <1>3 DEF TypeOK, Busy, IInv, OnlyAccepted, StoreAttempts
  <2>2. Contract!Run(current[w])
    BY <1>3, <2>1 DEF Contract!Run, Registered, StoreAttempts
  <2>3. QED
    BY <2>1, <2>2 DEF Contract!Next
<1>4. ASSUME NEW w \in Worker, ExecutorSucceeds(w) PROVE Contract!Next
  <2>1. current[w] \in Task /\ runs[current[w]] >= 1
    BY <1>4 DEF TypeOK, Busy, IInv, AttemptsCounted, ExecutorSucceeds
  <2>2. Contract!Report(current[w], "success")
    BY <1>4, <2>1 DEF Contract!Report, Registered, ExecutorSucceeds
  <2>3. QED
    BY <2>1, <2>2 DEF Contract!Next
<1>5. ASSUME NEW w \in Worker, CallOnMaxRetries(w) PROVE Contract!Next
  <2>1. current[w] \in Task /\ runs[current[w]] >= MaxRetries
    BY <1>5 DEF TypeOK, Busy, IInv, AttemptsCounted, CallOnMaxRetries
  <2>2. Contract!Report(current[w], "maxRetries")
    BY <1>5, <2>1 DEF Contract!Report, Registered, CallOnMaxRetries
  <2>3. QED
    BY <2>1, <2>2 DEF Contract!Next
<1>6. CASE UNCHANGED <<accepted, tasks, runs, reported>>
  BY <1>6 DEF Contract!vars, Registered
<1>7. \/ \E t \in Task : AddTask(t)
      \/ \E w \in Worker : \/ RemoveTask(w) \/ StoreAttempts(w)
                           \/ ExecutorSucceeds(w) \/ CallOnMaxRetries(w)
      \/ UNCHANGED <<accepted, tasks, runs, reported>>
  BY DEF Next, vars, lifecycle, history, SchedulerStep, WorkerStep, Start, Stop,
         CancelContext, SchedulerExit, BreakerTimeout, SchedulerScan, SchedulerSend,
         BackoffElapses, WorkerExit, Take, LoadAttempts, ExecutorFails, ResetBreaker,
         ReachMaxRetries, Backoff
<1>8. QED
  BY <1>1, <1>2, <1>3, <1>4, <1>5, <1>6, <1>7

\* Every behaviour of the manager is one its contract allows, whichever tasks share an ID:
\* kept until one of the ID is reported or added, success only after a run, a give-up only
\* after MaxRetries runs.
THEOREM ImplementsContract == Spec => ContractSpec
<1>1. Init => Contract!Init
  BY TaskAssumption DEF Init, Contract!Init, Registered
<1>2. TypeOK /\ IInv /\ [Next]_vars => [Contract!Next]_(Contract!vars)
  BY ContractStep
<1>3. QED
  BY <1>1, <1>2, TypeCorrect, Invariance, PTL DEF Spec, ContractSpec, Contract!Spec
=============================================================================
