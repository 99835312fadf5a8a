----------------------------- MODULE WatchProofs -----------------------------
(***************************************************************************)
(* Proofs about Watch, for every set of processes and every number of      *)
(* boots.                                                                  *)
(***************************************************************************)
EXTENDS Watch, TLAPS

\* Locks, lockers and processes keep their types.
LEMMA TypeStep == TypeOK /\ [Next]_vars => TypeOK'
<1> SUFFICES ASSUME TypeOK, [Next]_vars PROVE TypeOK'
  OBVIOUS
<1> USE DEF TypeOK, LockerTypeOK, process, history
<1>1. ASSUME NEW i \in Instance, StartRenewing(i)
      PROVE  ticker' \in [Instance -> BOOLEAN] /\ renewers' \in [Instance -> SUBSET Renewer]
  BY <1>1 DEF StartRenewing, Renewer
<1>2. CASE Expire
  BY <1>2 DEF Expire, LeaseExpires
<1>3. ASSUME NEW i \in Instance, Boot(i) PROVE TypeOK'
  BY <1>3 DEF Boot, lockerVars
<1>4. ASSUME NEW i \in Instance, Acquire(i) PROVE TypeOK'
  BY <1>1, <1>4 DEF Acquire, LockSucceeds
<1>5. ASSUME NEW i \in Instance, AcquireFails(i) PROVE TypeOK'
  BY <1>1, <1>5 DEF AcquireFails, LockFailsToCommit, watchVars
<1>6. ASSUME NEW i \in Instance, StartCron(i) \/ JobStarts(i) \/ JobEnds(i) \/ Stop(i)
      PROVE  TypeOK'
  BY <1>6 DEF StartCron, JobStarts, JobEnds, Stop, lockerVars
<1>7. ASSUME NEW i \in Instance, Release(i) \/ ReleaseTooEarly(i) PROVE TypeOK'
  <2>1. UnlockAndExit(i) /\ breached' \in BOOLEAN
    BY <1>7 DEF Release, ReleaseTooEarly
  <2>2. ticker' \in [Instance -> BOOLEAN] /\ renewers' \in [Instance -> SUBSET Renewer]
    BY <2>1 DEF UnlockAndExit, Unlock
  <2>3. owner' \in Instance \union {NoOwner} /\ expired' \in BOOLEAN
    BY <2>1 DEF UnlockAndExit, Unlock
  <2>4. QED
    BY <2>1, <2>2, <2>3 DEF UnlockAndExit
<1>8. ASSUME NEW i \in Instance, Exit(i) \/ Kill(i) PROVE TypeOK'
  BY <1>8 DEF Exit, Kill, Vanish, GoDown
<1>9. ASSUME NEW i \in Instance, Tick(i) PROVE TypeOK'
  BY <1>9 DEF Tick, TickerFires, Renewer, watchVars
<1>10. ASSUME NEW i \in Instance, RenewLease(i) PROVE TypeOK'
  <2>1. renewers' \in [Instance -> SUBSET Renewer]
    BY <1>10 DEF RenewLease, Renew, Renewer
  <2>2. QED
    BY <1>10, <2>1 DEF RenewLease, Renew, GoDown, watchVars
<1>11. CASE UNCHANGED vars
  BY <1>11 DEF vars, lockerVars, watchVars
<1>12. QED
  BY <1>2, <1>3, <1>4, <1>5, <1>6, <1>7, <1>8, <1>9, <1>10, <1>11 DEF Next

\* Every reachable state is well typed: in particular the row names a process
\* or nobody, and the goroutines of a locker are in one of three places.
THEOREM TypeCorrect == Spec => []TypeOK
<1>1. Init => TypeOK
  <2> SUFFICES ASSUME Init PROVE TypeOK
    OBVIOUS
  <2>1. LockerTypeOK
    BY DEF Init, LockerInit, LockerTypeOK, Renewer
  <2>2. QED
    BY <2>1 DEF Init, TypeOK
<1>2. QED
  BY <1>1, TypeStep, PTL DEF Spec

-----------------------------------------------------------------------------
(***************************************************************************)
(* Mutual exclusion.                                                       *)
(***************************************************************************)

\* Where a process is follows from its own steps.
LEMMA PlaceStep == TypeOK /\ HoldersArePlaced /\ [Next]_vars => HoldersArePlaced'
<1> SUFFICES ASSUME TypeOK, HoldersArePlaced, [Next]_vars PROVE HoldersArePlaced'
  OBVIOUS
<1> USE DEF HoldersArePlaced, TypeOK, process, history
<1>1. ASSUME NEW i \in Instance, Boot(i) PROVE HoldersArePlaced'
  BY <1>1 DEF Boot
<1>2. ASSUME NEW i \in Instance, Acquire(i) PROVE HoldersArePlaced'
  BY <1>2 DEF Acquire
<1>3. ASSUME NEW i \in Instance, StartCron(i) PROVE HoldersArePlaced'
  BY <1>3 DEF StartCron
<1>4. ASSUME NEW i \in Instance, Stop(i) PROVE HoldersArePlaced'
  BY <1>4 DEF Stop
<1>5. ASSUME NEW i \in Instance, UnlockAndExit(i) PROVE HoldersArePlaced'
  BY <1>5 DEF UnlockAndExit
<1>6. ASSUME NEW i \in Instance, GoDown(i) PROVE HoldersArePlaced'
  BY <1>6 DEF GoDown
<1>7. ASSUME UNCHANGED <<main, starter, holders>> PROVE HoldersArePlaced'
  BY <1>7
<1>8. ASSUME NEW i \in Instance, JobStarts(i) \/ JobEnds(i) PROVE HoldersArePlaced'
  BY <1>7, <1>8 DEF JobStarts, JobEnds
<1>9. CASE UNCHANGED watchVars \/ Expire
  BY <1>7, <1>9 DEF watchVars, Expire
<1>10. QED
  BY <1>1, <1>2, <1>3, <1>4, <1>5, <1>6, <1>8, <1>9
     DEF Next, vars, AcquireFails, Release, ReleaseTooEarly, Exit, Kill, Tick, RenewLease

\* A process that holds the lock has a goroutine that renews the lease, and will have it
\* until it unlocks or dies, whatever other processes do.
LEMMA RenewedStep == TypeOK /\ LeaseRenewed /\ [Next]_vars => LeaseRenewed'
<1> SUFFICES ASSUME TypeOK, LeaseRenewed, [Next]_vars PROVE LeaseRenewed'
  OBVIOUS
<1> USE DEF LeaseRenewed, TypeOK, LockerTypeOK, process, history
<1>1. ASSUME NEW i \in Instance, Acquire(i) PROVE LeaseRenewed'
  BY <1>1 DEF Acquire, LockSucceeds, StartRenewing
<1>2. ASSUME NEW i \in Instance, AcquireFails(i) PROVE LeaseRenewed'
  BY <1>2 DEF AcquireFails, LockFailsToCommit, StartRenewing, watchVars
<1>3. ASSUME NEW i \in Instance, UnlockAndExit(i) PROVE LeaseRenewed'
  BY <1>3 DEF UnlockAndExit, Unlock
<1>4. ASSUME NEW i \in Instance, GoDown(i), Vanish(i) PROVE LeaseRenewed'
  BY <1>4 DEF GoDown, Vanish
<1>5. ASSUME NEW i \in Instance, Tick(i) PROVE LeaseRenewed'
  BY <1>5 DEF Tick, TickerFires, watchVars
<1>6. ASSUME NEW i \in Instance, RenewLease(i) PROVE LeaseRenewed'
  <2>1. CASE ticker[i]
    BY <1>6, <2>1 DEF RenewLease, Renew, watchVars
  <2>2. CASE ~ticker[i]
    BY <1>6, <2>2 DEF RenewLease, Renew, GoDown
  <2>3. QED
    BY <2>1, <2>2
<1>7. ASSUME UNCHANGED <<ticker, renewers, holders>> PROVE LeaseRenewed'
  BY <1>7
<1>8. ASSUME NEW i \in Instance,
             Boot(i) \/ StartCron(i) \/ JobStarts(i) \/ JobEnds(i) \/ Stop(i)
      PROVE  LeaseRenewed'
  BY <1>7, <1>8 DEF Boot, StartCron, JobStarts, JobEnds, Stop, lockerVars
<1>9. CASE UNCHANGED vars \/ Expire
  BY <1>7, <1>9 DEF vars, lockerVars, watchVars, Expire, LeaseExpires
<1>10. QED
  BY <1>1, <1>2, <1>3, <1>4, <1>5, <1>6, <1>8, <1>9
     DEF Next, Release, ReleaseTooEarly, Exit, Kill

\* While some process holds the lock and it is not breached, nobody else can get it.
LEMMA HeldIsNotObtainable ==
    ASSUME TypeOK, LeaseHeld, ~breached, Obtainable
    PROVE  holders = {}
BY LockerAssumption DEF LeaseHeld, Obtainable, TypeOK

\* The row stays with the process that holds the lock, until the lock is breached.
LEMMA LeaseStep == TypeOK /\ LeaseHeld /\ [Next]_vars => LeaseHeld'
<1> SUFFICES ASSUME TypeOK, LeaseHeld, [Next]_vars, ~breached' PROVE LeaseHeld'
  BY DEF LeaseHeld
<1> USE DEF TypeOK, LockerTypeOK, process, history
<1>0. ~breached
  BY DEF Next, vars, watchVars, Expire, Boot, Acquire, AcquireFails, StartCron, JobStarts,
         JobEnds, Stop, Release, ReleaseTooEarly, Exit, Kill, GoDown, Tick, RenewLease
<1>1. \A i \in holders : owner = i /\ ~expired
  BY <1>0 DEF LeaseHeld
<1>2. CASE Expire
  <2>1. owner \notin holders
    BY <1>2 DEF Expire
  <2>2. holders = {}
    BY <1>1, <2>1
  <2>3. QED
    BY <1>2, <2>2 DEF Expire, LeaseHeld
<1>3. ASSUME NEW i \in Instance, Acquire(i) PROVE LeaseHeld'
  <2>1. holders = {}
    BY <1>0, <1>3, HeldIsNotObtainable DEF Acquire, LockSucceeds
  <2>2. QED
    BY <1>3, <2>1 DEF Acquire, LockSucceeds, LeaseHeld
<1>4. ASSUME NEW i \in Instance, UnlockAndExit(i), ~Deprives(i) PROVE LeaseHeld'
  <2>1. ASSUME NEW j \in holders' PROVE owner' = j /\ ~expired'
    <3>1. j \in holders \ {i} /\ owner = j /\ ~expired
      BY <1>1, <1>4, <2>1 DEF UnlockAndExit
    <3>2. owner' = owner /\ j # NoOwner
      BY <1>4, <3>1, LockerAssumption DEF Deprives
    <3>3. QED
      BY <1>4, <3>1, <3>2 DEF UnlockAndExit, Unlock
  <2>2. QED
    BY <2>1 DEF LeaseHeld
<1>5. ASSUME NEW i \in Instance, Vanish(i), GoDown(i) PROVE LeaseHeld'
  BY <1>1, <1>5 DEF Vanish, GoDown, LeaseHeld
<1>6. ASSUME NEW i \in Instance, RenewLease(i) PROVE LeaseHeld'
  BY <1>1, <1>6 DEF RenewLease, Renew, GoDown, watchVars, LeaseHeld
<1>7. ASSUME UNCHANGED <<owner, expired, holders>> PROVE LeaseHeld'
  BY <1>1, <1>7 DEF LeaseHeld
<1>8. ASSUME NEW i \in Instance,
             \/ Boot(i) \/ AcquireFails(i) \/ StartCron(i) \/ JobStarts(i) \/ JobEnds(i)
             \/ Stop(i) \/ Tick(i)
      PROVE  LeaseHeld'
  BY <1>7, <1>8 DEF Boot, AcquireFails, LockFailsToCommit, StartCron, JobStarts, JobEnds, Stop,
                    Tick, TickerFires, lockerVars, watchVars
<1>9. CASE UNCHANGED vars
  BY <1>7, <1>9 DEF vars, lockerVars, watchVars
<1>10. QED
  BY <1>2, <1>3, <1>4, <1>5, <1>6, <1>8, <1>9
     DEF Next, Release, ReleaseTooEarly, Exit, Kill

\* Cron jobs start where the lock is held, and it is kept until the last has ended.
LEMMA LeadersStep ==
    ASSUME TypeOK, HoldersArePlaced, ~breached => LeadersHold, [Next]_vars, ~breached'
    PROVE  LeadersHold /\ LeadersHold'
<1> USE DEF LeadersHold, Leads, TypeOK, process, history
<1>0. LeadersHold
  BY DEF Next, vars, watchVars, Expire, Boot, Acquire, AcquireFails, StartCron, JobStarts,
         JobEnds, Stop, Release, ReleaseTooEarly, Exit, Kill, GoDown, Tick, RenewLease
<1>1. ASSUME NEW i \in Instance, Acquire(i) PROVE LeadersHold'
  BY <1>0, <1>1 DEF Acquire
<1>2. ASSUME NEW i \in Instance, StartCron(i) PROVE LeadersHold'
  <2>1. i \in holders
    BY <1>2 DEF StartCron, HoldersArePlaced
  <2>2. QED
    BY <1>0, <1>2, <2>1 DEF StartCron
<1>3. ASSUME NEW i \in Instance, JobStarts(i) \/ JobEnds(i) \/ Stop(i) PROVE LeadersHold'
  BY <1>0, <1>3 DEF JobStarts, JobEnds, Stop
<1>4. ASSUME NEW i \in Instance, Release(i) PROVE LeadersHold'
  BY <1>0, <1>4 DEF Release, UnlockAndExit
<1>5. ASSUME NEW i \in Instance, GoDown(i) PROVE LeadersHold'
  BY <1>0, <1>5 DEF GoDown
<1>6. ASSUME NEW i \in Instance, Boot(i) PROVE LeadersHold'
  BY <1>0, <1>6 DEF Boot
<1>7. CASE UNCHANGED watchVars \/ Expire
  BY <1>0, <1>7 DEF watchVars, Expire
<1>8. QED
  BY <1>0, <1>1, <1>2, <1>3, <1>4, <1>5, <1>6, <1>7
     DEF Next, vars, AcquireFails, ReleaseTooEarly, Exit, Kill, Tick, RenewLease

\* Whoever holds the lock has a live goroutine that renews it, and until the lock is
\* breached the row is its holder's and cron jobs run under it only.
THEOREM LeaseIsHeld == Spec => []IInv
<1>1. Init => IInv
  BY DEF Init, LockerInit, IInv, LeaseHeld, LeaseRenewed, HoldersArePlaced, LeadersHold, Leads
<1>2. TypeOK /\ IInv /\ [Next]_vars => IInv'
  BY LeaseStep, RenewedStep, PlaceStep, LeadersStep DEF IInv
<1>3. QED
  BY <1>1, <1>2, TypeCorrect, PTL DEF Spec

\* A process between Lock and Unlock owns the row, and the row has not expired,
\* although nothing in Watch looks at it again (GORMLocker.Renew, renewLock): until a
\* lease runs out under its holder, or a holder's row is deleted by another's Unlock, or
\* jobs run behind an Unlock.
THEOREM LeaseBelieved == Spec => []LeaseHeld
<1>1. IInv => LeaseHeld
  BY DEF IInv
<1>2. QED
  BY <1>1, LeaseIsHeld, PTL

\* Until then the cron jobs of one process run at a time, through every stop, kill,
\* restart, failed commit, failed deletion and leaked renewal goroutine.
THEOREM LeadersExclude == Spec => []OneLeader
<1>1. IInv => OneLeader
  BY DEF IInv, LeaseHeld, LeadersHold, OneLeader
<1>2. QED
  BY <1>1, LeaseIsHeld, PTL
\* A goroutine that renews in time (renewLock) is all that the lease of a holder needs: no
\* lease then runs out under its holder, whoever else renews, unlocks or comes and goes.
THEOREM RenewedLeasesLast ==
    Spec => [][RenewalsOnTime /\ LeaseExpires => owner \notin holders]_vars
<1>1. TypeOK /\ IInv => (RenewalsOnTime /\ LeaseExpires => owner \notin holders)
  BY LockerAssumption DEF IInv, LeaseRenewed, LeaseExpires, TypeOK
<1>2. TypeOK /\ IInv => [RenewalsOnTime /\ LeaseExpires => owner \notin holders]_vars
  BY <1>1
<1>3. QED
  BY <1>2, TypeCorrect, LeaseIsHeld, PTL

-----------------------------------------------------------------------------
(***************************************************************************)
(* The watch server implements the abstract mutex until it is breached.    *)
(***************************************************************************)

\* The processes that lead, when only i changes.
LEMMA LeadersChange ==
    ASSUME NEW i \in Instance,
           \A j \in Instance : j # i => (Leads(j)' <=> Leads(j))
    PROVE  /\ Leads(i)' =>
                  {j \in Instance : Leads(j)}' = {j \in Instance : Leads(j)} \union {i}
           /\ ~Leads(i)' =>
                  {j \in Instance : Leads(j)}' = {j \in Instance : Leads(j)} \ {i}
OBVIOUS

\* Every step of a watch server is a step of the mutex or leaves its variables alone.
LEMMA MutexStep ==
    ASSUME TypeOK, IInv, [Next]_vars
    PROVE  [MutexOfJobs!Next]_(MutexOfJobs!vars)
<1> USE DEF TypeOK, LockerTypeOK, process, history
<1> DEFINE L == {j \in Instance : Leads(j)}
           H == IF breached THEN {} ELSE holders
           I == IF breached THEN {} ELSE L
<1>1. breached => breached'
  BY DEF Next, vars, watchVars, Expire, Boot, Acquire, AcquireFails, StartCron, JobStarts,
         JobEnds, Stop, Release, ReleaseTooEarly, Exit, Kill, GoDown, Tick, RenewLease
<1>2. CASE breached
  <2>1. H' = H /\ I' = I
    BY <1>1, <1>2
  <2>2. QED
    BY <2>1 DEF MutexOfJobs!vars
<1>3. CASE ~breached /\ breached'
  <2>1. H' = {} /\ I' = {}
    BY <1>3
  <2>2. CASE holders = {}
    <3>1. H = {} /\ I = {}
      BY <1>3, <2>2 DEF IInv, LeadersHold
    <3>2. QED
      BY <2>1, <3>1 DEF MutexOfJobs!vars
  <2>3. CASE holders # {}
    <3>1. PICK i \in Instance : i \in holders
      BY <2>3
    <3>2. holders \subseteq {i} /\ L \subseteq {i}
      BY <1>3, <3>1 DEF IInv, LeaseHeld, LeadersHold
    <3>3. H' = H \ {i} /\ I' = I \ {i}
      BY <1>3, <2>1, <3>2
    <3>4. MutexOfJobs!Crash(i)
      BY <3>3 DEF MutexOfJobs!Crash
    <3>5. QED
      BY <3>4 DEF MutexOfJobs!Next
  <2>4. QED
    BY <2>2, <2>3
<1>4. CASE ~breached /\ ~breached'
  <2>0. /\ H = holders /\ H' = holders' /\ I = L /\ I' = L'
        /\ LeaseHeld /\ LeadersHold /\ HoldersArePlaced
    BY <1>4 DEF IInv
  <2>1. ASSUME NEW i \in Instance, Acquire(i) PROVE MutexOfJobs!Next
    <3>1. holders = {} /\ holders' = {i}
      BY <1>4, <2>0, <2>1, HeldIsNotObtainable DEF Acquire, LockSucceeds
    <3>2. L' = L
      BY <2>1 DEF Acquire, Leads
    <3>3. MutexOfJobs!Lock(i)
      BY <2>0, <3>1, <3>2 DEF MutexOfJobs!Lock
    <3>4. QED
      BY <3>3 DEF MutexOfJobs!Next
  <2>2. ASSUME NEW i \in Instance, StartCron(i) PROVE MutexOfJobs!Next
    <3>1. i \in holders /\ holders' = holders
      BY <1>4, <2>0, <2>2 DEF StartCron, HoldersArePlaced
    <3>2. Leads(i)' /\ \A j \in Instance : j # i => (Leads(j)' <=> Leads(j))
      BY <2>2 DEF StartCron, Leads
    <3>3. L' = L \union {i}
      BY <3>2, LeadersChange
    <3>4. MutexOfJobs!Enter(i)
      BY <2>0, <3>1, <3>3 DEF MutexOfJobs!Enter
    <3>5. QED
      BY <3>4 DEF MutexOfJobs!Next
  <2>3. ASSUME NEW i \in Instance, JobStarts(i) PROVE UNCHANGED MutexOfJobs!vars
    <3>1. holders' = holders /\ \A j \in Instance : Leads(j)' <=> Leads(j)
      BY <2>3 DEF JobStarts, Leads
    <3>2. QED
      BY <2>0, <3>1 DEF MutexOfJobs!vars
  <2>4. ASSUME NEW i \in Instance, JobEnds(i) \/ Stop(i)
        PROVE  [MutexOfJobs!Next]_(MutexOfJobs!vars)
    <3>1. holders' = holders /\ \A j \in Instance : j # i => (Leads(j)' <=> Leads(j))
      BY <2>4 DEF JobEnds, Stop, Leads
    <3>2. CASE Leads(i)'
      <4>1. Leads(i)
        BY <2>4, <3>2 DEF JobEnds, Stop, Leads
      <4>2. L' = L
        BY <3>1, <3>2, <4>1
      <4>3. QED
        BY <2>0, <3>1, <4>2 DEF MutexOfJobs!vars
    <3>3. CASE ~Leads(i)'
      <4>1. L' = L \ {i}
        BY <3>1, <3>3, LeadersChange
      <4>2. MutexOfJobs!Leave(i)
        BY <2>0, <3>1, <4>1 DEF MutexOfJobs!Leave
      <4>3. QED
        BY <4>2 DEF MutexOfJobs!Next
    <3>4. QED
      BY <3>2, <3>3
  <2>5. ASSUME NEW i \in Instance, Release(i) PROVE MutexOfJobs!Next
    <3>1. ~Leads(i) /\ holders' = holders \ {i} /\ UNCHANGED <<cronOn, working>>
      BY <2>5 DEF Release, UnlockAndExit
    <3>2. i \notin L /\ L' = L
      BY <3>1 DEF Leads
    <3>3. MutexOfJobs!Unlock(i)
      BY <2>0, <3>1, <3>2 DEF MutexOfJobs!Unlock
    <3>4. QED
      BY <3>3 DEF MutexOfJobs!Next
  <2>6. ASSUME NEW i \in Instance, GoDown(i) PROVE MutexOfJobs!Next
    <3>1. /\ ~Leads(i)' /\ holders' = holders \ {i}
          /\ \A j \in Instance : j # i => (Leads(j)' <=> Leads(j))
      BY <2>6 DEF GoDown, Leads
    <3>2. L' = L \ {i}
      BY <3>1, LeadersChange
    <3>3. MutexOfJobs!Crash(i)
      BY <2>0, <3>1, <3>2 DEF MutexOfJobs!Crash
    <3>4. QED
      BY <3>3 DEF MutexOfJobs!Next
  <2>7. ASSUME UNCHANGED <<cronOn, working, holders>> PROVE UNCHANGED MutexOfJobs!vars
    <3>1. L' = L
      BY <2>7 DEF Leads
    <3>2. QED
      BY <2>0, <2>7, <3>1 DEF MutexOfJobs!vars
  <2>8. ASSUME NEW i \in Instance, Boot(i) PROVE UNCHANGED MutexOfJobs!vars
    BY <2>7, <2>8 DEF Boot
  <2>9. CASE UNCHANGED watchVars \/ Expire
    BY <2>7, <2>9 DEF watchVars, Expire
  <2>10. \/ UNCHANGED watchVars \/ Expire
         \/ \E i \in Instance : \/ Acquire(i) \/ StartCron(i) \/ JobStarts(i) \/ JobEnds(i)
                                \/ Stop(i) \/ Release(i) \/ GoDown(i) \/ Boot(i)
    BY <1>4 DEF Next, vars, AcquireFails, ReleaseTooEarly, Tick, RenewLease, Exit, Kill
  <2>11. QED
    BY <2>1, <2>2, <2>3, <2>4, <2>5, <2>6, <2>8, <2>9, <2>10
<1>5. QED
  BY <1>2, <1>3, <1>4

\* Seen from outside, the processes share a mutex until it is breached: nobody gets it
\* before its holder has unlocked or died, and cron jobs run only within.
THEOREM WatchImplementsMutex == Spec => MutexSpec
<1>1. Init => MutexOfJobs!Init
  BY DEF Init, MutexOfJobs!Init, Leads
<1>2. TypeOK /\ IInv /\ [Next]_vars => [MutexOfJobs!Next]_(MutexOfJobs!vars)
  BY MutexStep
<1>3. QED
  BY <1>1, <1>2, TypeCorrect, LeaseIsHeld, PTL DEF Spec, MutexSpec, MutexOfJobs!Spec
=============================================================================
