-------------------------------- MODULE Watch --------------------------------
(***************************************************************************)
(* The watch server (onexstack/pkg/watch, watch.go) as nightwatch runs it  *)
(* (server.go, Run): every process waits for the lock in a goroutine of    *)
(* its own, starts the cron scheduler once it has it, and on a signal      *)
(* stops the scheduler, waits for the running jobs and unlocks.            *)
(*                                                                         *)
(* Four things the code does not exclude take the lock from its holder: a  *)
(* lease that is not renewed in time, a process that is stopped while it   *)
(* waits for the lock, jobs that outlive jobStopTimeout, and a scheduler   *)
(* that is started behind the stop.  When one of them has done so the lock *)
(* is "breached", and what it is worth is said of the time before.  Three  *)
(* constants let a run leave them out.                                     *)
(***************************************************************************)
EXTENDS GORMLocker

CONSTANTS
    StandbyStops,   \* a process may get its signal before it has the lock
    JobsOutlive,    \* jobs may run longer than jobStopTimeout
    MaxBoots        \* bound: how often processes are started, in all

ASSUME WatchAssumption ==
    StandbyStops \in BOOLEAN /\ JobsOutlive \in BOOLEAN /\ MaxBoots \in Nat \ {0}

VARIABLES
    main,      \* Run: down, up, draining (in Watch.Stop), exiting (after it)
    starter,   \* the goroutine of Watch.Start: none, waiting, locked, started
    cronOn,    \* whether the cron scheduler runs
    working,   \* whether a job runs
    boots,     \* number of processes started so far
    holders,   \* history: the processes between their Lock and their Unlock
    breached   \* history: whether a holder has ever been deprived of the lock

process == <<main, starter, cronOn, working, boots>>
history == <<holders, breached>>
watchVars == <<process, history>>
vars == <<lockerVars, watchVars>>

TypeOK ==
    /\ LockerTypeOK
    /\ main \in [Instance -> {"down", "up", "draining", "exiting"}]
    /\ starter \in [Instance -> {"none", "waiting", "locked", "started"}]
    /\ cronOn \in [Instance -> BOOLEAN]
    /\ working \in [Instance -> BOOLEAN]
    /\ boots \in Nat
    /\ holders \in SUBSET Instance /\ breached \in BOOLEAN

Init ==
    /\ LockerInit
    /\ main = [i \in Instance |-> "down"]
    /\ starter = [i \in Instance |-> "none"]
    /\ cronOn = [i \in Instance |-> FALSE]
    /\ working = [i \in Instance |-> FALSE]
    /\ boots = 0
    /\ holders = {} /\ breached = FALSE

Boot(i) ==
    /\ main[i] = "down" /\ boots < MaxBoots
    /\ main' = [main EXCEPT ![i] = "up"]
    /\ starter' = [starter EXCEPT ![i] = "waiting"]
    /\ boots' = boots + 1
    /\ UNCHANGED <<lockerVars, history, cronOn, working>>

-----------------------------------------------------------------------------
(* Watch.Start.  The loop does not look at its stop channel. *)

Acquire(i) ==
    /\ starter[i] = "waiting" /\ LockSucceeds(i)
    /\ starter' = [starter EXCEPT ![i] = "locked"]
    /\ holders' = holders \union {i}
    /\ UNCHANGED <<breached, main, cronOn, working, boots>>

\* Seeded fault: Start goes on when Lock has returned an error.
GoesOnWithout(i) ==
    /\ starter[i] = "waiting" /\ LockFailsToCommit(i)
    /\ starter' = [starter EXCEPT ![i] = "locked"]
    /\ UNCHANGED <<history, main, cronOn, working, boots>>

AcquireFails(i) ==
    /\ starter[i] = "waiting" /\ LockFailsToCommit(i)
    /\ UNCHANGED watchVars

\* The lock is breached when Stop has got ahead and has unlocked already.
StartCron(i) ==
    /\ starter[i] = "locked"
    /\ starter' = [starter EXCEPT ![i] = "started"]
    /\ cronOn' = [cronOn EXCEPT ![i] = TRUE]
    /\ breached' = (breached \/ (main[i] = "exiting" /\ i \notin holders))
    /\ UNCHANGED <<lockerVars, holders, main, working, boots>>

JobStarts(i) ==
    /\ cronOn[i] /\ ~working[i]
    /\ working' = [working EXCEPT ![i] = TRUE]
    /\ UNCHANGED <<lockerVars, history, main, starter, cronOn, boots>>

JobEnds(i) ==
    /\ working[i]
    /\ working' = [working EXCEPT ![i] = FALSE]
    /\ UNCHANGED <<lockerVars, history, main, starter, cronOn, boots>>

-----------------------------------------------------------------------------
(* Watch.Stop. *)

\* A process whose cron scheduler or jobs run.
Leads(i) == cronOn[i] \/ working[i]

\* jm.Stop: no further job starts, unless Start has yet to start the scheduler.
Stop(i) ==
    /\ main[i] = "up"
    /\ StandbyStops \/ starter[i] = "started"
    /\ main' = [main EXCEPT ![i] = "draining"]
    /\ cronOn' = [cronOn EXCEPT ![i] = FALSE]
    /\ UNCHANGED <<lockerVars, history, starter, working, boots>>

\* Unlock, which deletes the row whoever owns it.
UnlockAndExit(i) ==
    /\ main[i] = "draining"
    /\ Unlock(i)
    /\ main' = [main EXCEPT ![i] = "exiting"]
    /\ holders' = holders \ {i}
    /\ UNCHANGED <<starter, cronOn, working, boots>>

\* It breaches the lock when the row is that of another process that has it.
Deprives(i) == owner \in holders \ {i} /\ owner' # owner

\* Seeded fault: Stop unlocks without waiting for the jobs.
ReleaseAtOnce(i) ==
    /\ UnlockAndExit(i)
    /\ breached' = (breached \/ Deprives(i))

Release(i) ==
    /\ ~Leads(i)
    /\ UnlockAndExit(i)
    /\ breached' = (breached \/ Deprives(i))

\* jobStopTimeout is over and jobs still run, or Start has started the scheduler behind
\* jm.Stop, which waits for no job that starts later.
ReleaseTooEarly(i) ==
    /\ cronOn[i] \/ (working[i] /\ JobsOutlive)
    /\ UnlockAndExit(i)
    /\ breached' = TRUE

-----------------------------------------------------------------------------
(* The end of a process, and the goroutines that renew. *)

GoDown(i) ==
    /\ main' = [main EXCEPT ![i] = "down"]
    /\ starter' = [starter EXCEPT ![i] = "none"]
    /\ cronOn' = [cronOn EXCEPT ![i] = FALSE]
    /\ working' = [working EXCEPT ![i] = FALSE]
    /\ holders' = holders \ {i}
    /\ UNCHANGED <<breached, boots>>

\* Run returns after Stop.
Exit(i) ==
    /\ main[i] = "exiting"
    /\ Vanish(i) /\ GoDown(i)

\* The process is killed, or crashes, at any moment.
Kill(i) ==
    /\ main[i] \in {"up", "draining"}
    /\ Vanish(i) /\ GoDown(i)

Tick(i) == TickerFires(i) /\ UNCHANGED watchVars

\* A goroutine that finds no ticker after its Renew panics, and the process
\* with it.
RenewLease(i) ==
    /\ Renew(i)
    /\ IF ticker[i] THEN UNCHANGED watchVars ELSE GoDown(i)

\* A lease that runs out under its holder breaches the lock.
Expire ==
    /\ LeaseExpires
    /\ breached' = (breached \/ owner \in holders)
    /\ UNCHANGED <<process, holders>>

Next ==
    \/ Expire
    \/ \E i \in Instance :
           \/ Boot(i)
           \/ Acquire(i)
           \/ AcquireFails(i)
           \/ StartCron(i)
           \/ JobStarts(i)
           \/ JobEnds(i)
           \/ Stop(i)
           \/ Release(i)
           \/ ReleaseTooEarly(i)
           \/ Exit(i)
           \/ Kill(i)
           \/ Tick(i)
           \/ RenewLease(i)

Spec == Init /\ [][Next]_vars

(***************************************************************************)
(* Time passes, the loop of Start tries again every 15 seconds and its     *)
(* commits do not fail for ever, jobs end, goroutines run, and a process   *)
(* that got its signal goes on to its end.  Nobody is obliged to boot,     *)
(* signal or kill a process.                                               *)
(***************************************************************************)
Fairness ==
    /\ WF_vars(Expire)
    /\ \A i \in Instance :
           /\ WF_vars(Acquire(i)) /\ WF_vars(StartCron(i))
           /\ WF_vars(JobEnds(i)) /\ WF_vars(Exit(i))
           /\ WF_vars(Release(i) \/ ReleaseTooEarly(i))
           /\ WF_vars(Tick(i)) /\ WF_vars(RenewLease(i))

FairSpec == Spec /\ Fairness

-----------------------------------------------------------------------------
(* Properties. *)

\* What the lock is for: until it is breached, the cron jobs of one process run at a
\* time, whatever is killed, restarted or rolled back, and whoever is stopped.
OneLeader == ~breached => \A i, j \in Instance : Leads(i) /\ Leads(j) => i = j

\* The comment in Start, word by word: after Lock is successful, "no one else can
\* obtain the same lock (the same mutex name) until we unlock it", we being a
\* process that has not even been told to stop, and no one else another one.
NoOneElseObtains ==
    \A i, j \in {k \in Instance : main[k] = "up"} :
        starter[i] = "started" /\ starter[j] = "locked" => i = j

\* What a process believes between Lock and Unlock is what the database says:
\* the row is there, has its name, and is not expired, until the lock is breached.
\* Nothing in Watch looks at the row again after Lock has returned.
LeaseHeld == ~breached => \A i \in holders : owner = i /\ ~expired

\* Until it is breached, Watch.Start and Watch.Stop use the lock as a mutex: nobody gets
\* it before its holder has unlocked or died, cron jobs run only within, and Unlock comes
\* after the last one.
MutexOfJobs ==
    INSTANCE Mutex WITH
        Client <- Instance,
        holders <- IF breached THEN {} ELSE holders,
        inside <- IF breached THEN {} ELSE {i \in Instance : Leads(i)}
MutexSpec == MutexOfJobs!Spec

\* A renewLock goroutine of a process that waits for the lock: it was left by
\* a transaction that did not commit, and keeps another owner's lease alive.
Leaked(i) == starter[i] = "waiting" /\ renewers[i] # {}

\* A lock whose owner is gone does not block the others: while a process
\* waits, some process gets to run its cron jobs.
LockIsPassedOn ==
    \A i \in Instance :
        starter[i] = "waiting" ~>
            \/ \E j \in Instance : cronOn[j] \/ Leaked(j)
            \/ starter[i] # "waiting"

-----------------------------------------------------------------------------
(***************************************************************************)
(* The inductive invariant behind OneLeader and LeaseHeld.  The lease of a *)
(* process that holds the lock does not run out because one of its         *)
(* renewLock goroutines lives, and goes on living because its ticker is    *)
(* set; and nobody leads who does not hold the lock.                       *)
(***************************************************************************)
LeaseRenewed == \A i \in holders : ticker[i] /\ renewers[i] # {}

\* Where a process is that has the lock, or has not got it yet.
HoldersArePlaced ==
    \A i \in Instance :
        /\ starter[i] # "none" => main[i] # "down"
        /\ i \in holders => starter[i] \in {"locked", "started"}
        /\ main[i] # "exiting" /\ starter[i] \in {"locked", "started"} => i \in holders

LeadersHold == \A i \in Instance : Leads(i) => i \in holders

IInv ==
    /\ LeaseHeld /\ LeaseRenewed /\ HoldersArePlaced
    /\ ~breached => LeadersHold
=============================================================================
