------------------------------- MODULE Lockers -------------------------------
(***************************************************************************)
(* The locks of onexstack/pkg/distlock that do not live in a database:     *)
(* Redis, memcached, etcd, consul, ZooKeeper, MongoDB and the one that     *)
(* does nothing, and processes that use one of them as the interface       *)
(* Locker says: Lock until it succeeds, Unlock afterwards.  The backend is *)
(* chosen once.  Calls may fail before or behind their effect, processes   *)
(* may crash and come back.                                                *)
(*                                                                         *)
(* A method holds its locker's mutex and makes one call that changes the   *)
(* store, so it is one step.  The renewing goroutines are GORMLocker's.    *)
(***************************************************************************)
EXTENDS Naturals, FiniteSets

CONSTANTS
    Instance,        \* processes; each has an owner ID of its own
    RenewalsOnTime,  \* a live renewLock renews before the lease is up
    MaxCrashes       \* bound: how many processes crash in all

ASSUME LockersAssumption == RenewalsOnTime \in BOOLEAN /\ MaxCrashes \in Nat

VARIABLES
    backend,    \* the kind of lock
    entries,    \* owner IDs in the store: the value of the one key, or for ZooKeeper
                \* the nodes below the lock's path
    state,      \* what each process believes: waiting for the lock, holding it,
                \* unlocked it, or down
    named,      \* whether the locker still has its ownerID
    ticker,     \* whether renewTicker is set
    renewers,   \* what the renewLock goroutines wait for: the current ticker or, having
                \* received a tick, the mutex
    reentered,  \* history: whether a Lock has ever succeeded on finding its own key
    crashes     \* how many processes have crashed

lockVars == <<ticker, renewers, named>>
vars == <<backend, entries, state, lockVars, reentered, crashes>>

Backend == {"redis", "memcached", "etcd", "consul", "zookeeper", "mongo", "noop"}

\* One key, whose creation fails when it is there.
Exclusive == {"redis", "memcached"}

\* Seeded fault: memcached is given a fraction of a second, 0, which means for ever.
ExpiringButMemcached == {"redis", "etcd"}

Expiring == {"redis", "memcached", "etcd"}

TypeOK ==
    /\ backend \in Backend
    /\ entries \subseteq Instance
    /\ state \in [Instance -> {"waiting", "holding", "done", "down"}]
    /\ named \in [Instance -> BOOLEAN]
    /\ ticker \in [Instance -> BOOLEAN]
    /\ renewers \in [Instance -> SUBSET {"current", "fired"}]
    /\ reentered \in BOOLEAN
    /\ crashes \in 0..MaxCrashes

Init ==
    /\ backend \in Backend
    /\ entries = {}
    /\ state = [i \in Instance |-> "waiting"]
    /\ named = [i \in Instance |-> TRUE]
    /\ ticker = [i \in Instance |-> FALSE]
    /\ renewers = [i \in Instance |-> {}]
    /\ reentered = FALSE /\ crashes = 0

-----------------------------------------------------------------------------
(* The calls on the store that Lock makes. *)

\* Seeded fault: SET without NX.
SetKey(i) == backend \in Exclusive /\ entries' = {i}

\* SET NX and memcached's Add.
CreateKey(i) ==
    /\ backend \in Exclusive /\ entries = {}
    /\ entries' = {i}

\* etcd's Put with a new lease, consul's Put of a pair that names a session.
PutKey(i) ==
    /\ backend \in {"etcd", "consul"}
    /\ entries' = {i}

\* The path of the node ends in the owner ID, and is not a path without one.
CreateNode(i) ==
    /\ backend = "zookeeper" /\ named[i] /\ i \notin entries
    /\ entries' = entries \union {i}

DoNothing == backend = "noop" /\ UNCHANGED entries

Stored(i) == CreateKey(i) \/ PutKey(i) \/ CreateNode(i) \/ DoNothing

LockSucceeds(i) ==
    /\ state[i] = "waiting" /\ Stored(i)
    /\ state' = [state EXCEPT ![i] = "holding"]
    /\ ticker' = [ticker EXCEPT ![i] = TRUE]
    /\ renewers' = [renewers EXCEPT ![i] = @ \union {"current"}]
    /\ UNCHANGED <<backend, named, reentered, crashes>>

\* Redis: the key has this owner's name.  No ticker is made and no goroutine started.
LockFindsOwn(i) ==
    /\ state[i] = "waiting" /\ backend = "redis" /\ entries = {i}
    /\ state' = [state EXCEPT ![i] = "holding"]
    /\ reentered' = TRUE
    /\ UNCHANGED <<backend, entries, lockVars, crashes>>

\* The store has done its part, and the answer is lost.  (Every other failure of Lock
\* leaves all as it was; MongoDB's always does: it rejects an update that names a field
\* in $set and in $setOnInsert.)
LockFails(i) ==
    /\ state[i] = "waiting" /\ backend # "noop" /\ Stored(i)
    /\ UNCHANGED <<backend, state, lockVars, reentered, crashes>>

-----------------------------------------------------------------------------
StopRenewing(i) ==
    /\ ticker' = [ticker EXCEPT ![i] = FALSE]
    /\ renewers' = [renewers EXCEPT ![i] = @ \ {"current"}]

\* Seeded fault: the key is set to no owner, and stays.
Emptied(i) == IF backend = "zookeeper" THEN entries \ {i} ELSE {""}

\* The key whoever owns it; the node of this owner.
Deleted(i) == IF backend = "zookeeper" THEN entries \ {i} ELSE {}

UnlockSucceeds(i) ==
    /\ state[i] = "holding"
    /\ StopRenewing(i)
    /\ entries' = Deleted(i)
    /\ named' = [named EXCEPT ![i] = backend \notin {"zookeeper", "noop"}]
    /\ state' = [state EXCEPT ![i] = "done"]
    /\ UNCHANGED <<backend, reentered, crashes>>

\* The call on the store fails, before its effect or behind it.
UnlockFails(i) ==
    /\ state[i] = "holding" /\ backend # "noop"
    /\ StopRenewing(i)
    /\ entries' \in {entries, Deleted(i)}
    /\ state' = [state EXCEPT ![i] = "done"]
    /\ UNCHANGED <<backend, named, reentered, crashes>>

\* A process that has unlocked may want the lock again.
WantAgain(i) ==
    /\ state[i] = "done"
    /\ state' = [state EXCEPT ![i] = "waiting"]
    /\ UNCHANGED <<backend, entries, lockVars, reentered, crashes>>

-----------------------------------------------------------------------------
(* Renewal, and the end of a lease. *)

TickerFires(i) ==
    /\ "current" \in renewers[i]
    /\ renewers' = [renewers EXCEPT ![i] = (@ \ {"current"}) \union {"fired"}]
    /\ UNCHANGED <<backend, entries, state, ticker, named, reentered, crashes>>

GoDown(i) ==
    /\ state' = [state EXCEPT ![i] = "down"]
    /\ ticker' = [ticker EXCEPT ![i] = FALSE]
    /\ renewers' = [renewers EXCEPT ![i] = {}]
    /\ named' = [named EXCEPT ![i] = TRUE]

\* memcached's Replace puts this owner's name into whatever key there is; the others
\* extend a lease, or do nothing.
Renewed(i) == IF backend = "memcached" /\ entries # {} THEN {i} ELSE entries

\* Seeded fault: the goroutine returns when it has renewed once.
RenewOnce(i) ==
    /\ "fired" \in renewers[i]
    /\ entries' = Renewed(i)
    /\ renewers' = [renewers EXCEPT ![i] = @ \ {"fired"}]
    /\ UNCHANGED <<backend, state, ticker, named, reentered, crashes>>

\* The goroutine then evaluates renewTicker.C again: it panics, and the process with it,
\* when Unlock has set the ticker to nil.
Renew(i) ==
    /\ "fired" \in renewers[i]
    /\ entries' = Renewed(i)
    /\ IF ticker[i]
         THEN /\ renewers' = [renewers EXCEPT ![i] = (@ \ {"fired"}) \union {"current"}]
              /\ UNCHANGED <<state, ticker, named>>
         ELSE GoDown(i)
    /\ UNCHANGED <<backend, reentered, crashes>>

\* Whose renewals extend the lease of o's key: anybody's, except for etcd, where the
\* lease is o's own.
Renewing(o) ==
    IF backend = "etcd" THEN renewers[o] # {} ELSE \E i \in Instance : renewers[i] # {}

LeaseExpires(o) ==
    /\ o \in entries /\ backend \in Expiring
    /\ RenewalsOnTime => ~Renewing(o)
    /\ entries' = entries \ {o}
    /\ UNCHANGED <<backend, state, lockVars, reentered, crashes>>

Crash(i) ==
    /\ state[i] # "down" /\ crashes < MaxCrashes
    /\ GoDown(i)
    /\ crashes' = crashes + 1
    /\ UNCHANGED <<backend, entries, reentered>>

Boot(i) ==
    /\ state[i] = "down"
    /\ state' = [state EXCEPT ![i] = "waiting"]
    /\ UNCHANGED <<backend, entries, lockVars, reentered, crashes>>

-----------------------------------------------------------------------------
Next ==
    \E i \in Instance :
        \/ LockSucceeds(i)
        \/ LockFindsOwn(i)
        \/ LockFails(i)
        \/ UnlockSucceeds(i)
        \/ UnlockFails(i)
        \/ WantAgain(i)
        \/ TickerFires(i)
        \/ Renew(i)
        \/ LeaseExpires(i)
        \/ Crash(i)
        \/ Boot(i)

Spec == Init /\ [][Next]_vars

\* A process that waits tries again and again, and its calls do not all fail; tickers
\* tick, goroutines run and leases end.
Fairness ==
    \A i \in Instance :
        /\ SF_vars(LockSucceeds(i)) /\ WF_vars(LockFindsOwn(i))
        /\ WF_vars(TickerFires(i)) /\ WF_vars(Renew(i)) /\ WF_vars(LeaseExpires(i))

FairSpec == Spec /\ Fairness

-----------------------------------------------------------------------------
(* Properties. *)

Holds(i) == state[i] = "holding"

\* Locker promises a lock.  Only the backends whose creation of the key can fail give
\* one, and Redis until a Lock finds the key of its own process: nobody renews that one,
\* and its Unlock deletes whatever key there is by then.
ExclusiveUnlessReentered ==
    RenewalsOnTime /\ backend \in Exclusive /\ ~reentered =>
        \A i, j \in Instance : Holds(i) /\ Holds(j) => i = j

\* Until a Lock finds the key of its own process, and with renewals in time, whoever holds
\* the lock of a backend that excludes has a key in the store and a goroutine that renews
\* it: no late renewal, unlocking or expiry of another process takes it away.
HolderIsRenewed ==
    RenewalsOnTime /\ backend \in Exclusive /\ ~reentered =>
        \A i \in Instance : Holds(i) => entries # {} /\ ticker[i] /\ renewers[i] # {}

\* Where the promise of Locker is kept at all, it is kept step by step: the lock goes from
\* one process to another only by way of nobody, through an Unlock or a crash.  It ends
\* with the first Lock that finds its own key.
LockerPromise ==
    INSTANCE Mutex WITH
        Client <- Instance,
        holders <- IF RenewalsOnTime /\ backend \in Exclusive /\ ~reentered
                     THEN {i \in Instance : Holds(i)} ELSE {},
        inside <- {}
LockerSpec == LockerPromise!Spec

\* However processes crashed and calls failed, a process that waits gets the lock unless
\* somebody has it, from a locker that is still of use: MongoDB's never is, and
\* ZooKeeper's neither is after an Unlock nor for a process that left its node behind.
LockIsPassedOn ==
    backend \notin {"mongo", "zookeeper"} =>
        \A i \in Instance :
            state[i] = "waiting" ~> (state[i] = "down" \/ \E j \in Instance : Holds(j))
=============================================================================
