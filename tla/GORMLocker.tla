----------------------------- MODULE GORMLocker -----------------------------
(***************************************************************************)
(* The database lock of onexstack/pkg/distlock (gorm.go): one row per lock *)
(* name with an owner and an expiry time, and in every process a locker    *)
(* whose renewLock goroutines extend the lease.  Each method holds the     *)
(* locker's own mutex and makes one statement or transaction, so it is one *)
(* step; the actions below say what it does to the row and to the process  *)
(* that calls it, and Watch says who calls it.                             *)
(*                                                                         *)
(* ExpiredAt is abstracted to whether it has passed.  The WHERE clauses of *)
(* Renew and Unlock name the lock and not its owner.                       *)
(***************************************************************************)
EXTENDS Naturals, FiniteSets

CONSTANTS
    Instance,           \* processes that share the database
    NoOwner,            \* the owner when there is no row
    DetectsDuplicates,  \* isDuplicateEntry knows the duplicate-key error and the
                        \* transaction goes on (MySQL); SQLite's it does not know
    RenewalsOnTime      \* a live renewLock renews before the lease is up

ASSUME LockerAssumption ==
    NoOwner \notin Instance /\ DetectsDuplicates \in BOOLEAN /\ RenewalsOnTime \in BOOLEAN

VARIABLES
    owner,     \* OwnerID of the row
    expired,   \* whether its ExpiredAt has passed
    ticker,    \* whether each locker's renewTicker is set
    renewers   \* what the renewLock goroutines of each process wait for:
               \* the current ticker, one an earlier Lock made, or (having
               \* received a tick) the mutex

lockerVars == <<owner, expired, ticker, renewers>>

Renewer == {"current", "earlier", "fired"}

LockerTypeOK ==
    /\ owner \in Instance \union {NoOwner}
    /\ expired \in BOOLEAN
    /\ ticker \in [Instance -> BOOLEAN]
    /\ renewers \in [Instance -> SUBSET Renewer]

LockerInit ==
    /\ owner = NoOwner /\ expired = FALSE
    /\ ticker = [i \in Instance |-> FALSE]
    /\ renewers = [i \in Instance |-> {}]

\* Seeded fault: an expired row is never taken over.
ObtainableWhenFree == owner = NoOwner

\* The row Create can insert, or the expired one it can take over once the
\* duplicate key has been told from other errors.
Obtainable == owner = NoOwner \/ (expired /\ DetectsDuplicates)

\* The end of Lock's transaction: a new ticker and a goroutine for it.
StartRenewing(i) ==
    /\ ticker' = [ticker EXCEPT ![i] = TRUE]
    /\ renewers' = [renewers EXCEPT ![i] =
                        {"current"} \union
                        {IF r = "current" THEN "earlier" ELSE r : r \in @}]

\* Seeded fault: Lock does not look at ExpiredAt.
LockSucceedsEarly(i) ==
    /\ DetectsDuplicates
    /\ owner' = i /\ expired' = FALSE
    /\ StartRenewing(i)

LockSucceeds(i) ==
    /\ Obtainable
    /\ owner' = i /\ expired' = FALSE
    /\ StartRenewing(i)

\* The goroutine is started inside the transaction: it stays when the
\* commit fails, the row is rolled back and Lock returns an error.
LockFailsToCommit(i) ==
    /\ Obtainable
    /\ StartRenewing(i)
    /\ UNCHANGED <<owner, expired>>

\* Both outcomes of the DELETE; the ticker is stopped before it, and whoever
\* waited for the current ticker waits for ever.
Unlock(i) ==
    /\ ticker' = [ticker EXCEPT ![i] = FALSE]
    /\ renewers' = [renewers EXCEPT ![i] = @ \ {"current"}]
    /\ \/ owner' = NoOwner /\ expired' = FALSE
       \/ UNCHANGED <<owner, expired>>

TickerFires(i) ==
    \E r \in renewers[i] \ {"fired"} :
        /\ renewers' = [renewers EXCEPT ![i] = (@ \ {r}) \union {"fired"}]
        /\ UNCHANGED <<owner, expired, ticker>>

\* Renew extends whatever row there is.  The goroutine then evaluates
\* l.renewTicker again, which an Unlock may have set to nil.
Renew(i) ==
    /\ "fired" \in renewers[i]
    /\ expired' = FALSE
    /\ renewers' = [renewers EXCEPT ![i] =
                        IF ticker[i] THEN (@ \ {"fired"}) \union {"current"} ELSE {}]
    /\ UNCHANGED <<owner, ticker>>

\* The lease runs out.
LeaseExpires ==
    /\ owner # NoOwner /\ ~expired
    /\ RenewalsOnTime => \A i \in Instance : renewers[i] = {}
    /\ expired' = TRUE
    /\ UNCHANGED <<owner, ticker, renewers>>

\* The process ends, and its goroutines with it; the row stays.
Vanish(i) ==
    /\ ticker' = [ticker EXCEPT ![i] = FALSE]
    /\ renewers' = [renewers EXCEPT ![i] = {}]
    /\ UNCHANGED <<owner, expired>>
=============================================================================
