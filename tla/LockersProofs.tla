---------------------------- MODULE LockersProofs ----------------------------
(***************************************************************************)
(* Proofs about Lockers, for every set of processes and every number of    *)
(* crashes.                                                                *)
(***************************************************************************)
EXTENDS Lockers, TLAPS

\* Every step of a locker, a process or the store keeps the types.
LEMMA TypeStep == TypeOK /\ [Next]_vars => TypeOK'
<1> SUFFICES ASSUME TypeOK, [Next]_vars PROVE TypeOK'
  OBVIOUS
<1> USE LockersAssumption DEF TypeOK
<1>1. ASSUME NEW i \in Instance, Stored(i) PROVE entries' \subseteq Instance
  BY <1>1 DEF Stored, CreateKey, PutKey, CreateNode, DoNothing
<1>2. ASSUME NEW i \in Instance, LockSucceeds(i) PROVE TypeOK'
  BY <1>1, <1>2 DEF LockSucceeds
<1>3. ASSUME NEW i \in Instance, LockFindsOwn(i) PROVE TypeOK'
  BY <1>3 DEF LockFindsOwn, lockVars
<1>4. ASSUME NEW i \in Instance, LockFails(i) PROVE TypeOK'
  BY <1>1, <1>4 DEF LockFails, lockVars
<1>5. ASSUME NEW i \in Instance, StopRenewing(i)
      PROVE  ticker' \in [Instance -> BOOLEAN]
             /\ renewers' \in [Instance -> SUBSET {"current", "fired"}]
  BY <1>5 DEF StopRenewing
<1>6. ASSUME NEW i \in Instance, UnlockSucceeds(i) \/ UnlockFails(i) PROVE TypeOK'
  BY <1>5, <1>6 DEF UnlockSucceeds, UnlockFails, Deleted
<1>7. ASSUME NEW i \in Instance, WantAgain(i) \/ Boot(i) PROVE TypeOK'
  BY <1>7 DEF WantAgain, Boot, lockVars
<1>8. ASSUME NEW i \in Instance, TickerFires(i) PROVE TypeOK'
  BY <1>8 DEF TickerFires
<1>9. ASSUME NEW i \in Instance, GoDown(i)
      PROVE  /\ state' \in [Instance -> {"waiting", "holding", "done", "down"}]
             /\ ticker' \in [Instance -> BOOLEAN] /\ named' \in [Instance -> BOOLEAN]
             /\ renewers' \in [Instance -> SUBSET {"current", "fired"}]
  BY <1>9 DEF GoDown
<1>10. ASSUME NEW i \in Instance, Renew(i) PROVE TypeOK'
  <2>1. entries' \subseteq Instance
    BY <1>10 DEF Renew, Renewed
  <2>2. CASE ticker[i]
    BY <1>10, <2>1, <2>2 DEF Renew
  <2>3. CASE ~ticker[i]
    BY <1>9, <1>10, <2>1, <2>3 DEF Renew
  <2>4. QED
    BY <2>2, <2>3
<1>11. ASSUME NEW i \in Instance, LeaseExpires(i) PROVE TypeOK'
  BY <1>11 DEF LeaseExpires, lockVars
<1>12. ASSUME NEW i \in Instance, Crash(i) PROVE TypeOK'
  <2>1. crashes' \in 0..MaxCrashes
    BY <1>12 DEF Crash
  <2>2. QED
    BY <1>9, <1>12, <2>1 DEF Crash
<1>13. CASE UNCHANGED vars
  BY <1>13 DEF vars, lockVars
<1>14. QED
  BY <1>2, <1>3, <1>4, <1>6, <1>7, <1>8, <1>10, <1>11, <1>12, <1>13 DEF Next

\* Every reachable state of every backend is well typed.
THEOREM TypeCorrect == Spec => []TypeOK
<1>1. Init => TypeOK
  <2> SUFFICES ASSUME Init PROVE TypeOK
    OBVIOUS
  <2>1. renewers \in [Instance -> SUBSET {"current", "fired"}]
    BY DEF Init
  <2>2. state \in [Instance -> {"waiting", "holding", "done", "down"}]
    BY DEF Init
  <2>3. named \in [Instance -> BOOLEAN] /\ ticker \in [Instance -> BOOLEAN]
    BY DEF Init
  <2>4. crashes \in 0..MaxCrashes
    BY LockersAssumption DEF Init
  <2>5. backend \in Backend /\ entries \subseteq Instance /\ reentered \in BOOLEAN
    BY DEF Init
  <2>6. QED
    BY <2>1, <2>2, <2>3, <2>4, <2>5 DEF TypeOK
<1>2. QED
  BY <1>1, TypeStep, PTL DEF Spec

-----------------------------------------------------------------------------
(***************************************************************************)
(* Exclusion and renewal hold each other up: a second process gets the     *)
(* lock only when the key is gone, the key goes only with a holder's       *)
(* Unlock or when nobody renews, and a holder is renewed as long as nobody *)
(* else's Unlock takes the key.                                            *)
(***************************************************************************)
LockInv == ExclusiveUnlessReentered /\ HolderIsRenewed

\* Every step keeps exclusion and renewal together.
LEMMA LockStep == TypeOK /\ LockInv /\ [Next]_vars => LockInv'
<1> SUFFICES ASSUME TypeOK, LockInv, [Next]_vars,
                    RenewalsOnTime, backend' \in Exclusive, ~reentered'
             PROVE  LockInv'
  BY DEF LockInv, ExclusiveUnlessReentered, HolderIsRenewed
<1>1. backend' = backend /\ ~reentered
  BY DEF Next, LockSucceeds, LockFindsOwn, LockFails, UnlockSucceeds, UnlockFails, WantAgain,
         TickerFires, Renew, LeaseExpires, Crash, Boot, vars
<1>2. \A i, j \in Instance : Holds(i) /\ Holds(j) => i = j
  BY <1>1 DEF LockInv, ExclusiveUnlessReentered
<1>3. \A i \in Instance : Holds(i) => entries # {} /\ ticker[i] /\ renewers[i] # {}
  BY <1>1 DEF LockInv, HolderIsRenewed
<1> DEFINE Kept ==
               /\ \A i, j \in Instance : Holds(i)' /\ Holds(j)' => i = j
               /\ \A i \in Instance : Holds(i)' => (entries # {} /\ ticker[i] /\ renewers[i] # {})'
<1>4. SUFFICES Kept
  BY DEF LockInv, ExclusiveUnlessReentered, HolderIsRenewed
<1> USE DEF TypeOK, Holds
<1>5. ASSUME NEW i \in Instance, LockSucceeds(i) PROVE Kept
  <2>1. entries = {} /\ entries' = {i}
    BY <1>1, <1>5 DEF LockSucceeds, Stored, CreateKey, PutKey, CreateNode, DoNothing, Exclusive
  <2>2. \A j \in Instance : ~Holds(j)
    BY <1>3, <2>1
  <2>3. QED
    BY <1>5, <2>1, <2>2 DEF LockSucceeds
<1>6. ASSUME NEW i \in Instance, LockFails(i) PROVE Kept
  <2>1. entries' # {}
    BY <1>1, <1>6 DEF LockFails, Stored, CreateKey, PutKey, CreateNode, DoNothing, Exclusive
  <2>2. QED
    BY <1>2, <1>3, <1>6, <2>1 DEF LockFails, lockVars
<1>7. ASSUME NEW i \in Instance, UnlockSucceeds(i) \/ UnlockFails(i) PROVE Kept
  <2>1. \A j \in Instance : ~Holds(j)'
    BY <1>2, <1>7 DEF UnlockSucceeds, UnlockFails
  <2>2. QED
    BY <2>1
<1>8. ASSUME NEW i \in Instance, WantAgain(i) \/ Boot(i) PROVE Kept
  BY <1>2, <1>3, <1>8 DEF WantAgain, Boot, lockVars
<1>9. ASSUME NEW i \in Instance, TickerFires(i) PROVE Kept
  BY <1>2, <1>3, <1>9 DEF TickerFires
<1>10. ASSUME NEW i \in Instance, Renew(i) PROVE Kept
  <2>1. entries # {} => entries' # {}
    BY <1>10 DEF Renew, Renewed
  <2>2. CASE ticker[i]
    BY <1>2, <1>3, <1>10, <2>1, <2>2 DEF Renew
  <2>3. CASE ~ticker[i]
    BY <1>2, <1>3, <1>10, <2>1, <2>3 DEF Renew, GoDown
  <2>4. QED
    BY <2>2, <2>3
<1>11. ASSUME NEW o \in Instance, LeaseExpires(o) PROVE Kept
  <2>1. \A j \in Instance : renewers[j] = {}
    BY <1>1, <1>11 DEF LeaseExpires, Renewing, Exclusive
  <2>2. QED
    BY <1>3, <1>11, <2>1 DEF LeaseExpires
<1>12. ASSUME NEW i \in Instance, Crash(i) PROVE Kept
  BY <1>2, <1>3, <1>12 DEF Crash, GoDown
<1>13. CASE UNCHANGED vars
  BY <1>2, <1>3, <1>13 DEF vars, lockVars
<1>14. ASSUME NEW i \in Instance, LockFindsOwn(i) PROVE FALSE
  BY <1>14 DEF LockFindsOwn
<1>15. QED
  BY <1>5, <1>6, <1>7, <1>8, <1>9, <1>10, <1>11, <1>12, <1>13, <1>14 DEF Next

\* Exclusion and renewal hold whenever they are due.
LEMMA LockInvHolds == Spec => []LockInv
<1>1. Init => LockInv
  BY DEF Init, LockInv, ExclusiveUnlessReentered, HolderIsRenewed, Holds
<1>2. QED
  BY <1>1, LockStep, TypeCorrect, PTL DEF Spec

\* With memcached, and with Redis until a process finds its own key, at most one process
\* holds the lock, whatever crashes, is lost or comes late, as long as leases are renewed.
THEOREM LocksExclude == Spec => []ExclusiveUnlessReentered
BY LockInvHolds, PTL DEF LockInv

\* There, a holder has the key and a live renewing goroutine until it unlocks or crashes.
THEOREM HoldersAreRenewed == Spec => []HolderIsRenewed
BY LockInvHolds, PTL DEF LockInv

-----------------------------------------------------------------------------
(***************************************************************************)
(* Where a locker excludes, it implements the abstract mutex.              *)
(***************************************************************************)

\* Every step is one process's: nobody else's belief changes.
LEMMA OneAtATime ==
    ASSUME TypeOK, [Next]_vars, Instance # {}
    PROVE  \E i \in Instance : \A j \in Instance : j # i => state'[j] = state[j]
<1>1. ASSUME NEW i \in Instance,
             \/ LockSucceeds(i) \/ LockFindsOwn(i) \/ LockFails(i) \/ UnlockSucceeds(i)
             \/ UnlockFails(i) \/ WantAgain(i) \/ TickerFires(i) \/ LeaseExpires(i)
             \/ Crash(i) \/ Boot(i) \/ Renew(i)
      PROVE  \A j \in Instance : j # i => state'[j] = state[j]
  BY <1>1 DEF TypeOK, LockSucceeds, LockFindsOwn, LockFails, UnlockSucceeds, UnlockFails,
              WantAgain, TickerFires, LeaseExpires, Crash, Boot, Renew, GoDown
<1>2. CASE UNCHANGED vars
  BY <1>2 DEF vars
<1>3. QED
  BY <1>1, <1>2 DEF Next

\* Every step of a locker is a step of the mutex or leaves its variables alone.
LEMMA PromiseStep ==
    TypeOK /\ LockInv /\ LockInv' /\ [Next]_vars
        => [LockerPromise!Next]_(LockerPromise!vars)
<1> SUFFICES ASSUME TypeOK, LockInv, LockInv', [Next]_vars
             PROVE  [LockerPromise!Next]_(LockerPromise!vars)
  OBVIOUS
<1> DEFINE Owed == RenewalsOnTime /\ backend \in Exclusive /\ ~reentered
           H == IF Owed THEN {i \in Instance : Holds(i)} ELSE {}
<1>1. Owed' => Owed
  BY DEF Next, LockSucceeds, LockFindsOwn, LockFails, UnlockSucceeds, UnlockFails, WantAgain,
         TickerFires, Renew, LeaseExpires, Crash, Boot, vars
<1>2. \A i, j \in H : i = j
  BY DEF LockInv, ExclusiveUnlessReentered
<1>3. \A i, j \in H' : i = j
  BY DEF LockInv, ExclusiveUnlessReentered
<1>4. H \subseteq Instance /\ H' \subseteq Instance
  OBVIOUS
<1>5. ASSUME NEW i \in H, NEW j \in H' PROVE i = j
  <2>1. Owed /\ Owed' /\ Holds(i) /\ Holds(j)' /\ i \in Instance /\ j \in Instance
    BY <1>1, <1>5
  <2>2. PICK k \in Instance : \A m \in Instance : m # k => state'[m] = state[m]
    BY <2>1, OneAtATime
  <2>3. SUFFICES ASSUME i # j PROVE FALSE
    OBVIOUS
  <2>4. ~Holds(i)' /\ ~Holds(j)
    BY <1>2, <1>3, <2>1, <2>3
  <2>5. state'[i] # state[i] /\ state'[j] # state[j]
    BY <2>1, <2>4 DEF Holds
  <2>6. QED
    BY <2>1, <2>2, <2>3, <2>5
<1>6. CASE H' = H
  BY <1>6 DEF LockerPromise!vars
<1>7. CASE H' # H /\ H = {}
  <2>1. PICK i \in H' : TRUE
    BY <1>7
  <2>2. H' = {i}
    BY <1>3, <2>1
  <2>3. LockerPromise!Lock(i)
    BY <1>7, <2>2 DEF LockerPromise!Lock
  <2>4. QED
    BY <1>4, <2>1, <2>3 DEF LockerPromise!Next
<1>8. CASE H' # H /\ H # {}
  <2>1. PICK i \in H : TRUE
    BY <1>8
  <2>2. H = {i} /\ H' = {}
    BY <1>2, <1>5, <1>8, <2>1
  <2>3. LockerPromise!Unlock(i)
    BY <2>2 DEF LockerPromise!Unlock
  <2>4. QED
    BY <1>4, <2>1, <2>3 DEF LockerPromise!Next
<1>9. QED
  BY <1>6, <1>7, <1>8

\* Redis and memcached give what Locker promises, step by step: the lock goes from one
\* process to another only by way of nobody, until a process finds its own key.
THEOREM LockersImplementMutex == Spec => LockerSpec
<1>1. Init => LockerPromise!Init
  BY DEF Init, LockerPromise!Init, Holds
<1>2. QED
  BY <1>1, PromiseStep, TypeCorrect, LockInvHolds, PTL
     DEF Spec, LockerSpec, LockerPromise!Spec
=============================================================================
