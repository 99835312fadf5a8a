------------------------------- MODULE Mutex -------------------------------
(***************************************************************************)
(* What the interface Locker promises (onexstack/pkg/distlock,             *)
(* distlock.go): one client at a time has the lock, from Lock to Unlock,   *)
(* and does there what others must not do at the same time.  Clients may   *)
(* crash, and the lock is then free again.  There is no store, no lease    *)
(* and no renewal.                                                         *)
(***************************************************************************)
CONSTANT Client

VARIABLES holders,   \* who has the lock
          inside     \* who does what the lock is for

vars == <<holders, inside>>

Init == holders = {} /\ inside = {}

Lock(i) ==
    /\ holders = {}
    /\ holders' = {i}
    /\ UNCHANGED inside

Enter(i) ==
    /\ i \in holders
    /\ inside' = inside \union {i}
    /\ UNCHANGED holders

Leave(i) ==
    /\ inside' = inside \ {i}
    /\ UNCHANGED holders

Unlock(i) ==
    /\ i \notin inside
    /\ holders' = holders \ {i}
    /\ UNCHANGED inside

Crash(i) ==
    /\ holders' = holders \ {i}
    /\ inside' = inside \ {i}

Next == \E i \in Client : Lock(i) \/ Enter(i) \/ Leave(i) \/ Unlock(i) \/ Crash(i)

Spec == Init /\ [][Next]_vars
=============================================================================
