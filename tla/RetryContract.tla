---------------------------- MODULE RetryContract ----------------------------
(***************************************************************************)
(* What the retry manager promises the callers of AddTask, with nothing    *)
(* said of queues, workers or locks: an accepted task is kept until one of *)
(* its callbacks has reported an outcome, or until one of its ID takes its *)
(* place or is done with, success is reported only of a task that ran, and *)
(* a task is given up only after MaxRetries runs.                          *)
(* More runs than that, and more than one report, are not excluded: the    *)
(* code does not exclude them (see the run retry_attempts).                *)
(***************************************************************************)
EXTENDS Naturals

CONSTANTS Task, IdOf, MaxRetries

VARIABLES accepted,   \* tasks AddTask has taken
          kept,       \* tasks the manager may still run again
          runs,       \* how often each task's Executor was called
          reported    \* which of its callbacks each task has seen

vars == <<accepted, kept, runs, reported>>

Init ==
    /\ accepted = {}
    /\ kept = {}
    /\ runs = [t \in Task |-> 0]
    /\ reported = [t \in Task |-> {}]

OfOtherIDs(t) == {u \in kept : IdOf[u] # IdOf[t]}

Accept(t) ==
    /\ t \notin accepted
    /\ accepted' = accepted \union {t}
    /\ kept' = OfOtherIDs(t) \union {t}
    /\ UNCHANGED <<runs, reported>>

Run(t) ==
    /\ t \in accepted
    /\ runs' = [runs EXCEPT ![t] = @ + 1]
    /\ UNCHANGED <<accepted, kept, reported>>

Report(t, outcome) ==
    /\ runs[t] >= IF outcome = "maxRetries" THEN MaxRetries ELSE 1
    /\ reported' = [reported EXCEPT ![t] = @ \union {outcome}]
    /\ UNCHANGED <<accepted, kept, runs>>

Drop(t) ==
    /\ reported[t] # {}
    /\ kept' = OfOtherIDs(t)
    /\ UNCHANGED <<accepted, runs, reported>>

Next ==
    \E t \in Task :
        \/ Accept(t)
        \/ Run(t)
        \/ \E outcome \in {"success", "maxRetries"} : Report(t, outcome)
        \/ Drop(t)

Spec == Init /\ [][Next]_vars
=============================================================================
