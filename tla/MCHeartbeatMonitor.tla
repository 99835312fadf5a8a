------------------------- MODULE MCHeartbeatMonitor -------------------------
(* One job for TLC, whose timeouts every task retries. *)
EXTENDS HeartbeatMonitor

MCIdOf == [t \in Task |-> CHOOSE j \in Job : TRUE]
MCKeyOf == [i \in Info |-> CHOOSE j \in Job : TRUE]

\* Bound: what follows the end of the manager is explored from the states in which
\* it had nothing to do.
IdleAtEnd == Ending => queue = <<>> /\ batch = {} /\ \A w \in Worker : ~Busy(w)
=============================================================================
