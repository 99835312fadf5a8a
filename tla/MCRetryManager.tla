--------------------------- MODULE MCRetryManager ---------------------------
(* Small instances of RetryManager for TLC: each task has an ID of its own. *)
EXTENDS RetryManager

MCTaskID == Task
MCIdOf == [t \in Task |-> t]
=============================================================================
