--------------------------- MODULE CircuitBreaker ---------------------------
(***************************************************************************)
(* The circuit breaker of the retry manager (statustracking,               *)
(* retry_manager.go): a value and the three methods that change it.  Each  *)
(* method runs under the breaker's own mutex, so each is one step of the   *)
(* goroutine that calls it.                                                *)
(*                                                                         *)
(* lastFailureTime and timeout are abstracted to `cooled': whether more    *)
(* than the timeout has passed since the last failure.  failureCount is    *)
(* only compared with the threshold, so it counts up to the threshold and  *)
(* stays there.                                                            *)
(***************************************************************************)
EXTENDS Naturals

CONSTANT FailureThreshold    \* failures that open the breaker (10 in NewRetryManager)

ASSUME FailureThresholdAssumption == FailureThreshold \in Nat \ {0}

CircuitState == {"Closed", "Open", "HalfOpen"}

Breaker == [state : CircuitState, failureCount : 0..FailureThreshold, cooled : BOOLEAN]

\* The breaker of a new manager: lastFailureTime is the zero time, long ago.
NewBreaker == [state |-> "Closed", failureCount |-> 0, cooled |-> TRUE]

\* What CanExecute answers...
CanExecute(cb) == cb.state # "Open" \/ cb.cooled

\* ...and the state it leaves: an open breaker that let a caller through is
\* half open from then on, for every later caller as well.
Probed(cb) ==
    IF cb.state = "Open" /\ cb.cooled THEN [cb EXCEPT !.state = "HalfOpen"] ELSE cb

OnSuccess(cb) == [state |-> "Closed", failureCount |-> 0, cooled |-> cb.cooled]

Counted(cb) == IF cb.failureCount < FailureThreshold THEN cb.failureCount + 1
                                                     ELSE FailureThreshold

\* Seeded fault: a failure counts but never opens the breaker.
OnFailureNeverOpens(cb) ==
    [state |-> cb.state, failureCount |-> Counted(cb), cooled |-> FALSE]

OnFailure(cb) ==
    [state |-> IF Counted(cb) >= FailureThreshold THEN "Open" ELSE cb.state,
     failureCount |-> Counted(cb),
     cooled |-> FALSE]

\* The timeout passes without a further failure.
CoolDown(cb) == [cb EXCEPT !.cooled = TRUE]

(***************************************************************************)
(* The failure count decides whether the breaker is closed: fewer failures *)
(* than the threshold when it is, at least as many when it is open or half *)
(* open.  A half-open breaker therefore reopens on the first failure, with *)
(* no counter of its own to say so, because the count is not reset on the  *)
(* way from Open to HalfOpen (CanExecute, retry_manager.go).               *)
(***************************************************************************)
Consistent(cb) == cb.state = "Closed" <=> cb.failureCount < FailureThreshold
=============================================================================
