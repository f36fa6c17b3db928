---------------------------- MODULE CircuitBreaker ----------------------------
(***************************************************************************)
(* The breaker of infrastructure/circuit-breaker.ts as operators on its    *)
(* fields.  wait counts the clock ticks left before resetTimeoutMs has     *)
(* passed since lastOpenedAt.                                              *)
(***************************************************************************)
EXTENDS Naturals

CONSTANTS FailureThreshold, SuccessThreshold, ResetTicks

States == {"CLOSED", "OPEN", "HALF_OPEN"}

Breaker == [state : States, failures : 0..FailureThreshold,
            successes : 0..SuccessThreshold, wait : 0..ResetTicks]

New == [state |-> "CLOSED", failures |-> 0, successes |-> 0, wait |-> 0]

ToOpen(b) == [state |-> "OPEN", failures |-> 0, successes |-> b.successes, wait |-> ResetTicks]

ToHalfOpen(b) == [state |-> "HALF_OPEN", failures |-> b.failures, successes |-> 0, wait |-> b.wait]

\* Mutant of Asked: a HALF_OPEN breaker starts its test anew with every call.
AskedAnew(b) ==
  IF b.state /= "CLOSED" /\ b.wait = 0 THEN ToHalfOpen(b) ELSE b

\* isOpen: an OPEN breaker whose time has passed turns HALF_OPEN as it is asked.
Asked(b) ==
  IF b.state = "OPEN" /\ b.wait = 0 THEN ToHalfOpen(b) ELSE b

Blocks(b) == Asked(b).state = "OPEN"

\* A late success of an OPEN breaker only clears its failures.
OnSuccess(b) ==
  CASE b.state /= "HALF_OPEN" -> [b EXCEPT !.failures = 0]
    [] b.state = "HALF_OPEN" /\ b.successes + 1 >= SuccessThreshold -> New
    [] OTHER -> [b EXCEPT !.successes = @ + 1]

\* Mutant of OnFailure: only a test call's failure opens the breaker.
OnProbeFailure(b) ==
  IF b.state = "HALF_OPEN" THEN ToOpen(b)
  ELSE [b EXCEPT !.failures = IF @ < FailureThreshold THEN @ + 1 ELSE @]

\* Late failures count in every state: threshold of them open an OPEN breaker
\* anew and restart its time.
OnFailure(b) ==
  LET counted == [state |-> b.state, failures |-> b.failures + 1, successes |-> 0, wait |-> b.wait]
  IN  IF b.state = "HALF_OPEN" \/ counted.failures >= FailureThreshold
      THEN ToOpen(counted) ELSE counted

Pass(b) == [b EXCEPT !.wait = IF @ > 0 THEN @ - 1 ELSE 0]

===============================================================================
