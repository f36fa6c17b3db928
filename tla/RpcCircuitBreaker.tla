--------------------------- MODULE RpcCircuitBreaker ---------------------------
(***************************************************************************)
(* The breaker of infrastructure/rpc-circuit-breaker.ts as operators on    *)
(* its fields, which are those of CircuitBreaker: failures is failureCount,*)
(* successes is successCount, HALF_OPEN its 'HALF-OPEN'.  It differs in    *)
(* what a success takes back, in how it trips and in its retries.          *)
(***************************************************************************)
EXTENDS Naturals

CONSTANTS FailureThreshold, SuccessThreshold, ResetTicks, MaxRetries

trip(b) == [state |-> "OPEN", failures |-> 0, successes |-> b.successes, wait |-> ResetTicks]

reset(b) == [state |-> "CLOSED", failures |-> 0, successes |-> 0, wait |-> b.wait]

maybeTransitionFromOpen(b) ==
  IF b.state = "OPEN" /\ b.wait = 0
  THEN [state |-> "HALF_OPEN", failures |-> b.failures, successes |-> 0, wait |-> b.wait]
  ELSE b

\* How often a call that finds the breaker in b tries: fixed as it enters.
Attempts(b) == IF b.state = "HALF_OPEN" THEN 1 ELSE MaxRetries

\* Outside HALF-OPEN a success takes one failure back.
OnSuccess(b) ==
  CASE b.state /= "HALF_OPEN" -> [b EXCEPT !.failures = IF @ > 0 THEN @ - 1 ELSE 0]
    [] b.state = "HALF_OPEN" /\ b.successes + 1 >= SuccessThreshold -> reset(b)
    [] OTHER -> [b EXCEPT !.successes = @ + 1]

OnFailure(b) ==
  IF b.state = "HALF_OPEN" \/ b.failures + 1 >= FailureThreshold
  THEN trip(b) ELSE [b EXCEPT !.failures = @ + 1]

===============================================================================
