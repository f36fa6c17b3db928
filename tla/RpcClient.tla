------------------------------- MODULE RpcClient -------------------------------
(***************************************************************************)
(* How the facilitator reaches a chain: rpc-client.ts over circuit-        *)
(* breaker.ts, and rpc-failover.ts over rpc-circuit-breaker.ts.  A process *)
(* uses one of the two stacks; in both a call asks the primary's breaker,  *)
(* calls the primary and, when that is refused or fails, does the same     *)
(* with the fallback.  Concurrent calls share the breakers: each step up   *)
(* to an await is one action, and the result of a call meets whatever      *)
(* state the others have put the breaker in meanwhile.                     *)
(***************************************************************************)
EXTENDS Naturals

CONSTANTS
  Slots,              \* places of concurrent RPC calls, reused when one ends
  FailureThreshold,   \* CIRCUIT_BREAKER_FAILURE_THRESHOLD
  SuccessThreshold,   \* successes in HALF_OPEN before CLOSED
  ResetTicks,         \* resetTimeoutMs, openDurationMs in clock ticks
  MaxRetries          \* attempts of one call of RpcCircuitBreaker

ASSUME RpcAssumption ==
  /\ FailureThreshold \in Nat \ {0} /\ SuccessThreshold \in Nat \ {0}
  /\ ResetTicks \in Nat \ {0} /\ MaxRetries \in Nat \ {0}

VARIABLES
  stack,      \* which client the process uses
  fallback,   \* whether a fallback URL is configured
  breaker,    \* one breaker per provider
  call,       \* progress of each call
  up,         \* the endpoints that answer
  lost,       \* history: failures of a provider since its last success
  overdue     \* history: overdue[p][c]: attempts of c begun on p while its breaker is OPEN

rpcVars == <<stack, fallback, breaker, call, up, lost, overdue>>

CB == INSTANCE CircuitBreaker
RCB == INSTANCE RpcCircuitBreaker

Providers == {"primary", "fallback"}

\* The URL behind a provider: _fallbackUrl of RpcFailoverClient is never
\* assigned, so its fallback is called with the transport's default URL.
Endpoint(p) ==
  IF p = "fallback" /\ stack = "RpcFailoverClient" THEN "default" ELSE p

NoneLate == [c \in Slots |-> 0]
Idle == [pc |-> "idle", at |-> "primary", left |-> 0]

RpcTypeOK ==
  /\ stack \in {"ResilientRpcClient", "RpcFailoverClient"}
  /\ fallback \in BOOLEAN
  /\ breaker \in [Providers -> CB!Breaker]
  /\ call \in [Slots -> [pc : {"idle", "ask", "flight", "backoff"},
                         at : Providers, left : 0..MaxRetries]]
  /\ up \subseteq Providers \cup {"default"}
  /\ lost \in [Providers -> 0..FailureThreshold]
  /\ overdue \in [Providers -> [Slots -> Nat]]

RpcInit ==
  /\ stack \in {"ResilientRpcClient", "RpcFailoverClient"}
  /\ fallback \in BOOLEAN
  /\ breaker = [p \in Providers |-> CB!New]
  /\ call = [c \in Slots |-> Idle]
  /\ up = Providers \cup {"default"}
  /\ lost = [p \in Providers |-> 0]
  /\ overdue = [p \in Providers |-> NoneLate]

-------------------------------------------------------------------------------
\* withFallback, or the catch of failover's call: the other breaker is asked
\* next; without a fallback, and after it, the caller gets the error.
NextProvider(c) ==
  IF call[c].at = "primary" /\ fallback
  THEN [pc |-> "ask", at |-> "fallback", left |-> 0]
  ELSE Idle

\* withPrimary, or failover's call, is called.
Arrive(c) ==
  /\ call[c].pc = "idle"
  /\ call' = [call EXCEPT ![c] = [pc |-> "ask", at |-> "primary", left |-> 0]]
  /\ UNCHANGED <<stack, fallback, breaker, up, lost, overdue>>

\* Mutant of Refuses: the breaker is never asked.
RefusesNever(b) == FALSE

Refuses(b) == CB!Blocks(b)

\* execute, or call: an OPEN breaker whose time has not passed refuses.
Refuse(c) ==
  /\ call[c].pc = "ask" /\ Refuses(breaker[call[c].at])
  /\ call' = [call EXCEPT ![c] = NextProvider(c)]
  /\ UNCHANGED <<stack, fallback, breaker, up, lost, overdue>>

\* Otherwise the call goes out, through a HALF_OPEN breaker too, however many
\* others are under way.
Begin(c) ==
  LET p == call[c].at
      b == IF stack = "ResilientRpcClient" THEN CB!Asked(breaker[p])
           ELSE RCB!maybeTransitionFromOpen(breaker[p])
  IN  /\ call[c].pc = "ask" /\ ~Refuses(breaker[p])
      /\ breaker' = [breaker EXCEPT ![p] = b]
      /\ call' = [call EXCEPT ![c] = [pc |-> "flight", at |-> p,
                    left |-> IF stack = "ResilientRpcClient" THEN 1 ELSE RCB!Attempts(b)]]
      /\ overdue' = IF b.state = "OPEN" THEN [overdue EXCEPT ![p][c] = @ + 1]
                    ELSE [overdue EXCEPT ![p] = NoneLate]
      /\ UNCHANGED <<stack, fallback, up, lost>>

\* The endpoint answers in time.
Answered(c) ==
  LET p == call[c].at
  IN  /\ call[c].pc = "flight" /\ Endpoint(p) \in up
      /\ breaker' = [breaker EXCEPT ![p] = IF stack = "ResilientRpcClient"
                                           THEN CB!OnSuccess(@) ELSE RCB!OnSuccess(@)]
      /\ call' = [call EXCEPT ![c] = Idle]
      /\ lost' = [lost EXCEPT ![p] = 0]
      /\ UNCHANGED <<stack, fallback, up, overdue>>

\* RpcCircuitBreaker retries without asking the breaker again.
RetriesAgain(c) == stack = "RpcFailoverClient" /\ call[c].left > 1

\* The endpoint does not: a network error, or withTimeout.  ResilientRpcClient
\* counts any rejection, a revert too, which here is an endpoint down for it.
Failed(c) ==
  LET p == call[c].at
      b == IF stack = "ResilientRpcClient" THEN CB!OnFailure(breaker[p])
           ELSE RCB!OnFailure(breaker[p])
  IN  /\ call[c].pc = "flight" /\ Endpoint(p) \notin up
      /\ breaker' = [breaker EXCEPT ![p] = b]
      /\ lost' = [lost EXCEPT ![p] = IF @ < FailureThreshold THEN @ + 1 ELSE @]
      /\ call' = [call EXCEPT ![c] = IF RetriesAgain(c)
                    THEN [pc |-> "backoff", at |-> p, left |-> @.left - 1]
                    ELSE NextProvider(c)]
      /\ UNCHANGED <<stack, fallback, up, overdue>>

\* A revert or another error isRetryable refuses: RpcCircuitBreaker does not
\* count it, and failover still asks the fallback.
Reverted(c) ==
  /\ stack = "RpcFailoverClient"
  /\ call[c].pc = "flight" /\ Endpoint(call[c].at) \in up
  /\ call' = [call EXCEPT ![c] = NextProvider(c)]
  /\ UNCHANGED <<stack, fallback, breaker, up, lost, overdue>>

\* The delay of the retry loop is over.
Retry(c) ==
  LET p == call[c].at
  IN  /\ call[c].pc = "backoff"
      /\ call' = [call EXCEPT ![c].pc = "flight"]
      /\ overdue' = IF breaker[p].state = "OPEN" THEN [overdue EXCEPT ![p][c] = @ + 1] ELSE overdue
      /\ UNCHANGED <<stack, fallback, breaker, up, lost>>

Tick ==
  /\ \E p \in Providers : breaker[p].wait > 0
  /\ breaker' = [p \in Providers |-> CB!Pass(breaker[p])]
  /\ UNCHANGED <<stack, fallback, call, up, lost, overdue>>

\* resetCircuits, of the ResilientRpcClient only.
ResetCircuits ==
  /\ stack = "ResilientRpcClient"
  /\ breaker' = [p \in Providers |-> CB!New]
  /\ lost' = [p \in Providers |-> 0] /\ overdue' = [p \in Providers |-> NoneLate]
  /\ UNCHANGED <<stack, fallback, call, up>>

\* An endpoint goes down or comes back.
Outage(e) ==
  /\ up' = IF e \in up THEN up \ {e} ELSE up \cup {e}
  /\ UNCHANGED <<stack, fallback, breaker, call, lost, overdue>>

Step(c) ==
  \/ Refuse(c) \/ Begin(c) \/ Answered(c) \/ Failed(c) \/ Reverted(c) \/ Retry(c)

RpcNext ==
  \/ \E c \in Slots : Arrive(c) \/ Step(c)
  \/ Tick
  \/ ResetCircuits
  \/ \E p \in Providers : Outage(Endpoint(p))

RpcSpec == RpcInit /\ [][RpcNext]_rpcVars

\* The timers run, calls keep coming of which a live primary does not revert
\* every one, and no call hangs for ever: circuit-breaker.ts has withTimeout,
\* rpc-circuit-breaker.ts awaits fn bare and rests on its transport's timeout.
FairRpcSpec ==
  /\ RpcSpec
  /\ WF_rpcVars(Tick)
  /\ \A c \in Slots :
       /\ WF_rpcVars(Arrive(c)) /\ WF_rpcVars(Step(c))
       /\ SF_rpcVars(Answered(c) /\ call[c].at = "primary")

-------------------------------------------------------------------------------
\* A provider that failed FailureThreshold times in a row, whichever calls saw
\* it and in whichever order their results came, is no longer called freely
\* (circuit-breaker.ts:132, rpc-circuit-breaker.ts:145).
OutageTrips ==
  \A p \in Providers : lost[p] = FailureThreshold => breaker[p].state /= "CLOSED"

\* After a breaker opened only the calls already under way still reach the
\* provider: never through ResilientRpcClient, and at most MaxRetries - 1 times
\* each through the retry loop that does not look at the breaker again
\* (rpc-circuit-breaker.ts:104).
LateAttemptsBounded ==
  \A p \in Providers, c \in Slots :
    overdue[p][c] <= IF stack = "ResilientRpcClient" THEN 0 ELSE MaxRetries - 1

\* Late failures may open an OPEN breaker again and again, but a primary that
\* stays up is in the end used normally again (circuit-breaker.ts:80, :119).
BreakerRecovers ==
  <>[]("primary" \in up) => []<>(breaker["primary"].state = "CLOSED")

===============================================================================
