--------------------------- MODULE ConfirmWorker ---------------------------
(***************************************************************************)
(* The settlement confirmation worker                                      *)
(* (src/src/infrastructure/workers/confirm-settlement.worker.ts): one      *)
(* settlement whose transaction is broadcast, and the BullMQ job that      *)
(* polls for its receipt.  An execution is one run of the processor        *)
(* confirmSettlement for the job.  BullMQ starts the job again after a     *)
(* failed attempt, and also after a stall, which does not count as an      *)
(* attempt and does not stop the stalled execution: executions overlap.    *)
(*                                                                         *)
(* BullMQ and the chain are external, modelled from what the worker        *)
(* relies on.  Settlements share nothing but the worker, so one is enough. *)
(***************************************************************************)
EXTENDS Integers, FiniteSets

CONSTANTS
  Execs,        \* executions of the job
  NoExec,       \* no execution owns the job
  Rpcs,         \* RPC endpoints: the primary and the fallback
  MaxAttempts,  \* attempts of a job (5 in the code)
  MaxStalled,   \* stalls a job survives (BullMQ's default is 1)
  MaxFaults     \* bound: crashes and PostgreSQL/Redis errors in one behaviour

ASSUME NoExecAssumption == NoExec \notin Execs
ASSUME BoundsAssumption ==
  /\ Rpcs \in Nat \ {0}
  /\ MaxAttempts \in Nat \ {0}
  /\ MaxStalled \in Nat
  /\ MaxFaults \in Nat
\* BullMQ never runs out of executions.
ASSUME ExecsAssumption ==
  IsFiniteSet(Execs) /\ Cardinality(Execs) >= MaxAttempts + MaxStalled

VARIABLES
  tx,        \* the transaction on chain
  row,       \* settlementStatus of the settlement
  receipt,   \* the request has its payment_receipts row
  lock,      \* settle:lock:<requestId> is set
  job,       \* the BullMQ job: state, owner, attemptsMade, stalled counter
  handler,   \* the failed handler's update is on its way
  pc,        \* pc[e]: where execution e stands
  rpc,       \* rpc[e]: the RPC e polls
  faults,    \* history: storage errors and crashes so far
  harmed     \* history: one of them was not swallowed

vars == <<tx, row, receipt, lock, job, handler, pc, rpc, faults, harmed>>

JobStates == {"waiting", "active", "completed", "failed"}
Steps == {"idle", "read", "poll", "markFailed", "commit", "unlock",
          "returned", "threw", "done", "crashed"}
Running == {"read", "poll", "markFailed", "commit", "unlock", "returned", "threw"}

\* One type invariant for the whole state.
TypeOK ==
  /\ tx \in {"pending", "success", "reverted"}
  /\ row \in {"processing", "confirmed", "failed"}
  /\ receipt \in BOOLEAN
  /\ lock \in BOOLEAN
  /\ job \in [state : JobStates, owner : Execs \cup {NoExec},
              made : 0..MaxAttempts, stalls : 0..(MaxStalled + 1)]
  /\ handler \in BOOLEAN
  /\ pc \in [Execs -> Steps]
  /\ rpc \in [Execs -> 1..Rpcs]
  /\ faults \in 0..MaxFaults
  /\ harmed \in BOOLEAN

\* The job is enqueued after the submission: its row is processing and the
\* lock of the settlement is set.
Init ==
  /\ tx = "pending"
  /\ row = "processing"
  /\ receipt = FALSE
  /\ lock = TRUE
  /\ job = [state |-> "waiting", owner |-> NoExec, made |-> 0, stalls |-> 0]
  /\ handler = FALSE
  /\ pc = [e \in Execs |-> "idle"]
  /\ rpc = [e \in Execs |-> 1]
  /\ faults = 0
  /\ harmed = FALSE

Goto(e, step) == pc' = [pc EXCEPT ![e] = step]
Owns(e) == job.state = "active" /\ job.owner = e

Fault ==
  /\ faults < MaxFaults
  /\ faults' = faults + 1

-----------------------------------------------------------------------------
(* confirmSettlement. *)

\* BullMQ hands the waiting job to a worker.
Start(e) ==
  /\ job.state = "waiting"
  /\ pc[e] = "idle"
  /\ job' = [job EXCEPT !.state = "active", !.owner = e]
  /\ Goto(e, "read")
  /\ UNCHANGED <<tx, row, receipt, lock, handler, rpc, faults, harmed>>

\* A settlement that is confirmed or failed is skipped.
ReadRow(e) ==
  /\ pc[e] = "read"
  /\ Goto(e, IF row = "processing" THEN "poll" ELSE "returned")
  /\ UNCHANGED <<tx, row, receipt, lock, job, handler, rpc, faults, harmed>>

\* Faulty variant: a mined transaction counts as paid, whatever its status.
PollSeesMined(e) ==
  /\ pc[e] = "poll"
  /\ tx # "pending"
  /\ Goto(e, "commit")
  /\ UNCHANGED <<tx, row, receipt, lock, job, handler, rpc, faults, harmed>>

\* waitForTransactionReceipt resolves with the mined transaction's status.
PollSees(e) ==
  /\ pc[e] = "poll"
  /\ tx # "pending"
  /\ Goto(e, IF tx = "success" THEN "commit" ELSE "markFailed")
  /\ UNCHANGED <<tx, row, receipt, lock, job, handler, rpc, faults, harmed>>

\* It rejects (60 s, or an RPC error): the fallback is next, then the attempt
\* throws.
PollFails(e) ==
  /\ pc[e] = "poll"
  /\ IF rpc[e] < Rpcs
     THEN rpc' = [rpc EXCEPT ![e] = @ + 1] /\ UNCHANGED pc
     ELSE Goto(e, "threw") /\ UNCHANGED rpc
  /\ UNCHANGED <<tx, row, receipt, lock, job, handler, faults, harmed>>

\* The transaction reverted: the row fails, whatever its status, and the
\* attempt throws.
MarkFailed(e) ==
  /\ pc[e] = "markFailed"
  /\ row' = "failed"
  /\ Goto(e, "threw")
  /\ UNCHANGED <<tx, receipt, lock, job, handler, rpc, faults, harmed>>

\* The $transaction: the update locks the row, so that a second execution
\* finds the receipt of the first and creates none.
Commit(e) ==
  /\ pc[e] = "commit"
  /\ row' = "confirmed"
  /\ receipt' = TRUE
  /\ Goto(e, "unlock")
  /\ UNCHANGED <<tx, lock, job, handler, rpc, faults, harmed>>

\* DEL settle:lock:<requestId>.
ReleaseLock(e) ==
  /\ pc[e] = "unlock"
  /\ lock' = FALSE
  /\ Goto(e, "returned")
  /\ UNCHANGED <<tx, row, receipt, job, handler, rpc, faults, harmed>>

\* Faulty variant: a rejected DEL fails the attempt.
ReleaseThrows(e) ==
  /\ pc[e] = "unlock"
  /\ Fault
  /\ lock' \in {lock, FALSE}
  /\ Goto(e, "threw")
  /\ UNCHANGED <<tx, row, receipt, job, handler, rpc, harmed>>

\* The DEL rejects, done or not, and the error is swallowed.
ReleaseSwallowed(e) ==
  /\ pc[e] = "unlock"
  /\ Fault
  /\ lock' \in {lock, FALSE}
  /\ Goto(e, "returned")
  /\ UNCHANGED <<tx, row, receipt, job, handler, rpc, harmed>>

\* The read or a write rejects, the write with its effect done or not done.
StorageThrows(e) ==
  /\ pc[e] \in {"read", "markFailed", "commit"}
  /\ Fault
  /\ harmed' = TRUE
  /\ Goto(e, "threw")
  /\ \/ UNCHANGED <<row, receipt>>
     \/ pc[e] = "markFailed" /\ row' = "failed" /\ UNCHANGED receipt
     \/ pc[e] = "commit" /\ row' = "confirmed" /\ receipt' = TRUE
  /\ UNCHANGED <<tx, lock, job, handler, rpc>>

-----------------------------------------------------------------------------
(* The end of an execution, and the failed handler. *)

\* The job completes; an execution that no longer owns it only logs an error.
Complete(e) ==
  /\ pc[e] = "returned"
  /\ job' = IF Owns(e) THEN [job EXCEPT !.state = "completed", !.owner = NoExec] ELSE job
  /\ Goto(e, "done")
  /\ UNCHANGED <<tx, row, receipt, lock, handler, rpc, faults, harmed>>

LastAttempt == job.made + 1 >= MaxAttempts

\* The attempt e throws: if e owns the job the attempt is counted and the job
\* goes on as `after`; the failed handler starts its update if `final`.
CountAttempt(e, after, final) ==
  /\ pc[e] = "threw"
  /\ job' = IF Owns(e)
            THEN [job EXCEPT !.state = after, !.owner = NoExec, !.made = @ + 1]
            ELSE job
  /\ handler' = (handler \/ (Owns(e) /\ final))
  /\ Goto(e, "done")
  /\ UNCHANGED <<tx, row, receipt, lock, rpc, faults, harmed>>

AfterAttempt == IF LastAttempt THEN "failed" ELSE "waiting"

\* Faulty variants: the handler counts one attempt too few, or does not look
\* at the attempts.
FailAttemptLate(e) == CountAttempt(e, AfterAttempt, job.made + 1 > MaxAttempts)
FailAttemptAlways(e) == CountAttempt(e, AfterAttempt, TRUE)

\* The job is retried after its backoff, or has failed for good and the failed
\* handler starts its update.
FailAttempt(e) == CountAttempt(e, AfterAttempt, LastAttempt)

\* Final failure: the update names the row and no status.
FinalFailure ==
  /\ handler
  /\ row' = "failed"
  /\ handler' = FALSE
  /\ UNCHANGED <<tx, receipt, lock, job, pc, rpc, faults, harmed>>

\* It rejects, or its process dies first, and nobody hears of it.
FinalFailureLost ==
  /\ handler
  /\ Fault
  /\ harmed' = TRUE
  /\ handler' = FALSE
  /\ UNCHANGED <<tx, row, receipt, lock, job, pc, rpc>>

-----------------------------------------------------------------------------
(* The environment. *)

\* The transaction is mined, if ever.
Mine ==
  /\ tx = "pending"
  /\ tx' \in {"success", "reverted"}
  /\ UNCHANGED <<row, receipt, lock, job, handler, pc, rpc, faults, harmed>>

\* The job's own lock is not renewed in time: the job waits again, or fails
\* without an attempt being counted if it stalled too often.  Its execution, if
\* alive, goes on.
Stall ==
  /\ job.state = "active"
  /\ job' = [job EXCEPT !.state = IF job.stalls >= MaxStalled THEN "failed" ELSE "waiting",
                        !.owner = NoExec, !.stalls = @ + 1]
  /\ UNCHANGED <<tx, row, receipt, lock, handler, pc, rpc, faults, harmed>>

\* A worker process dies in the middle of an execution, or cannot report its
\* result to the queue.
Crash(e) ==
  /\ pc[e] \in Running
  /\ Fault
  /\ harmed' = TRUE
  /\ Goto(e, "crashed")
  /\ UNCHANGED <<tx, row, receipt, lock, job, handler, rpc>>

\* The TTL of the settlement lock.
LockExpires ==
  /\ lock
  /\ lock' = FALSE
  /\ UNCHANGED <<tx, row, receipt, job, handler, pc, rpc, faults, harmed>>

Execution(e) ==
  \/ ReadRow(e) \/ PollSees(e) \/ PollFails(e) \/ MarkFailed(e)
  \/ Commit(e) \/ ReleaseLock(e) \/ Complete(e) \/ FailAttempt(e)

Next ==
  \/ \E e \in Execs : \/ Start(e) \/ Execution(e)
                      \/ ReleaseSwallowed(e) \/ StorageThrows(e) \/ Crash(e)
  \/ FinalFailure \/ FinalFailureLost
  \/ Mine \/ Stall \/ LockExpires

\* The queue hands out waiting jobs and finds the stalled ones, and a running
\* process continues.  Neither the chain nor the lock's TTL is relied on.
Fairness ==
  /\ WF_vars(\E e \in Execs : Start(e))
  /\ \A e \in Execs : WF_vars(Execution(e))
  /\ WF_vars(FinalFailure)
  /\ WF_vars(Stall /\ \E e \in Execs : job.owner = e /\ pc[e] = "crashed")

Spec == Init /\ [][Next]_vars
FairSpec == Spec /\ Fairness

-----------------------------------------------------------------------------
(* Properties. *)

\* A settlement has a receipt only for a transaction that succeeded, and is
\* confirmed only with one: attempts that overlap or repeat share the receipt.
ReceiptTrail ==
  /\ receipt => tx = "success"
  /\ row = "confirmed" => receipt

\* The queue drops no settlement unresolved: a job that completed, whichever
\* of its attempts did, left a row that is confirmed or failed.
CompletedMeansResolved == job.state = "completed" => row # "processing"

\* A settlement fails only for a transaction that reverted or after the last
\* attempt: no earlier attempt, and no stall, gives a payment up.
FailedOnlyWhenDue == row = "failed" => tx = "reverted" \/ job.made >= MaxAttempts

\* A confirmed settlement stays confirmed, although the failed handler looks at
\* no status, as long as the job never stalled and no storage error or crash
\* hit it; a lock that cannot be released does no harm.
ConfirmedKept ==
  [][row = "confirmed" /\ job.stalls = 0 /\ ~harmed => row' = "confirmed"]_vars

\* "Final failure persistence if all retries exhausted": every settlement is
\* resolved, even if its transaction is never mined, unless its job stalls more
\* often than BullMQ allows or a fault hits it.
ProcessingResolves ==
  row = "processing" ~> row # "processing" \/ job.stalls > MaxStalled \/ harmed

=============================================================================
