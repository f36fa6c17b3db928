------------------------ MODULE ConfirmWorkerProofs ------------------------
(***************************************************************************)
(* Safety of the settlement confirmation worker, for any number of         *)
(* executions, RPCs, attempts and stalls and any bound on faults.          *)
(***************************************************************************)
EXTENDS ConfirmWorker, TLAPS

\* What an execution's place implies: it writes what the mined transaction
\* says, and returns only once the row is resolved.
Place ==
  \A e \in Execs :
    /\ pc[e] = "commit" => tx = "success"
    /\ pc[e] = "markFailed" => tx = "reverted"
    /\ pc[e] \in {"unlock", "returned"} => row # "processing"

\* The counters of a job that is still to be run leave room for one more.
Budget ==
  job.state \in {"waiting", "active"} =>
    job.made < MaxAttempts /\ job.stalls <= MaxStalled

\* The failed handler runs after the last attempt only.
HandlerDue == handler => job.state = "failed" /\ job.made >= MaxAttempts

\* Without a stall and without harm, executions do not overlap, and once the
\* row is confirmed the only one left is on its way to return.
Undisturbed ==
  job.stalls = 0 /\ ~harmed =>
    /\ \A e \in Execs : pc[e] \in Running => Owns(e)
    /\ row = "confirmed" =>
         /\ ~handler
         /\ \A e \in Execs : pc[e] \notin {"poll", "markFailed", "commit", "threw"}

\* The inductive invariant.
IInv ==
  /\ TypeOK
  /\ Place
  /\ Budget
  /\ HandlerDue
  /\ Undisturbed
  /\ ReceiptTrail
  /\ CompletedMeansResolved
  /\ FailedOnlyWhenDue

-----------------------------------------------------------------------------
(* Each conjunct is preserved, action by action. *)

\* Every action keeps the types: the counters stay within their limits.
LEMMA TypeStep == IInv /\ Next => TypeOK'
<1> SUFFICES ASSUME IInv, Next PROVE TypeOK'
  OBVIOUS
<1> USE BoundsAssumption, NoExecAssumption
<1>1. TypeOK /\ Budget
  BY DEF IInv
<1>2. ASSUME NEW e \in Execs, Start(e) PROVE TypeOK'
  BY <1>1, <1>2 DEF Start, Goto, TypeOK, Budget, JobStates, Steps
<1>3. ASSUME NEW e \in Execs, ReadRow(e) PROVE TypeOK'
  BY <1>1, <1>3 DEF ReadRow, Goto, TypeOK, Budget, JobStates, Steps
<1>4. ASSUME NEW e \in Execs, PollSees(e) PROVE TypeOK'
  BY <1>1, <1>4 DEF PollSees, Goto, TypeOK, Budget, JobStates, Steps
<1>5. ASSUME NEW e \in Execs, PollFails(e) PROVE TypeOK'
  BY <1>1, <1>5 DEF PollFails, Goto, TypeOK, Budget, JobStates, Steps
<1>6. ASSUME NEW e \in Execs, MarkFailed(e) PROVE TypeOK'
  BY <1>1, <1>6 DEF MarkFailed, Goto, TypeOK, Budget, JobStates, Steps
<1>7. ASSUME NEW e \in Execs, Commit(e) PROVE TypeOK'
  BY <1>1, <1>7 DEF Commit, Goto, TypeOK, Budget, JobStates, Steps
<1>8. ASSUME NEW e \in Execs, ReleaseLock(e) PROVE TypeOK'
  BY <1>1, <1>8 DEF ReleaseLock, Goto, TypeOK, Budget, JobStates, Steps
<1>9. ASSUME NEW e \in Execs, Complete(e) PROVE TypeOK'
  BY <1>1, <1>9 DEF Complete, Goto, Owns, TypeOK, Budget, JobStates, Steps
<1>10. ASSUME NEW e \in Execs, FailAttempt(e) PROVE TypeOK'
  <2>1. tx' \in {"pending", "success", "reverted"} /\ row' \in {"processing", "confirmed", "failed"}
        /\ receipt' \in BOOLEAN
        /\ lock' \in BOOLEAN /\ handler' \in BOOLEAN /\ harmed' \in BOOLEAN
    BY <1>1, <1>10 DEF FailAttempt, TypeOK, CountAttempt
  <2>2. job' \in [state : JobStates, owner : Execs \cup {NoExec},
                 made : 0..MaxAttempts, stalls : 0..(MaxStalled + 1)]
    <3>1. Owns(e) => job.made + 1 \in 0..MaxAttempts
      BY <1>1 DEF Owns, Budget, TypeOK
    <3>2. AfterAttempt \in JobStates
      BY DEF AfterAttempt, JobStates
    <3> QED
      BY <1>1, <1>10, <3>1, <3>2 DEF FailAttempt, CountAttempt, TypeOK
  <2>3. pc' \in [Execs -> Steps] /\ rpc' \in [Execs -> 1..Rpcs]
    BY <1>1, <1>10 DEF FailAttempt, TypeOK, CountAttempt, Goto, Steps
  <2>4. faults' \in 0..MaxFaults
    BY <1>1, <1>10 DEF FailAttempt, TypeOK, CountAttempt
  <2> QED
    BY <2>1, <2>2, <2>3, <2>4 DEF TypeOK
<1>11. ASSUME NEW e \in Execs, ReleaseSwallowed(e) PROVE TypeOK'
  <2>1. tx' \in {"pending", "success", "reverted"} /\ row' \in {"processing", "confirmed", "failed"}
        /\ receipt' \in BOOLEAN
        /\ lock' \in BOOLEAN /\ handler' \in BOOLEAN /\ harmed' \in BOOLEAN
    BY <1>1, <1>11 DEF ReleaseSwallowed, TypeOK
  <2>2. job' \in [state : JobStates, owner : Execs \cup {NoExec},
                 made : 0..MaxAttempts, stalls : 0..(MaxStalled + 1)]
    BY <1>1, <1>11 DEF ReleaseSwallowed, TypeOK
  <2>3. pc' \in [Execs -> Steps] /\ rpc' \in [Execs -> 1..Rpcs]
    BY <1>1, <1>11 DEF ReleaseSwallowed, TypeOK, Goto, Steps
  <2>4. faults' \in 0..MaxFaults
    BY <1>1, <1>11 DEF ReleaseSwallowed, TypeOK, Fault
  <2> QED
    BY <2>1, <2>2, <2>3, <2>4 DEF TypeOK
<1>12. ASSUME NEW e \in Execs, StorageThrows(e) PROVE TypeOK'
  <2>1. tx' \in {"pending", "success", "reverted"} /\ row' \in {"processing", "confirmed", "failed"}
        /\ receipt' \in BOOLEAN
        /\ lock' \in BOOLEAN /\ handler' \in BOOLEAN /\ harmed' \in BOOLEAN
    BY <1>1, <1>12 DEF StorageThrows, TypeOK
  <2>2. job' \in [state : JobStates, owner : Execs \cup {NoExec},
                 made : 0..MaxAttempts, stalls : 0..(MaxStalled + 1)]
    BY <1>1, <1>12 DEF StorageThrows, TypeOK
  <2>3. pc' \in [Execs -> Steps] /\ rpc' \in [Execs -> 1..Rpcs]
    BY <1>1, <1>12 DEF StorageThrows, TypeOK, Goto, Steps
  <2>4. faults' \in 0..MaxFaults
    BY <1>1, <1>12 DEF StorageThrows, TypeOK, Fault
  <2> QED
    BY <2>1, <2>2, <2>3, <2>4 DEF TypeOK
<1>13. ASSUME NEW e \in Execs, Crash(e) PROVE TypeOK'
  <2>1. tx' \in {"pending", "success", "reverted"} /\ row' \in {"processing", "confirmed", "failed"}
        /\ receipt' \in BOOLEAN
        /\ lock' \in BOOLEAN /\ handler' \in BOOLEAN /\ harmed' \in BOOLEAN
    BY <1>1, <1>13 DEF Crash, TypeOK
  <2>2. job' \in [state : JobStates, owner : Execs \cup {NoExec},
                 made : 0..MaxAttempts, stalls : 0..(MaxStalled + 1)]
    BY <1>1, <1>13 DEF Crash, TypeOK
  <2>3. pc' \in [Execs -> Steps] /\ rpc' \in [Execs -> 1..Rpcs]
    BY <1>1, <1>13 DEF Crash, TypeOK, Goto, Steps
  <2>4. faults' \in 0..MaxFaults
    BY <1>1, <1>13 DEF Crash, TypeOK, Fault
  <2> QED
    BY <2>1, <2>2, <2>3, <2>4 DEF TypeOK
<1>14. CASE FinalFailure
  BY <1>1, <1>14 DEF FinalFailure, TypeOK, Budget, JobStates, Steps
<1>15. CASE FinalFailureLost
  <2>1. tx' \in {"pending", "success", "reverted"} /\ row' \in {"processing", "confirmed", "failed"}
        /\ receipt' \in BOOLEAN
        /\ lock' \in BOOLEAN /\ handler' \in BOOLEAN /\ harmed' \in BOOLEAN
    BY <1>1, <1>15 DEF FinalFailureLost, TypeOK
  <2>2. job' \in [state : JobStates, owner : Execs \cup {NoExec},
                 made : 0..MaxAttempts, stalls : 0..(MaxStalled + 1)]
    BY <1>1, <1>15 DEF FinalFailureLost, TypeOK
  <2>3. pc' \in [Execs -> Steps] /\ rpc' \in [Execs -> 1..Rpcs]
    BY <1>1, <1>15 DEF FinalFailureLost, TypeOK
  <2>4. faults' \in 0..MaxFaults
    BY <1>1, <1>15 DEF FinalFailureLost, TypeOK, Fault
  <2> QED
    BY <2>1, <2>2, <2>3, <2>4 DEF TypeOK
<1>16. CASE Mine
  BY <1>1, <1>16 DEF Mine, TypeOK, Budget, JobStates, Steps
<1>17. CASE Stall
  <2>1. tx' \in {"pending", "success", "reverted"} /\ row' \in {"processing", "confirmed", "failed"}
        /\ receipt' \in BOOLEAN
        /\ lock' \in BOOLEAN /\ handler' \in BOOLEAN /\ harmed' \in BOOLEAN
    BY <1>1, <1>17 DEF Stall, TypeOK
  <2>2. job' \in [state : JobStates, owner : Execs \cup {NoExec},
                 made : 0..MaxAttempts, stalls : 0..(MaxStalled + 1)]
    <3>1. job.stalls + 1 \in 0..(MaxStalled + 1)
      BY <1>1, <1>17 DEF Stall, TypeOK, Budget
    <3>2. (IF job.stalls >= MaxStalled THEN "failed" ELSE "waiting") \in JobStates
      BY DEF JobStates
    <3> QED
      BY <1>1, <1>17, <3>1, <3>2 DEF Stall, TypeOK
  <2>3. pc' \in [Execs -> Steps] /\ rpc' \in [Execs -> 1..Rpcs]
    BY <1>1, <1>17 DEF Stall, TypeOK
  <2>4. faults' \in 0..MaxFaults
    BY <1>1, <1>17 DEF Stall, TypeOK
  <2> QED
    BY <2>1, <2>2, <2>3, <2>4 DEF TypeOK
<1>18. CASE LockExpires
  BY <1>1, <1>18 DEF LockExpires, TypeOK, Budget, JobStates, Steps
<1> QED
  BY <1>2, <1>3, <1>4, <1>5, <1>6, <1>7, <1>8, <1>9, <1>10, <1>11, <1>12, <1>13, <1>14, <1>15, <1>16, <1>17, <1>18 DEF Next, Execution

\* Every action keeps an execution's place true to the chain and the row.
LEMMA PlaceStep == IInv /\ Next => Place'
<1> SUFFICES ASSUME IInv, Next PROVE Place'
  OBVIOUS
<1> USE BoundsAssumption, NoExecAssumption
<1>1. TypeOK /\ Place /\ ReceiptTrail
  BY DEF IInv
<1>2. ASSUME NEW e \in Execs, Start(e) PROVE Place'
  BY <1>1, <1>2 DEF Start, Goto, TypeOK, Place, ReceiptTrail, Steps
<1>3. ASSUME NEW e \in Execs, ReadRow(e) PROVE Place'
  BY <1>1, <1>3 DEF ReadRow, Goto, TypeOK, Place, ReceiptTrail, Steps
<1>4. ASSUME NEW e \in Execs, PollSees(e) PROVE Place'
  BY <1>1, <1>4 DEF PollSees, Goto, TypeOK, Place, ReceiptTrail, Steps
<1>5. ASSUME NEW e \in Execs, PollFails(e) PROVE Place'
  BY <1>1, <1>5 DEF PollFails, Goto, TypeOK, Place, ReceiptTrail, Steps
<1>6. ASSUME NEW e \in Execs, MarkFailed(e) PROVE Place'
  BY <1>1, <1>6 DEF MarkFailed, Goto, TypeOK, Place, ReceiptTrail, Steps
<1>7. ASSUME NEW e \in Execs, Commit(e) PROVE Place'
  BY <1>1, <1>7 DEF Commit, Goto, TypeOK, Place, ReceiptTrail, Steps
<1>8. ASSUME NEW e \in Execs, ReleaseLock(e) PROVE Place'
  BY <1>1, <1>8 DEF ReleaseLock, Goto, TypeOK, Place, ReceiptTrail, Steps
<1>9. ASSUME NEW e \in Execs, Complete(e) PROVE Place'
  BY <1>1, <1>9 DEF Complete, Goto, Owns, TypeOK, Place, ReceiptTrail, Steps
<1>10. ASSUME NEW e \in Execs, FailAttempt(e) PROVE Place'
  BY <1>1, <1>10 DEF FailAttempt, CountAttempt, AfterAttempt, LastAttempt, Goto, Owns, TypeOK, Place, ReceiptTrail, Steps
<1>11. ASSUME NEW e \in Execs, ReleaseSwallowed(e) PROVE Place'
  BY <1>1, <1>11 DEF ReleaseSwallowed, Goto, Fault, TypeOK, Place, ReceiptTrail, Steps
<1>12. ASSUME NEW e \in Execs, StorageThrows(e) PROVE Place'
  BY <1>1, <1>12 DEF StorageThrows, Goto, Fault, TypeOK, Place, ReceiptTrail, Steps
<1>13. ASSUME NEW e \in Execs, Crash(e) PROVE Place'
  BY <1>1, <1>13 DEF Crash, Goto, Fault, Running, TypeOK, Place, ReceiptTrail, Steps
<1>14. CASE FinalFailure
  BY <1>1, <1>14 DEF FinalFailure, TypeOK, Place, ReceiptTrail, Steps
<1>15. CASE FinalFailureLost
  BY <1>1, <1>15 DEF FinalFailureLost, Fault, TypeOK, Place, ReceiptTrail, Steps
<1>16. CASE Mine
  BY <1>1, <1>16 DEF Mine, TypeOK, Place, ReceiptTrail, Steps
<1>17. CASE Stall
  BY <1>1, <1>17 DEF Stall, TypeOK, Place, ReceiptTrail, Steps
<1>18. CASE LockExpires
  BY <1>1, <1>18 DEF LockExpires, TypeOK, Place, ReceiptTrail, Steps
<1> QED
  BY <1>2, <1>3, <1>4, <1>5, <1>6, <1>7, <1>8, <1>9, <1>10, <1>11, <1>12, <1>13, <1>14, <1>15, <1>16, <1>17, <1>18 DEF Next, Execution

\* Every action keeps a runnable job within its limits.
LEMMA BudgetStep == IInv /\ Next => Budget'
<1> SUFFICES ASSUME IInv, Next PROVE Budget'
  OBVIOUS
<1> USE BoundsAssumption, NoExecAssumption
<1>1. TypeOK /\ Budget
  BY DEF IInv
<1>2. ASSUME NEW e \in Execs, Start(e) PROVE Budget'
  BY <1>1, <1>2 DEF Start, Goto, TypeOK, Budget, JobStates
<1>3. ASSUME NEW e \in Execs, ReadRow(e) PROVE Budget'
  BY <1>1, <1>3 DEF ReadRow, Goto, TypeOK, Budget, JobStates
<1>4. ASSUME NEW e \in Execs, PollSees(e) PROVE Budget'
  BY <1>1, <1>4 DEF PollSees, Goto, TypeOK, Budget, JobStates
<1>5. ASSUME NEW e \in Execs, PollFails(e) PROVE Budget'
  BY <1>1, <1>5 DEF PollFails, Goto, TypeOK, Budget, JobStates
<1>6. ASSUME NEW e \in Execs, MarkFailed(e) PROVE Budget'
  BY <1>1, <1>6 DEF MarkFailed, Goto, TypeOK, Budget, JobStates
<1>7. ASSUME NEW e \in Execs, Commit(e) PROVE Budget'
  BY <1>1, <1>7 DEF Commit, Goto, TypeOK, Budget, JobStates
<1>8. ASSUME NEW e \in Execs, ReleaseLock(e) PROVE Budget'
  BY <1>1, <1>8 DEF ReleaseLock, Goto, TypeOK, Budget, JobStates
<1>9. ASSUME NEW e \in Execs, Complete(e) PROVE Budget'
  BY <1>1, <1>9 DEF Complete, Goto, Owns, TypeOK, Budget, JobStates
<1>10. ASSUME NEW e \in Execs, FailAttempt(e) PROVE Budget'
  BY <1>1, <1>10 DEF FailAttempt, CountAttempt, AfterAttempt, LastAttempt, Goto, Owns, TypeOK, Budget, JobStates
<1>11. ASSUME NEW e \in Execs, ReleaseSwallowed(e) PROVE Budget'
  BY <1>1, <1>11 DEF ReleaseSwallowed, Goto, Fault, TypeOK, Budget, JobStates
<1>12. ASSUME NEW e \in Execs, StorageThrows(e) PROVE Budget'
  BY <1>1, <1>12 DEF StorageThrows, Goto, Fault, TypeOK, Budget, JobStates
<1>13. ASSUME NEW e \in Execs, Crash(e) PROVE Budget'
  BY <1>1, <1>13 DEF Crash, Goto, Fault, Running, TypeOK, Budget, JobStates
<1>14. CASE FinalFailure
  BY <1>1, <1>14 DEF FinalFailure, TypeOK, Budget, JobStates
<1>15. CASE FinalFailureLost
  BY <1>1, <1>15 DEF FinalFailureLost, Fault, TypeOK, Budget, JobStates
<1>16. CASE Mine
  BY <1>1, <1>16 DEF Mine, TypeOK, Budget, JobStates
<1>17. CASE Stall
  BY <1>1, <1>17 DEF Stall, TypeOK, Budget, JobStates
<1>18. CASE LockExpires
  BY <1>1, <1>18 DEF LockExpires, TypeOK, Budget, JobStates
<1> QED
  BY <1>2, <1>3, <1>4, <1>5, <1>6, <1>7, <1>8, <1>9, <1>10, <1>11, <1>12, <1>13, <1>14, <1>15, <1>16, <1>17, <1>18 DEF Next, Execution

\* Every action keeps the failed handler to the last attempt.
LEMMA HandlerStep == IInv /\ Next => HandlerDue'
<1> SUFFICES ASSUME IInv, Next PROVE HandlerDue'
  OBVIOUS
<1> USE BoundsAssumption, NoExecAssumption
<1>1. TypeOK /\ Budget /\ HandlerDue
  BY DEF IInv
<1>2. ASSUME NEW e \in Execs, Start(e) PROVE HandlerDue'
  BY <1>1, <1>2 DEF Start, Goto, TypeOK, Budget, HandlerDue, JobStates
<1>3. ASSUME NEW e \in Execs, ReadRow(e) PROVE HandlerDue'
  BY <1>1, <1>3 DEF ReadRow, Goto, TypeOK, Budget, HandlerDue, JobStates
<1>4. ASSUME NEW e \in Execs, PollSees(e) PROVE HandlerDue'
  BY <1>1, <1>4 DEF PollSees, Goto, TypeOK, Budget, HandlerDue, JobStates
<1>5. ASSUME NEW e \in Execs, PollFails(e) PROVE HandlerDue'
  BY <1>1, <1>5 DEF PollFails, Goto, TypeOK, Budget, HandlerDue, JobStates
<1>6. ASSUME NEW e \in Execs, MarkFailed(e) PROVE HandlerDue'
  BY <1>1, <1>6 DEF MarkFailed, Goto, TypeOK, Budget, HandlerDue, JobStates
<1>7. ASSUME NEW e \in Execs, Commit(e) PROVE HandlerDue'
  BY <1>1, <1>7 DEF Commit, Goto, TypeOK, Budget, HandlerDue, JobStates
<1>8. ASSUME NEW e \in Execs, ReleaseLock(e) PROVE HandlerDue'
  BY <1>1, <1>8 DEF ReleaseLock, Goto, TypeOK, Budget, HandlerDue, JobStates
<1>9. ASSUME NEW e \in Execs, Complete(e) PROVE HandlerDue'
  BY <1>1, <1>9 DEF Complete, Goto, Owns, TypeOK, Budget, HandlerDue, JobStates
<1>10. ASSUME NEW e \in Execs, FailAttempt(e) PROVE HandlerDue'
  BY <1>1, <1>10 DEF FailAttempt, CountAttempt, AfterAttempt, LastAttempt, Goto, Owns, TypeOK, Budget, HandlerDue, JobStates
<1>11. ASSUME NEW e \in Execs, ReleaseSwallowed(e) PROVE HandlerDue'
  BY <1>1, <1>11 DEF ReleaseSwallowed, Goto, Fault, TypeOK, Budget, HandlerDue, JobStates
<1>12. ASSUME NEW e \in Execs, StorageThrows(e) PROVE HandlerDue'
  BY <1>1, <1>12 DEF StorageThrows, Goto, Fault, TypeOK, Budget, HandlerDue, JobStates
<1>13. ASSUME NEW e \in Execs, Crash(e) PROVE HandlerDue'
  BY <1>1, <1>13 DEF Crash, Goto, Fault, Running, TypeOK, Budget, HandlerDue, JobStates
<1>14. CASE FinalFailure
  BY <1>1, <1>14 DEF FinalFailure, TypeOK, Budget, HandlerDue, JobStates
<1>15. CASE FinalFailureLost
  BY <1>1, <1>15 DEF FinalFailureLost, Fault, TypeOK, Budget, HandlerDue, JobStates
<1>16. CASE Mine
  BY <1>1, <1>16 DEF Mine, TypeOK, Budget, HandlerDue, JobStates
<1>17. CASE Stall
  BY <1>1, <1>17 DEF Stall, TypeOK, Budget, HandlerDue, JobStates
<1>18. CASE LockExpires
  BY <1>1, <1>18 DEF LockExpires, TypeOK, Budget, HandlerDue, JobStates
<1> QED
  BY <1>2, <1>3, <1>4, <1>5, <1>6, <1>7, <1>8, <1>9, <1>10, <1>11, <1>12, <1>13, <1>14, <1>15, <1>16, <1>17, <1>18 DEF Next, Execution

\* Every action keeps an undisturbed job in one execution's hands.
LEMMA UndisturbedStep == IInv /\ Next => Undisturbed'
<1> SUFFICES ASSUME IInv, Next PROVE Undisturbed'
  OBVIOUS
<1> USE BoundsAssumption, NoExecAssumption
<1>1. TypeOK /\ Undisturbed /\ HandlerDue /\ Place /\ ReceiptTrail
  BY DEF IInv
<1>2. ASSUME NEW e \in Execs, Start(e) PROVE Undisturbed'
  BY <1>1, <1>2 DEF Start, Goto, TypeOK, Undisturbed, HandlerDue, Place, ReceiptTrail, Owns, Running, JobStates, Steps
<1>3. ASSUME NEW e \in Execs, ReadRow(e) PROVE Undisturbed'
  BY <1>1, <1>3 DEF ReadRow, Goto, TypeOK, Undisturbed, HandlerDue, Place, ReceiptTrail, Owns, Running, JobStates, Steps
<1>4. ASSUME NEW e \in Execs, PollSees(e) PROVE Undisturbed'
  BY <1>1, <1>4 DEF PollSees, Goto, TypeOK, Undisturbed, HandlerDue, Place, ReceiptTrail, Owns, Running, JobStates, Steps
<1>5. ASSUME NEW e \in Execs, PollFails(e) PROVE Undisturbed'
  BY <1>1, <1>5 DEF PollFails, Goto, TypeOK, Undisturbed, HandlerDue, Place, ReceiptTrail, Owns, Running, JobStates, Steps
<1>6. ASSUME NEW e \in Execs, MarkFailed(e) PROVE Undisturbed'
  BY <1>1, <1>6 DEF MarkFailed, Goto, TypeOK, Undisturbed, HandlerDue, Place, ReceiptTrail, Owns, Running, JobStates, Steps
<1>7. ASSUME NEW e \in Execs, Commit(e) PROVE Undisturbed'
  BY <1>1, <1>7 DEF Commit, Goto, TypeOK, Undisturbed, HandlerDue, Place, ReceiptTrail, Owns, Running, JobStates, Steps
<1>8. ASSUME NEW e \in Execs, ReleaseLock(e) PROVE Undisturbed'
  BY <1>1, <1>8 DEF ReleaseLock, Goto, TypeOK, Undisturbed, HandlerDue, Place, ReceiptTrail, Owns, Running, JobStates, Steps
<1>9. ASSUME NEW e \in Execs, Complete(e) PROVE Undisturbed'
  BY <1>1, <1>9 DEF Complete, Goto, Owns, TypeOK, Undisturbed, HandlerDue, Place, ReceiptTrail, Running, JobStates, Steps
<1>10. ASSUME NEW e \in Execs, FailAttempt(e) PROVE Undisturbed'
  BY <1>1, <1>10 DEF FailAttempt, CountAttempt, AfterAttempt, LastAttempt, Goto, Owns, TypeOK, Undisturbed, HandlerDue, Place, ReceiptTrail, Running, JobStates, Steps
<1>11. ASSUME NEW e \in Execs, ReleaseSwallowed(e) PROVE Undisturbed'
  BY <1>1, <1>11 DEF ReleaseSwallowed, Goto, Fault, TypeOK, Undisturbed, HandlerDue, Place, ReceiptTrail, Owns, Running, JobStates, Steps
<1>12. ASSUME NEW e \in Execs, StorageThrows(e) PROVE Undisturbed'
  BY <1>1, <1>12 DEF StorageThrows, Goto, Fault, TypeOK, Undisturbed, HandlerDue, Place, ReceiptTrail, Owns, Running, JobStates, Steps
<1>13. ASSUME NEW e \in Execs, Crash(e) PROVE Undisturbed'
  BY <1>1, <1>13 DEF Crash, Goto, Fault, Running, TypeOK, Undisturbed, HandlerDue, Place, ReceiptTrail, Owns, JobStates, Steps
<1>14. CASE FinalFailure
  BY <1>1, <1>14 DEF FinalFailure, TypeOK, Undisturbed, HandlerDue, Place, ReceiptTrail, Owns, Running, JobStates, Steps
<1>15. CASE FinalFailureLost
  BY <1>1, <1>15 DEF FinalFailureLost, Fault, TypeOK, Undisturbed, HandlerDue, Place, ReceiptTrail, Owns, Running, JobStates, Steps
<1>16. CASE Mine
  BY <1>1, <1>16 DEF Mine, TypeOK, Undisturbed, HandlerDue, Place, ReceiptTrail, Owns, Running, JobStates, Steps
<1>17. CASE Stall
  BY <1>1, <1>17 DEF Stall, TypeOK, Undisturbed, HandlerDue, Place, ReceiptTrail, Owns, Running, JobStates, Steps
<1>18. CASE LockExpires
  BY <1>1, <1>18 DEF LockExpires, TypeOK, Undisturbed, HandlerDue, Place, ReceiptTrail, Owns, Running, JobStates, Steps
<1> QED
  BY <1>2, <1>3, <1>4, <1>5, <1>6, <1>7, <1>8, <1>9, <1>10, <1>11, <1>12, <1>13, <1>14, <1>15, <1>16, <1>17, <1>18 DEF Next, Execution

\* Every action keeps receipts truthful.
LEMMA ReceiptStep == IInv /\ Next => ReceiptTrail'
<1> SUFFICES ASSUME IInv, Next PROVE ReceiptTrail'
  OBVIOUS
<1> USE BoundsAssumption, NoExecAssumption
<1>1. TypeOK /\ Place /\ ReceiptTrail
  BY DEF IInv
<1>2. ASSUME NEW e \in Execs, Start(e) PROVE ReceiptTrail'
  BY <1>1, <1>2 DEF Start, Goto, TypeOK, Place, ReceiptTrail
<1>3. ASSUME NEW e \in Execs, ReadRow(e) PROVE ReceiptTrail'
  BY <1>1, <1>3 DEF ReadRow, Goto, TypeOK, Place, ReceiptTrail
<1>4. ASSUME NEW e \in Execs, PollSees(e) PROVE ReceiptTrail'
  BY <1>1, <1>4 DEF PollSees, Goto, TypeOK, Place, ReceiptTrail
<1>5. ASSUME NEW e \in Execs, PollFails(e) PROVE ReceiptTrail'
  BY <1>1, <1>5 DEF PollFails, Goto, TypeOK, Place, ReceiptTrail
<1>6. ASSUME NEW e \in Execs, MarkFailed(e) PROVE ReceiptTrail'
  BY <1>1, <1>6 DEF MarkFailed, Goto, TypeOK, Place, ReceiptTrail
<1>7. ASSUME NEW e \in Execs, Commit(e) PROVE ReceiptTrail'
  BY <1>1, <1>7 DEF Commit, Goto, TypeOK, Place, ReceiptTrail
<1>8. ASSUME NEW e \in Execs, ReleaseLock(e) PROVE ReceiptTrail'
  BY <1>1, <1>8 DEF ReleaseLock, Goto, TypeOK, Place, ReceiptTrail
<1>9. ASSUME NEW e \in Execs, Complete(e) PROVE ReceiptTrail'
  BY <1>1, <1>9 DEF Complete, Goto, Owns, TypeOK, Place, ReceiptTrail
<1>10. ASSUME NEW e \in Execs, FailAttempt(e) PROVE ReceiptTrail'
  BY <1>1, <1>10 DEF FailAttempt, CountAttempt, AfterAttempt, LastAttempt, Goto, Owns, TypeOK, Place, ReceiptTrail
<1>11. ASSUME NEW e \in Execs, ReleaseSwallowed(e) PROVE ReceiptTrail'
  BY <1>1, <1>11 DEF ReleaseSwallowed, Goto, Fault, TypeOK, Place, ReceiptTrail
<1>12. ASSUME NEW e \in Execs, StorageThrows(e) PROVE ReceiptTrail'
  BY <1>1, <1>12 DEF StorageThrows, Goto, Fault, TypeOK, Place, ReceiptTrail
<1>13. ASSUME NEW e \in Execs, Crash(e) PROVE ReceiptTrail'
  BY <1>1, <1>13 DEF Crash, Goto, Fault, Running, TypeOK, Place, ReceiptTrail
<1>14. CASE FinalFailure
  BY <1>1, <1>14 DEF FinalFailure, TypeOK, Place, ReceiptTrail
<1>15. CASE FinalFailureLost
  BY <1>1, <1>15 DEF FinalFailureLost, Fault, TypeOK, Place, ReceiptTrail
<1>16. CASE Mine
  BY <1>1, <1>16 DEF Mine, TypeOK, Place, ReceiptTrail
<1>17. CASE Stall
  BY <1>1, <1>17 DEF Stall, TypeOK, Place, ReceiptTrail
<1>18. CASE LockExpires
  BY <1>1, <1>18 DEF LockExpires, TypeOK, Place, ReceiptTrail
<1> QED
  BY <1>2, <1>3, <1>4, <1>5, <1>6, <1>7, <1>8, <1>9, <1>10, <1>11, <1>12, <1>13, <1>14, <1>15, <1>16, <1>17, <1>18 DEF Next, Execution

\* Every action keeps completed jobs resolved.
LEMMA CompletedStep == IInv /\ Next => CompletedMeansResolved'
<1> SUFFICES ASSUME IInv, Next PROVE CompletedMeansResolved'
  OBVIOUS
<1> USE BoundsAssumption, NoExecAssumption
<1>1. TypeOK /\ Place /\ CompletedMeansResolved
  BY DEF IInv
<1>2. ASSUME NEW e \in Execs, Start(e) PROVE CompletedMeansResolved'
  BY <1>1, <1>2 DEF Start, Goto, TypeOK, Place, CompletedMeansResolved, JobStates, Steps
<1>3. ASSUME NEW e \in Execs, ReadRow(e) PROVE CompletedMeansResolved'
  BY <1>1, <1>3 DEF ReadRow, Goto, TypeOK, Place, CompletedMeansResolved, JobStates, Steps
<1>4. ASSUME NEW e \in Execs, PollSees(e) PROVE CompletedMeansResolved'
  BY <1>1, <1>4 DEF PollSees, Goto, TypeOK, Place, CompletedMeansResolved, JobStates, Steps
<1>5. ASSUME NEW e \in Execs, PollFails(e) PROVE CompletedMeansResolved'
  BY <1>1, <1>5 DEF PollFails, Goto, TypeOK, Place, CompletedMeansResolved, JobStates, Steps
<1>6. ASSUME NEW e \in Execs, MarkFailed(e) PROVE CompletedMeansResolved'
  BY <1>1, <1>6 DEF MarkFailed, Goto, TypeOK, Place, CompletedMeansResolved, JobStates, Steps
<1>7. ASSUME NEW e \in Execs, Commit(e) PROVE CompletedMeansResolved'
  BY <1>1, <1>7 DEF Commit, Goto, TypeOK, Place, CompletedMeansResolved, JobStates, Steps
<1>8. ASSUME NEW e \in Execs, ReleaseLock(e) PROVE CompletedMeansResolved'
  BY <1>1, <1>8 DEF ReleaseLock, Goto, TypeOK, Place, CompletedMeansResolved, JobStates, Steps
<1>9. ASSUME NEW e \in Execs, Complete(e) PROVE CompletedMeansResolved'
  BY <1>1, <1>9 DEF Complete, Goto, Owns, TypeOK, Place, CompletedMeansResolved, JobStates, Steps
<1>10. ASSUME NEW e \in Execs, FailAttempt(e) PROVE CompletedMeansResolved'
  BY <1>1, <1>10 DEF FailAttempt, CountAttempt, AfterAttempt, LastAttempt, Goto, Owns, TypeOK, Place, CompletedMeansResolved, JobStates, Steps
<1>11. ASSUME NEW e \in Execs, ReleaseSwallowed(e) PROVE CompletedMeansResolved'
  BY <1>1, <1>11 DEF ReleaseSwallowed, Goto, Fault, TypeOK, Place, CompletedMeansResolved, JobStates, Steps
<1>12. ASSUME NEW e \in Execs, StorageThrows(e) PROVE CompletedMeansResolved'
  BY <1>1, <1>12 DEF StorageThrows, Goto, Fault, TypeOK, Place, CompletedMeansResolved, JobStates, Steps
<1>13. ASSUME NEW e \in Execs, Crash(e) PROVE CompletedMeansResolved'
  BY <1>1, <1>13 DEF Crash, Goto, Fault, Running, TypeOK, Place, CompletedMeansResolved, JobStates, Steps
<1>14. CASE FinalFailure
  BY <1>1, <1>14 DEF FinalFailure, TypeOK, Place, CompletedMeansResolved, JobStates, Steps
<1>15. CASE FinalFailureLost
  BY <1>1, <1>15 DEF FinalFailureLost, Fault, TypeOK, Place, CompletedMeansResolved, JobStates, Steps
<1>16. CASE Mine
  BY <1>1, <1>16 DEF Mine, TypeOK, Place, CompletedMeansResolved, JobStates, Steps
<1>17. CASE Stall
  BY <1>1, <1>17 DEF Stall, TypeOK, Place, CompletedMeansResolved, JobStates, Steps
<1>18. CASE LockExpires
  BY <1>1, <1>18 DEF LockExpires, TypeOK, Place, CompletedMeansResolved, JobStates, Steps
<1> QED
  BY <1>2, <1>3, <1>4, <1>5, <1>6, <1>7, <1>8, <1>9, <1>10, <1>11, <1>12, <1>13, <1>14, <1>15, <1>16, <1>17, <1>18 DEF Next, Execution

\* Every action keeps failures due.
LEMMA FailedStep == IInv /\ Next => FailedOnlyWhenDue'
<1> SUFFICES ASSUME IInv, Next PROVE FailedOnlyWhenDue'
  OBVIOUS
<1> USE BoundsAssumption, NoExecAssumption
<1>1. TypeOK /\ Place /\ HandlerDue /\ FailedOnlyWhenDue
  BY DEF IInv
<1>2. ASSUME NEW e \in Execs, Start(e) PROVE FailedOnlyWhenDue'
  BY <1>1, <1>2 DEF Start, Goto, TypeOK, Place, HandlerDue, FailedOnlyWhenDue
<1>3. ASSUME NEW e \in Execs, ReadRow(e) PROVE FailedOnlyWhenDue'
  BY <1>1, <1>3 DEF ReadRow, Goto, TypeOK, Place, HandlerDue, FailedOnlyWhenDue
<1>4. ASSUME NEW e \in Execs, PollSees(e) PROVE FailedOnlyWhenDue'
  BY <1>1, <1>4 DEF PollSees, Goto, TypeOK, Place, HandlerDue, FailedOnlyWhenDue
<1>5. ASSUME NEW e \in Execs, PollFails(e) PROVE FailedOnlyWhenDue'
  BY <1>1, <1>5 DEF PollFails, Goto, TypeOK, Place, HandlerDue, FailedOnlyWhenDue
<1>6. ASSUME NEW e \in Execs, MarkFailed(e) PROVE FailedOnlyWhenDue'
  BY <1>1, <1>6 DEF MarkFailed, Goto, TypeOK, Place, HandlerDue, FailedOnlyWhenDue
<1>7. ASSUME NEW e \in Execs, Commit(e) PROVE FailedOnlyWhenDue'
  BY <1>1, <1>7 DEF Commit, Goto, TypeOK, Place, HandlerDue, FailedOnlyWhenDue
<1>8. ASSUME NEW e \in Execs, ReleaseLock(e) PROVE FailedOnlyWhenDue'
  BY <1>1, <1>8 DEF ReleaseLock, Goto, TypeOK, Place, HandlerDue, FailedOnlyWhenDue
<1>9. ASSUME NEW e \in Execs, Complete(e) PROVE FailedOnlyWhenDue'
  BY <1>1, <1>9 DEF Complete, Goto, Owns, TypeOK, Place, HandlerDue, FailedOnlyWhenDue
<1>10. ASSUME NEW e \in Execs, FailAttempt(e) PROVE FailedOnlyWhenDue'
  BY <1>1, <1>10 DEF FailAttempt, CountAttempt, AfterAttempt, LastAttempt, Goto, Owns, TypeOK, Place, HandlerDue, FailedOnlyWhenDue
<1>11. ASSUME NEW e \in Execs, ReleaseSwallowed(e) PROVE FailedOnlyWhenDue'
  BY <1>1, <1>11 DEF ReleaseSwallowed, Goto, Fault, TypeOK, Place, HandlerDue, FailedOnlyWhenDue
<1>12. ASSUME NEW e \in Execs, StorageThrows(e) PROVE FailedOnlyWhenDue'
  BY <1>1, <1>12 DEF StorageThrows, Goto, Fault, TypeOK, Place, HandlerDue, FailedOnlyWhenDue
<1>13. ASSUME NEW e \in Execs, Crash(e) PROVE FailedOnlyWhenDue'
  BY <1>1, <1>13 DEF Crash, Goto, Fault, Running, TypeOK, Place, HandlerDue, FailedOnlyWhenDue
<1>14. CASE FinalFailure
  BY <1>1, <1>14 DEF FinalFailure, TypeOK, Place, HandlerDue, FailedOnlyWhenDue
<1>15. CASE FinalFailureLost
  BY <1>1, <1>15 DEF FinalFailureLost, Fault, TypeOK, Place, HandlerDue, FailedOnlyWhenDue
<1>16. CASE Mine
  BY <1>1, <1>16 DEF Mine, TypeOK, Place, HandlerDue, FailedOnlyWhenDue
<1>17. CASE Stall
  BY <1>1, <1>17 DEF Stall, TypeOK, Place, HandlerDue, FailedOnlyWhenDue
<1>18. CASE LockExpires
  BY <1>1, <1>18 DEF LockExpires, TypeOK, Place, HandlerDue, FailedOnlyWhenDue
<1> QED
  BY <1>2, <1>3, <1>4, <1>5, <1>6, <1>7, <1>8, <1>9, <1>10, <1>11, <1>12, <1>13, <1>14, <1>15, <1>16, <1>17, <1>18 DEF Next, Execution

-----------------------------------------------------------------------------
(* The inductive invariant and its consequences. *)

LEMMA InvInit == Init => IInv
<1> SUFFICES ASSUME Init PROVE IInv
  OBVIOUS
<1> USE BoundsAssumption, NoExecAssumption DEF Init
<1>1. TypeOK
  <2>1. job \in [state : JobStates, owner : Execs \cup {NoExec},
                made : 0..MaxAttempts, stalls : 0..(MaxStalled + 1)]
    BY DEF JobStates
  <2>2. pc \in [Execs -> Steps] /\ rpc \in [Execs -> 1..Rpcs]
    BY DEF Steps
  <2>3. faults \in 0..MaxFaults
    OBVIOUS
  <2> QED
    BY <2>1, <2>2, <2>3 DEF TypeOK
<1>2. Place /\ Budget /\ HandlerDue
  BY DEF Place, Budget, HandlerDue
<1>3. Undisturbed
  BY DEF Undisturbed, Running
<1>4. ReceiptTrail /\ CompletedMeansResolved /\ FailedOnlyWhenDue
  BY DEF ReceiptTrail, CompletedMeansResolved, FailedOnlyWhenDue
<1> QED
  BY <1>1, <1>2, <1>3, <1>4 DEF IInv

LEMMA InvStep == IInv /\ [Next]_vars => IInv'
<1>1. IInv /\ Next => IInv'
  BY TypeStep, PlaceStep, BudgetStep, HandlerStep, UndisturbedStep,
     ReceiptStep, CompletedStep, FailedStep DEF IInv
<1>2. ASSUME IInv, UNCHANGED vars PROVE IInv'
  <2>1. IInv
    BY <1>2
  <2>2. UNCHANGED vars
    BY <1>2
  <2> QED
    BY <2>1, <2>2 DEF IInv, vars, TypeOK, Place, Budget, HandlerDue, Undisturbed, Owns,
      ReceiptTrail, CompletedMeansResolved, FailedOnlyWhenDue
<1> QED
  BY <1>1, <1>2

LEMMA Invariant == Spec => []IInv
BY InvInit, InvStep, PTL DEF Spec

\* The state of the worker keeps its types, its counters their limits.
THEOREM TypeCorrect == Spec => []TypeOK
<1>1. IInv => TypeOK
  BY DEF IInv
<1> QED
  BY Invariant, <1>1, PTL

\* Receipts are issued for successful transactions only, and a confirmed
\* settlement has one, however often BullMQ runs the job at the same time.
THEOREM ReceiptsTruthful == Spec => []ReceiptTrail
<1>1. IInv => ReceiptTrail
  BY DEF IInv
<1> QED
  BY Invariant, <1>1, PTL

\* A completed job left no settlement processing.
THEOREM NothingDropped == Spec => []CompletedMeansResolved
<1>1. IInv => CompletedMeansResolved
  BY DEF IInv
<1> QED
  BY Invariant, <1>1, PTL

\* A settlement fails only for a reverted transaction or after the last attempt.
THEOREM FailureDue == Spec => []FailedOnlyWhenDue
<1>1. IInv => FailedOnlyWhenDue
  BY DEF IInv
<1> QED
  BY Invariant, <1>1, PTL

\* No step of the job, its failed handler included, undoes a confirmation while
\* nothing stalled and nothing but the release of the lock went wrong.
THEOREM ConfirmationKept == Spec => ConfirmedKept
<1> DEFINE Kept == row = "confirmed" /\ job.stalls = 0 /\ ~harmed => row' = "confirmed"
<1>1. IInv /\ [Next]_vars => [Kept]_vars
  <2> SUFFICES ASSUME IInv, Next PROVE Kept
    OBVIOUS
  <2> SUFFICES ASSUME row = "confirmed", job.stalls = 0, ~harmed PROVE row' = "confirmed"
    OBVIOUS
  <2>1. /\ ~handler
        /\ \A e \in Execs : pc[e] \notin {"poll", "markFailed", "commit", "threw"}
    BY DEF IInv, Undisturbed
  <2>2. ASSUME NEW e \in Execs, Start(e) PROVE row' = "confirmed"
    BY <2>1, <2>2 DEF Start
  <2>3. ASSUME NEW e \in Execs, ReadRow(e) PROVE row' = "confirmed"
    BY <2>1, <2>3 DEF ReadRow
  <2>4. ASSUME NEW e \in Execs, PollSees(e) PROVE row' = "confirmed"
    BY <2>1, <2>4 DEF PollSees
  <2>5. ASSUME NEW e \in Execs, PollFails(e) PROVE row' = "confirmed"
    BY <2>1, <2>5 DEF PollFails
  <2>6. ASSUME NEW e \in Execs, MarkFailed(e) PROVE row' = "confirmed"
    BY <2>1, <2>6 DEF MarkFailed
  <2>7. ASSUME NEW e \in Execs, Commit(e) PROVE row' = "confirmed"
    BY <2>1, <2>7 DEF Commit
  <2>8. ASSUME NEW e \in Execs, ReleaseLock(e) PROVE row' = "confirmed"
    BY <2>1, <2>8 DEF ReleaseLock
  <2>9. ASSUME NEW e \in Execs, Complete(e) PROVE row' = "confirmed"
    BY <2>1, <2>9 DEF Complete
  <2>10. ASSUME NEW e \in Execs, FailAttempt(e) PROVE row' = "confirmed"
    BY <2>1, <2>10 DEF FailAttempt, CountAttempt
  <2>11. ASSUME NEW e \in Execs, ReleaseSwallowed(e) PROVE row' = "confirmed"
    BY <2>1, <2>11 DEF ReleaseSwallowed
  <2>12. ASSUME NEW e \in Execs, StorageThrows(e) PROVE row' = "confirmed"
    BY <2>1, <2>12 DEF StorageThrows
  <2>13. ASSUME NEW e \in Execs, Crash(e) PROVE row' = "confirmed"
    BY <2>1, <2>13 DEF Crash
  <2>14. ASSUME FinalFailure \/ FinalFailureLost \/ Mine \/ Stall \/ LockExpires PROVE row' = "confirmed"
    BY <2>1, <2>14 DEF FinalFailure, FinalFailureLost, Mine, Stall, LockExpires
  <2> QED
    BY <2>2, <2>3, <2>4, <2>5, <2>6, <2>7, <2>8, <2>9, <2>10, <2>11, <2>12, <2>13, <2>14 DEF Next, Execution
<1> QED
  BY Invariant, <1>1, PTL DEF Spec, ConfirmedKept
=============================================================================
