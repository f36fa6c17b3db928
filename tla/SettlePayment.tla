--------------------------- MODULE SettlePayment ---------------------------
(***************************************************************************)
(* settlePayment (src/src/settlement/settle-payment.ts), the second        *)
(* implementation of the settlement, over injected Prisma and Redis        *)
(* clients.  It differs from runSettle where it matters: only a confirmed  *)
(* settlement is found again, so a failed or abandoned one may be retried; *)
(* its lock lives 120 s; and a finally block deletes the lock once more.   *)
(*                                                                         *)
(* Settlements are named by the call that creates them.  The lock holds    *)
(* '1'; the model also keeps who set it, for the properties only.          *)
(***************************************************************************)
EXTENDS SubmitOnChain

CONSTANTS
  NoCall,     \* no settlement, no receipt, a free lock
  MaxFaults   \* bound: crashes and PostgreSQL/Redis errors in one behaviour

ASSUME NoCallAssumption == NoCall \notin Calls
ASSUME MaxFaultsAssumption == MaxFaults \in Nat

VARIABLES
  pc,         \* pc[c]: the await call c stands at
  lock,       \* lock[r]: the key settle_lock:<r> and who set it
  row,        \* row[c]: settlementStatus of the row c created
  receipt,    \* receipt[r]: settlement recorded by r's payment_receipts row
  answer,     \* answer[c]: what c returned or threw
  overran,    \* history: calls whose lock expired before they released it
  faults      \* history: crashes and storage errors so far

serviceVars == <<pc, lock, row, receipt, answer, overran, faults>>
vars == <<chainVars, serviceVars>>

Steps == {"idle", "check", "lock", "create", "prepare", "submit", "catch",
          "catchUnlock", "finally", "done", "crashed"}

\* failed: the error settlement_failed, "No funds were moved."
Outcomes == {"none", "confirmed", "pending", "verification_required", "failed", "error"}
Answers == [kind : Outcomes, settlement : Calls \cup {NoCall}]

Told(kind) == [kind |-> kind, settlement |-> NoCall]
Confirmed(s) == [kind |-> "confirmed", settlement |-> s]

\* One type invariant for the whole state of the service and the chain.
TypeOK ==
  /\ ChainTypeOK
  /\ pc \in [Calls -> Steps]
  /\ lock \in [Requests -> Calls \cup {NoCall}]
  /\ row \in [Calls -> {"none", "pending", "confirmed", "failed"}]
  /\ receipt \in [Requests -> Calls \cup {NoCall}]
  /\ answer \in [Calls -> Answers]
  /\ overran \subseteq Calls
  /\ faults \in 0..MaxFaults

Init ==
  /\ ChainInit
  /\ pc = [c \in Calls |-> "idle"]
  /\ lock = [r \in Requests |-> NoCall]
  /\ row = [c \in Calls |-> "none"]
  /\ receipt = [r \in Requests |-> NoCall]
  /\ answer = [c \in Calls |-> Told("none")]
  /\ overran = {}
  /\ faults = 0

-----------------------------------------------------------------------------
(* Helpers. *)

ConfirmedRows(r) == {c \in Calls : req[c] = r /\ row[c] = "confirmed"}

\* Between winning the lock and the first DEL of it.
Holding(c) ==
  pc[c] \in {"create", "prepare", "submit", "catch", "catchUnlock"}
  \/ (pc[c] = "finally" /\ answer[c].kind = "confirmed")

Failing(c) == pc[c] = "catch" \/ (pc[c] = "submit" /\ leg[c] = "threw")

Goto(c, step) == pc' = [pc EXCEPT ![c] = step]
Answer(c, result) == answer' = [answer EXCEPT ![c] = result]
Return(c, result) == Goto(c, "done") /\ Answer(c, result)

\* The outcome is known; the finally block is still to run.
Leave(c, result) == Goto(c, "finally") /\ Answer(c, result)

Fault ==
  /\ faults < MaxFaults
  /\ faults' = faults + 1

FreeLock(c) == lock' = [lock EXCEPT ![req[c]] = NoCall]

-----------------------------------------------------------------------------
(* settlePayment up to the lock. *)

LoadRequest(c, r) ==
  /\ pc[c] = "idle"
  /\ req' = [req EXCEPT ![c] = r]
  /\ Goto(c, "check")
  /\ UNCHANGED <<leg, attempt, tx, lock, row, receipt, answer, overran, faults>>

\* No such request, or none of its verifications is accepted.
VerificationRequired(c) ==
  /\ pc[c] = "idle"
  /\ Return(c, Told("verification_required"))
  /\ UNCHANGED <<chainVars, lock, row, receipt, overran, faults>>

\* Faulty variant: settlements of any status count as existing.
FindAnyRow(r) == {c \in Calls : req[c] = r /\ row[c] # "none"}

\* findFirst with settlementStatus confirmed.
Existing(r) == ConfirmedRows(r)

CheckExisting(c) ==
  /\ pc[c] = "check"
  /\ \/ /\ Existing(req[c]) = {}
        /\ Goto(c, "lock")
        /\ UNCHANGED answer
     \/ \E s \in Existing(req[c]) : Return(c, Confirmed(s))
  /\ UNCHANGED <<chainVars, lock, row, receipt, overran, faults>>

\* Faulty variant: SET without NX.
AcquireWithoutNX(c) ==
  /\ pc[c] = "lock"
  /\ lock' = [lock EXCEPT ![req[c]] = c]
  /\ Goto(c, "create")
  /\ UNCHANGED <<chainVars, row, receipt, answer, overran, faults>>

\* SET settle_lock:<r> 1 EX 120 NX.
AcquireLock(c) ==
  /\ pc[c] = "lock"
  /\ \/ /\ lock[req[c]] = NoCall
        /\ lock' = [lock EXCEPT ![req[c]] = c]
        /\ Goto(c, "create")
        /\ UNCHANGED answer
     \/ /\ lock[req[c]] # NoCall
        /\ Return(c, Told("pending"))
        /\ UNCHANGED lock
  /\ UNCHANGED <<chainVars, row, receipt, overran, faults>>

CreateSettlement(c) ==
  /\ pc[c] = "create"
  /\ row' = [row EXCEPT ![c] = "pending"]
  /\ Goto(c, "prepare")
  /\ UNCHANGED <<chainVars, lock, receipt, answer, overran, faults>>

\* A read, the SET or the create rejects, before the try: the SET or the
\* create may have taken effect, and a lock that was won stays set.
EarlyThrows(c) ==
  /\ pc[c] \in {"check", "lock", "create"}
  /\ Fault
  /\ Return(c, Told("error"))
  /\ \/ UNCHANGED <<lock, row>>
     \/ /\ pc[c] = "lock" /\ lock[req[c]] = NoCall
        /\ lock' = [lock EXCEPT ![req[c]] = c]
        /\ UNCHANGED row
     \/ /\ pc[c] = "create"
        /\ row' = [row EXCEPT ![c] = "pending"]
        /\ UNCHANGED lock
  /\ UNCHANGED <<chainVars, receipt, overran>>

-----------------------------------------------------------------------------
(* The try block. *)

\* Network and asset resolve and submitOnChain is called.
StartSubmit(c) ==
  /\ pc[c] = "prepare"
  /\ leg' = [leg EXCEPT ![c] = "write"]
  /\ Goto(c, "submit")
  /\ UNCHANGED <<req, attempt, tx, lock, row, receipt, answer, overran, faults>>

\* Unknown network or asset.
PrepareFails(c) ==
  /\ pc[c] = "prepare"
  /\ Goto(c, "catch")
  /\ UNCHANGED <<chainVars, lock, row, receipt, answer, overran, faults>>

SubmitProgress(c) ==
  /\ pc[c] = "submit"
  /\ SubmitStep(c)
  /\ UNCHANGED serviceVars

\* The $transaction: status and receipt, whose requestId is UNIQUE.
CommitConfirmed(c) ==
  /\ receipt[req[c]] = NoCall
  /\ row' = [row EXCEPT ![c] = "confirmed"]
  /\ receipt' = [receipt EXCEPT ![req[c]] = c]

Persist(c) ==
  /\ pc[c] = "submit" /\ leg[c] = "ok"
  /\ CommitConfirmed(c)
  /\ Leave(c, Confirmed(c))
  /\ UNCHANGED <<chainVars, lock, overran, faults>>

\* It rejects, rolled back or with its reply lost.
PersistFails(c) ==
  /\ pc[c] = "submit" /\ leg[c] = "ok"
  /\ Fault
  /\ CommitConfirmed(c) \/ UNCHANGED <<row, receipt>>
  /\ Goto(c, "catch")
  /\ UNCHANGED <<chainVars, lock, answer, overran>>

-----------------------------------------------------------------------------
(* The catch and finally blocks. *)

\* The update names the row and no status.
MarkFailed(c) ==
  /\ Failing(c)
  /\ row' = [row EXCEPT ![c] = "failed"]
  /\ Goto(c, "catchUnlock")
  /\ UNCHANGED <<chainVars, lock, receipt, answer, overran, faults>>

\* DEL settle_lock:<r>, whoever set it; then the error is thrown.
ReleaseAfterFailure(c) ==
  /\ pc[c] = "catchUnlock"
  /\ FreeLock(c)
  /\ Leave(c, Told("failed"))
  /\ UNCHANGED <<chainVars, row, receipt, overran, faults>>

\* The update or the DEL of the catch block rejects and its error replaces
\* settlement_failed.
CatchThrows(c) ==
  /\ Failing(c) \/ pc[c] = "catchUnlock"
  /\ Fault
  /\ Leave(c, Told("error"))
  /\ \/ UNCHANGED <<lock, row>>
     \/ Failing(c) /\ row' = [row EXCEPT ![c] = "failed"] /\ UNCHANGED lock
     \/ pc[c] = "catchUnlock" /\ FreeLock(c) /\ UNCHANGED row
  /\ UNCHANGED <<chainVars, receipt, overran>>

\* The finally block's DEL, on the failure path the second one.
ReleaseFinally(c) ==
  /\ pc[c] = "finally"
  /\ FreeLock(c)
  /\ Goto(c, "done")
  /\ UNCHANGED <<chainVars, row, receipt, answer, overran, faults>>

ReleaseSwallowed(c) ==
  /\ pc[c] = "finally"
  /\ Fault
  /\ Goto(c, "done")
  /\ UNCHANGED <<chainVars, lock, row, receipt, answer, overran>>

-----------------------------------------------------------------------------
(* The environment. *)

ChainMines(c, i) == Mine(c, i) /\ UNCHANGED serviceVars

\* The instance running c dies before its caller is answered.
Crash(c) ==
  /\ pc[c] \notin {"idle", "done", "crashed"}
  /\ Fault
  /\ Goto(c, "crashed")
  /\ leg' = [leg EXCEPT ![c] = "idle"]
  /\ UNCHANGED <<req, attempt, tx, lock, row, receipt, answer, overran>>

\* The TTL of 120 s runs out; two receipt waits and the http retries of two
\* RPCs outlast it.
LockExpires(r) ==
  /\ lock[r] # NoCall
  /\ lock' = [lock EXCEPT ![r] = NoCall]
  /\ overran' = IF Holding(lock[r]) THEN overran \cup {lock[r]} ELSE overran
  /\ UNCHANGED <<chainVars, pc, row, receipt, answer, faults>>

Handler(c) ==
  \/ CheckExisting(c) \/ AcquireLock(c) \/ CreateSettlement(c)
  \/ StartSubmit(c) \/ PrepareFails(c) \/ SubmitProgress(c) \/ Persist(c)
  \/ MarkFailed(c) \/ ReleaseAfterFailure(c) \/ ReleaseFinally(c)

FaultStep(c) ==
  EarlyThrows(c) \/ PersistFails(c) \/ CatchThrows(c) \/ ReleaseSwallowed(c) \/ Crash(c)

Next ==
  \/ \E c \in Calls : \/ \E r \in Requests : LoadRequest(c, r)
                      \/ VerificationRequired(c)
                      \/ Handler(c)
                      \/ FaultStep(c)
                      \/ \E i \in Attempts : ChainMines(c, i)
  \/ \E r \in Requests : LockExpires(r)

Spec == Init /\ [][Next]_vars

-----------------------------------------------------------------------------
(* Properties. *)

\* The lock excludes until it overruns its TTL, a storage call fails, or a
\* call of the request has failed and deleted the lock twice.
LockExclusionUntilFailure ==
  \A c, d \in Calls :
    /\ c # d /\ req[c] = req[d]
    /\ Holding(c) /\ Holding(d)
    => \/ faults > 0
       \/ \E e \in overran : req[e] = req[c]
       \/ \E e \in Calls : req[e] = req[c] /\ row[e] = "failed"

\* The settlements callers were told confirm r: a call's outcome is known to its
\* caller once the finally block is through.
ToldFor(r) ==
  {answer[c].settlement :
     c \in {d \in Calls : pc[d] = "done" /\ req[d] = r /\ answer[d].kind = "confirmed"}}

Contract == INSTANCE SettlementContract WITH
  Settlements <- Calls,
  NoSettlement <- NoCall,
  moved <- {r \in Requests : Transferred(r)},
  issued <- receipt,
  told <- [r \in Requests |-> ToldFor(r)]

\* settlePayment implements the settlement contract, as runSettle does: the
\* funds move once, one receipt for moved funds, confirmed answers name it.
ImplementsContract == Contract!Spec
=============================================================================
