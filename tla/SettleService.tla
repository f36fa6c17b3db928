--------------------------- MODULE SettleService ---------------------------
(***************************************************************************)
(* runSettle (src/src/application/settle.service.ts), the handler behind   *)
(* POST /settle: any number of calls run concurrently, on one or several   *)
(* server instances, and share PostgreSQL, Redis and the chain.  Every     *)
(* await of the handler is a step of its own, so calls interleave there.   *)
(*                                                                         *)
(* A payment_settlements row and its id are named by the call that creates *)
(* them: settlement_id is a fresh ulid.  The Redis lock holds the string   *)
(* '1'; the model also keeps which call set it, for the properties only    *)
(* (no guard reads it).                                                    *)
(***************************************************************************)
EXTENDS SubmitOnChain

CONSTANTS
  NoCall,     \* no settlement, no receipt, a free lock
  MaxFaults   \* bound: crashes and PostgreSQL/Redis errors in one behaviour

ASSUME NoCallAssumption == NoCall \notin Calls
ASSUME MaxFaultsAssumption == MaxFaults \in Nat

VARIABLES
  pc,         \* pc[c]: the await call c stands at
  lock,       \* lock[r]: the key settle:lock:<r> and who set it
  row,        \* row[c]: settlementStatus of the row c created
  receipt,    \* receipt[r]: settlement recorded by r's payment_receipts row
  answer,     \* answer[c]: what the caller was told
  late,       \* history: calls that arrived when r already had a settlement
  overran,    \* history: calls whose lock expired before they released it
  faults      \* history: crashes and storage errors so far

serviceVars == <<pc, lock, row, receipt, answer, late, overran, faults>>
vars == <<chainVars, serviceVars>>

Steps == {"idle", "check", "lock", "create", "prepare", "submit", "unlock",
          "catch", "catchUnlock", "done", "crashed"}
SettlementStatus == {"processing", "confirmed", "failed"}

\* confirmed: 200.  failed: settlement_failed, 402 or 502.  pending: 409.
\* not_found: 402.  error: runSettle threw and the route answers 500.
Answers == [kind : {"none", "confirmed", "failed", "pending", "not_found", "error"},
            settlement : Calls \cup {NoCall},
            receipt : Calls \cup {NoCall}]

Told(kind) == [kind |-> kind, settlement |-> NoCall, receipt |-> NoCall]
Confirmed(s, rc) == [kind |-> "confirmed", settlement |-> s, receipt |-> rc]

\* One type invariant for the whole state of the service and the chain.
TypeOK ==
  /\ ChainTypeOK
  /\ pc \in [Calls -> Steps]
  /\ lock \in [Requests -> Calls \cup {NoCall}]
  /\ row \in [Calls -> SettlementStatus \cup {"none"}]
  /\ receipt \in [Requests -> Calls \cup {NoCall}]
  /\ answer \in [Calls -> Answers]
  /\ late \subseteq Calls
  /\ overran \subseteq Calls
  /\ faults \in 0..MaxFaults

Init ==
  /\ ChainInit
  /\ pc = [c \in Calls |-> "idle"]
  /\ lock = [r \in Requests |-> NoCall]
  /\ row = [c \in Calls |-> "none"]
  /\ receipt = [r \in Requests |-> NoCall]
  /\ answer = [c \in Calls |-> Told("none")]
  /\ late = {}
  /\ overran = {}
  /\ faults = 0

-----------------------------------------------------------------------------
(* Helpers. *)

\* The payment_settlements rows of request r.
Rows(r) == {c \in Calls : req[c] = r /\ row[c] # "none"}

\* Between winning the lock and giving it back.
Holding(c) ==
  pc[c] \in {"create", "prepare", "submit", "unlock", "catch", "catchUnlock"}

\* In runSettle's catch block, which submitOnChain's rejection enters.
Failing(c) == pc[c] = "catch" \/ (pc[c] = "submit" /\ leg[c] = "threw")

Goto(c, step) == pc' = [pc EXCEPT ![c] = step]

Return(c, result) ==
  /\ Goto(c, "done")
  /\ answer' = [answer EXCEPT ![c] = result]

\* A step on which PostgreSQL or Redis reports an error, or a process dies.
Fault ==
  /\ faults < MaxFaults
  /\ faults' = faults + 1

FreeLock(c) == lock' = [lock EXCEPT ![req[c]] = NoCall]

-----------------------------------------------------------------------------
(* The handler up to the lock. *)

\* The accepted verification of r is found (rows of accepted verifications
\* never change, so where the read falls does not matter).
FindVerification(c, r) ==
  /\ pc[c] = "idle"
  /\ req' = [req EXCEPT ![c] = r]
  /\ late' = IF Rows(r) = {} THEN late ELSE late \cup {c}
  /\ Goto(c, "check")
  /\ UNCHANGED <<leg, attempt, tx, lock, row, receipt, answer, overran, faults>>

VerificationNotFound(c) ==
  /\ pc[c] = "idle"
  /\ Return(c, Told("not_found"))
  /\ UNCHANGED <<chainVars, lock, row, receipt, late, overran, faults>>

\* Faulty variant: a settlement still in flight is reported as confirmed.
OptimisticAnswer(s) ==
  IF row[s] = "failed" THEN Told("failed") ELSE Confirmed(s, receipt[req[s]])

\* Faulty variant: a settlement still in flight is reported as failed.
PessimisticAnswer(s) ==
  IF row[s] = "confirmed" THEN Confirmed(s, receipt[req[s]]) ELSE Told("failed")

\* findFirst names no order: with several rows any of them may come back.
ExistingAnswer(s) ==
  CASE row[s] = "confirmed" -> Confirmed(s, receipt[req[s]])
    [] row[s] = "failed" -> Told("failed")
    [] OTHER -> Told("pending")

\* Faulty variant: only a confirmed settlement counts as existing.
CheckConfirmedOnly(c) ==
  /\ pc[c] = "check"
  /\ LET settled == {s \in Rows(req[c]) : row[s] = "confirmed"}
     IN \/ /\ settled = {}
           /\ Goto(c, "lock")
           /\ UNCHANGED answer
        \/ \E s \in settled : Return(c, ExistingAnswer(s))
  /\ UNCHANGED <<chainVars, lock, row, receipt, late, overran, faults>>

CheckExisting(c) ==
  /\ pc[c] = "check"
  /\ \/ /\ Rows(req[c]) = {}
        /\ Goto(c, "lock")
        /\ UNCHANGED answer
     \/ \E s \in Rows(req[c]) : Return(c, ExistingAnswer(s))
  /\ UNCHANGED <<chainVars, lock, row, receipt, late, overran, faults>>

\* Faulty variant: SET without NX.
AcquireWithoutNX(c) ==
  /\ pc[c] = "lock"
  /\ lock' = [lock EXCEPT ![req[c]] = c]
  /\ Goto(c, "create")
  /\ UNCHANGED <<chainVars, row, receipt, answer, late, overran, faults>>

\* SET settle:lock:<r> 1 EX 300 NX.
AcquireLock(c) ==
  /\ pc[c] = "lock"
  /\ \/ /\ lock[req[c]] = NoCall
        /\ lock' = [lock EXCEPT ![req[c]] = c]
        /\ Goto(c, "create")
        /\ UNCHANGED answer
     \/ /\ lock[req[c]] # NoCall
        /\ Return(c, Told("pending"))
        /\ UNCHANGED lock
  /\ UNCHANGED <<chainVars, row, receipt, late, overran, faults>>

\* A read rejects, or the SET does, whose effect may have taken place.
LookupThrows(c) ==
  /\ pc[c] \in {"check", "lock"}
  /\ Fault
  /\ Return(c, Told("error"))
  /\ \/ UNCHANGED lock
     \/ /\ pc[c] = "lock" /\ lock[req[c]] = NoCall
        /\ lock' = [lock EXCEPT ![req[c]] = c]
  /\ UNCHANGED <<chainVars, row, receipt, late, overran>>

-----------------------------------------------------------------------------
(* The handler under the lock. *)

CreateSettlement(c) ==
  /\ pc[c] = "create"
  /\ row' = [row EXCEPT ![c] = "processing"]
  /\ Goto(c, "prepare")
  /\ UNCHANGED <<chainVars, lock, receipt, answer, late, overran, faults>>

\* The create stands outside the try: its rejection leaves runSettle, with the
\* lock still set and perhaps the row inserted.
CreateThrows(c) ==
  /\ pc[c] = "create"
  /\ Fault
  /\ row' \in {row, [row EXCEPT ![c] = "processing"]}
  /\ Return(c, Told("error"))
  /\ UNCHANGED <<chainVars, lock, receipt, late, overran>>

\* Network, asset and seller are resolved and submitOnChain is called, with
\* '0x' + signatureHash for the signature.  That is a hash of it (schema.prisma
\* names the column so): the model lets the transaction succeed all the same.
StartSubmit(c) ==
  /\ pc[c] = "prepare"
  /\ leg' = [leg EXCEPT ![c] = "write"]
  /\ Goto(c, "submit")
  /\ UNCHANGED <<req, attempt, tx, lock, row, receipt, answer, late, overran, faults>>

\* Network or asset not in the registry any more, or the seller query rejects.
PrepareFails(c) ==
  /\ pc[c] = "prepare"
  /\ Goto(c, "catch")
  /\ UNCHANGED <<chainVars, lock, row, receipt, answer, late, overran, faults>>

\* Faulty variant: the receipt is not part of the transaction.
CommitStatusOnly(c) ==
  /\ row' = [row EXCEPT ![c] = "confirmed"]
  /\ UNCHANGED receipt

\* The $transaction: both rows or none.  receipt.requestId is UNIQUE.
CommitConfirmed(c) ==
  /\ receipt[req[c]] = NoCall
  /\ row' = [row EXCEPT ![c] = "confirmed"]
  /\ receipt' = [receipt EXCEPT ![req[c]] = c]

Persist(c) ==
  /\ pc[c] = "submit" /\ leg[c] = "ok"
  /\ CommitConfirmed(c)
  /\ Goto(c, "unlock")
  /\ UNCHANGED <<chainVars, lock, answer, late, overran, faults>>

\* The transaction rejects; it was rolled back, or it committed and the reply
\* was lost.
PersistFails(c) ==
  /\ pc[c] = "submit" /\ leg[c] = "ok"
  /\ Fault
  /\ CommitConfirmed(c) \/ UNCHANGED <<row, receipt>>
  /\ Goto(c, "catch")
  /\ UNCHANGED <<chainVars, lock, answer, late, overran>>

\* DEL settle:lock:<r>, whoever set it.
ReleaseLock(c) ==
  /\ pc[c] = "unlock"
  /\ FreeLock(c)
  /\ Return(c, Confirmed(c, c))
  /\ UNCHANGED <<chainVars, row, receipt, late, overran, faults>>

\* The DEL stands inside the try: its rejection enters the catch block.
ReleaseLockFails(c) ==
  /\ pc[c] = "unlock"
  /\ Fault
  /\ FreeLock(c) \/ UNCHANGED lock
  /\ Goto(c, "catch")
  /\ UNCHANGED <<chainVars, row, receipt, answer, late, overran>>

\* Faulty variant: the row is not updated.
MarkNothing(c) ==
  /\ Failing(c)
  /\ Goto(c, "catchUnlock")
  /\ UNCHANGED <<chainVars, lock, row, receipt, answer, late, overran, faults>>

\* The catch block's update names the row and no status: it overwrites any.
MarkFailed(c) ==
  /\ Failing(c)
  /\ row' = [row EXCEPT ![c] = "failed"]
  /\ Goto(c, "catchUnlock")
  /\ UNCHANGED <<chainVars, lock, receipt, answer, late, overran, faults>>

MarkFailedSwallowed(c) ==
  /\ Failing(c)
  /\ Fault
  /\ Goto(c, "catchUnlock")
  /\ UNCHANGED <<chainVars, lock, row, receipt, answer, late, overran>>

ReleaseAfterFailure(c) ==
  /\ pc[c] = "catchUnlock"
  /\ FreeLock(c)
  /\ Return(c, Told("failed"))
  /\ UNCHANGED <<chainVars, row, receipt, late, overran, faults>>

ReleaseSwallowed(c) ==
  /\ pc[c] = "catchUnlock"
  /\ Fault
  /\ Return(c, Told("failed"))
  /\ UNCHANGED <<chainVars, lock, row, receipt, late, overran>>

-----------------------------------------------------------------------------
(* The environment of the handler. *)

\* One await of submitOnChain settles.
SubmitProgress(c) ==
  /\ pc[c] = "submit"
  /\ SubmitStep(c)
  /\ UNCHANGED serviceVars

ChainMines(c, i) == Mine(c, i) /\ UNCHANGED serviceVars

\* The instance running c dies; nothing resumes c after a restart.
Crash(c) ==
  /\ pc[c] \notin {"idle", "done", "crashed"}
  /\ Fault
  /\ Goto(c, "crashed")
  /\ leg' = [leg EXCEPT ![c] = "idle"]
  /\ UNCHANGED <<req, attempt, tx, lock, row, receipt, answer, late, overran>>

\* The lock's TTL runs out.  Two RPCs with three http retries of 30 s each and
\* two receipt waits can outlast its 300 s.
LockExpires(r) ==
  /\ lock[r] # NoCall
  /\ lock' = [lock EXCEPT ![r] = NoCall]
  /\ overran' = IF Holding(lock[r]) THEN overran \cup {lock[r]} ELSE overran
  /\ UNCHANGED <<chainVars, pc, row, receipt, answer, late, faults>>

Handler(c) ==
  \/ CheckExisting(c) \/ AcquireLock(c)
  \/ CreateSettlement(c) \/ StartSubmit(c) \/ PrepareFails(c)
  \/ SubmitProgress(c) \/ Persist(c) \/ ReleaseLock(c)
  \/ MarkFailed(c) \/ ReleaseAfterFailure(c)

FaultStep(c) ==
  \/ LookupThrows(c) \/ CreateThrows(c) \/ PersistFails(c)
  \/ ReleaseLockFails(c) \/ MarkFailedSwallowed(c) \/ ReleaseSwallowed(c)
  \/ Crash(c)

Next ==
  \/ \E c \in Calls : \/ \E r \in Requests : FindVerification(c, r)
                      \/ VerificationNotFound(c)
                      \/ Handler(c)
                      \/ FaultStep(c)
                      \/ \E i \in Attempts : ChainMines(c, i)
  \/ \E r \in Requests : LockExpires(r)

Spec == Init /\ [][Next]_vars

\* Node runs every started handler and every await of it settles (all have
\* timeouts).  Nothing is assumed of arrivals, faults, the lock's TTL or the
\* chain: a pending transaction may stay pending.
Fairness == \A c \in Calls : WF_vars(Handler(c))

FairSpec == Spec /\ Fairness

-----------------------------------------------------------------------------
(* Properties. *)

\* A retry of POST /settle that arrives once its request has a settlement row
\* never creates another one and never submits on chain, through any crash,
\* storage error or lock expiry (the existing check of runSettle; e2e-seller-
\* flow.md: "Calling /settle twice with the same requestId is safe").
RetryNeverResubmits == \A c \in late : row[c] = "none" /\ ~Submitted(c)

\* A receipt is only ever written for funds that moved: by the transaction of
\* the settlement it names, which is a settlement of its own request.
ReceiptMeansPaid ==
  \A r \in Requests : receipt[r] # NoCall =>
    /\ req[receipt[r]] = r
    /\ \E i \in Attempts : tx[receipt[r]][i] = "success"

\* Every caller told "confirmed" was told the settlement and the receipt that
\* payment_receipts holds, whether the call settled or found a settled row,
\* and whatever has become of that row since.
ConfirmedAnswersAgree ==
  \A c \in Calls : answer[c].kind = "confirmed" =>
    /\ answer[c].receipt = receipt[req[c]]
    /\ answer[c].settlement = receipt[req[c]]
    /\ receipt[req[c]] # NoCall

\* The Redis lock: as long as no lock of r expired under its holder and no
\* storage call failed, one call at a time works on r's settlement.
LockExclusion ==
  \A c, d \in Calls :
    /\ c # d /\ req[c] = req[d]
    /\ Holding(c) /\ Holding(d)
    => faults > 0 \/ \E e \in overran : req[e] = req[c]

\* A caller told settlement_failed was told so of a settlement on record: its
\* request has a row that failed and that no receipt names, when no storage
\* error or crash struck.  A request with one settlement is so never reported
\* both failed and paid, nor failed while that settlement is in flight; a paid
\* request answered failed has a second settlement that did fail.
FailureOnRecord ==
  faults = 0 =>
    \A c \in Calls : answer[c].kind = "failed" =>
      \E x \in Rows(req[c]) : row[x] = "failed" /\ x # receipt[req[c]]

\* Without a storage error or crash, the settlement the receipt names is
\* confirmed, and no other settlement of the request is: a confirmed row is
\* never overwritten by the catch block.
ReceiptMatchesStatus ==
  faults = 0 =>
    \A c \in Calls : row[c] = "confirmed" <=> (row[c] # "none" /\ receipt[req[c]] = c)

\* A terminal status is never left, unless a storage error entered the catch
\* block after the confirming transaction.
TerminalStatusKept ==
  [][faults' > 0 \/ \A c \in Calls : row[c] \in {"confirmed", "failed"} => row'[c] = row[c]]_vars

\* A processing row is resolved in the end, unless a crash or a storage error
\* struck: later calls stop answering settlement_pending.
ProcessingResolves ==
  \A c \in Calls : row[c] = "processing" ~> row[c] # "processing" \/ faults > 0

\* "A confirmed settlement is never re-processed" (tests/unit/settle-
\* idempotence.test.ts): no call starts a transaction for a request whose
\* settlement is confirmed, on runs with no fault and no lock overrun.
ConfirmedNeverReprocessed ==
  [][faults = 0 /\ overran = {} =>
       \A c \in Calls : ~Submitted(c) /\ Submitted(c)' => receipt[req[c]] = NoCall]_vars

\* The settlements callers were told confirm r.
ToldFor(r) ==
  {answer[c].settlement : c \in {d \in Calls : req[d] = r /\ answer[d].kind = "confirmed"}}

Contract == INSTANCE SettlementContract WITH
  Settlements <- Calls,
  NoSettlement <- NoCall,
  moved <- {r \in Requests : Transferred(r)},
  issued <- receipt,
  told <- [r \in Requests |-> ToldFor(r)]

\* The service implements the settlement contract.
ImplementsContract == Contract!Spec
=============================================================================
