-------------------------- MODULE DiPaymentProofs --------------------------
(***************************************************************************)
(* Proofs about DiPayment, the composition of verifyPayment and            *)
(* settlePayment: one request per authorization is paid, keys follow rows, *)
(* answers follow rows; the settle lock is exclusive until a failure, and  *)
(* settlePayment keeps the settlement contract; for any sets of calls,     *)
(* requests, nonces and signatures, any genuine payloads and any number of *)
(* faults.                                                                 *)
(***************************************************************************)
EXTENDS DiPayment, TLAPS

HoldsNonce == {"sig", "undo", "verify", "persist", "freeNonce"}
HoldsSig == {"verify", "persist", "freeNonce", "freeSig"}

\* Only the buyer's own payload gets as far as the transaction, and an answer
\* tells of a row that is there.
Honest(v) ==
  /\ at[v] = "persist" \/ v \in stored => payload[v] \in Genuine
  /\ told[v] = "accepted" => v \in stored /\ at[v] = "done"
  /\ v \in stored => told[v] = "accepted" \/ faults > 0

\* Without a fault a key names a request exactly from its SET to its DEL.
KeysHeld(v) ==
  faults = 0 =>
    /\ v \in stored => at[v] = "done"
    /\ nonceKey[Lower[payload[v].nonce]] = v <=> at[v] \in HoldsNonce \/ v \in stored
    /\ sigKey[payload[v].sig] = v <=> at[v] \in HoldsSig \/ v \in stored

\* Only requests with an accepted verification are settled.
SettledStored == req \in [Calls -> stored \cup {NoRequest}]

IInv ==
  /\ Verify!TypeOK
  /\ \A v \in Requests : Honest(v) /\ KeysHeld(v)
  /\ Verify!AcceptedOnce
  /\ SettledStored

-----------------------------------------------------------------------------
(* What the settle calls do to the rest. *)

\* The settle calls count faults, never forget one, and take up stored
\* requests only.
LEMMA SettleFrame ==
  ASSUME SettleNext
  PROVE  /\ UNCHANGED faults \/ Fault
         /\ \/ UNCHANGED req
            \/ \E c \in Calls : \E r \in stored : req' = [req EXCEPT ![c] = r]
<1>1. CASE \E c \in Calls : \E r \in Requests : Settle(c, r)
  BY <1>1 DEF Settle, LoadRequest
<1>2. CASE \E c \in Calls : VerificationRequired(c)
  BY <1>2 DEF VerificationRequired, chainVars
<1>3. ASSUME NEW c \in Calls, Handler(c)
      PROVE  UNCHANGED <<faults, req>>
  BY <1>3 DEF Handler, CheckExisting, AcquireLock, CreateSettlement, StartSubmit,
     PrepareFails, SubmitProgress, SubmitStep, WriteOk, WriteFails, ReceiptOk,
     ReceiptFails, Persist, MarkFailed, ReleaseAfterFailure, ReleaseFinally,
     chainVars, serviceVars
<1>4. ASSUME NEW c \in Calls, FaultStep(c)
      PROVE  Fault /\ UNCHANGED req
  BY <1>4 DEF FaultStep, EarlyThrows, PersistFails, CatchThrows,
     ReleaseSwallowed, Crash, chainVars
<1>5. CASE \E c \in Calls : \E i \in Attempts : TokenMines(c, i)
  BY <1>5 DEF TokenMines, ChainMines, Mine, serviceVars
<1>6. CASE \E r \in Requests : LockExpires(r)
  BY <1>6 DEF LockExpires, chainVars
<1>7. QED
  BY <1>1, <1>2, <1>3, <1>4, <1>5, <1>6 DEF SettleNext

\* A step of the settle calls keeps the invariant.
LEMMA SettleKeeps ==
  ASSUME IInv, SettleNext, UNCHANGED verifyVars
  PROVE  IInv'
<1> USE DEF IInv, verifyVars
<1>1. faults' \in 0..MaxFaults /\ (faults' = 0 => faults = 0) /\ (faults > 0 => faults' > 0)
  BY SettleFrame, MaxFaultsAssumption DEF Fault, Verify!TypeOK
<1>2. Verify!TypeOK'
  BY <1>1 DEF Verify!TypeOK
<1>3. \A v \in Requests : Honest(v)' /\ KeysHeld(v)'
  BY <1>1 DEF Honest, KeysHeld
<1>4. Verify!AcceptedOnce'
  BY DEF Verify!AcceptedOnce, Verify!Conflict, Verify!Nonce, Verify!Sig
<1>5. SettledStored'
  BY SettleFrame DEF SettledStored
<1>6. QED
  BY <1>2, <1>3, <1>4, <1>5

-----------------------------------------------------------------------------
(* What verifyPayment does, conjunct by conjunct. *)

\* Every step keeps the types.
LEMMA TypeStep ==
  ASSUME Verify!TypeOK,
         Verify!Next
  PROVE  Verify!TypeOK'
<1> USE LowerAssumption DEF Verify!TypeOK, Verify!Payloads, Verify!Steps, Verify!RedisSteps,
     Verify!Answers, Verify!Goto, Verify!Nonce, Verify!KeyOf, Verify!Sig
<1>1. ASSUME NEW v \in Requests, Verify!Arrive(v)
      PROVE  Verify!TypeOK'
  BY <1>1 DEF Verify!Arrive
<1>2. ASSUME NEW v \in Requests, Verify!Refuse(v)
      PROVE  Verify!TypeOK'
  BY <1>2 DEF Verify!Refuse, Verify!Finish, Verify!Tell
<1>3. ASSUME NEW v \in Requests, Verify!ClaimNonce(v)
      PROVE  Verify!TypeOK'
  <2>1. nonceKey' \in [Nonces -> Requests \cup {NoRequest}]
    BY <1>3 DEF Verify!ClaimNonce
  <2>2. at' \in [Requests -> Verify!Steps] /\ told' \in [Requests -> Verify!Answers]
    BY <1>3 DEF Verify!ClaimNonce, Verify!Finish, Verify!Tell
  <2>3. QED
    BY <1>3, <2>1, <2>2 DEF Verify!ClaimNonce
<1>4. ASSUME NEW v \in Requests, Verify!ClaimSignature(v)
      PROVE  Verify!TypeOK'
  <2>1. sigKey' \in [Signatures -> Requests \cup {NoRequest}]
    BY <1>4 DEF Verify!ClaimSignature
  <2>2. at' \in [Requests -> Verify!Steps] /\ told' \in [Requests -> Verify!Answers]
    BY <1>4 DEF Verify!ClaimSignature, Verify!Tell
  <2>3. QED
    BY <1>4, <2>1, <2>2 DEF Verify!ClaimSignature
<1>5. ASSUME NEW v \in Requests, Verify!VerifySignature(v)
      PROVE  Verify!TypeOK'
  BY <1>5 DEF Verify!VerifySignature, Verify!Rollback, Verify!Tell
<1>6. ASSUME NEW v \in Requests, Verify!Persist(v)
      PROVE  Verify!TypeOK'
  BY <1>6 DEF Verify!Persist, Verify!Finish, Verify!Rollback, Verify!Tell, Verify!Unique,
       Verify!Conflict
<1>7. ASSUME NEW v \in Requests, Verify!ReleaseNonce(v)
      PROVE  Verify!TypeOK'
  BY <1>7 DEF Verify!ReleaseNonce
<1>8. ASSUME NEW v \in Requests, Verify!ReleaseSignature(v)
      PROVE  Verify!TypeOK'
  BY <1>8 DEF Verify!ReleaseSignature
<1>9. ASSUME NEW v \in Requests, Verify!PersistFails(v)
      PROVE  Verify!TypeOK'
  BY <1>9, MaxFaultsAssumption DEF Verify!PersistFails, Verify!Rollback, Verify!Tell,
       Verify!Fault, Verify!Unique, Verify!Conflict
<1>10. ASSUME NEW v \in Requests, Verify!RedisThrows(v)
      PROVE  Verify!TypeOK'
  BY <1>10, MaxFaultsAssumption DEF Verify!RedisThrows, Verify!Finish, Verify!Tell,
       Verify!Fault, Verify!RedisSteps
<1>11. ASSUME NEW v \in Requests, Verify!RedisReplyLost(v)
      PROVE  Verify!TypeOK'
  <2>1. /\ nonceKey' \in [Nonces -> Requests \cup {NoRequest}]
        /\ sigKey' \in [Signatures -> Requests \cup {NoRequest}]
    BY <1>11 DEF Verify!RedisReplyLost
  <2>2. /\ at' \in [Requests -> Verify!Steps]
        /\ told' \in [Requests -> Verify!Answers]
        /\ faults' \in 0..MaxFaults
        /\ UNCHANGED <<payload, stored>>
    BY <1>11, MaxFaultsAssumption DEF Verify!RedisReplyLost, Verify!Finish, Verify!Tell,
         Verify!Fault
  <2>3. QED
    BY <2>1, <2>2
<1>12. ASSUME NEW v \in Requests, Verify!Crash(v)
      PROVE  Verify!TypeOK'
  BY <1>12, MaxFaultsAssumption DEF Verify!Crash, Verify!Fault
<1>13. CASE Verify!KeyLost
  BY <1>13, MaxFaultsAssumption DEF Verify!KeyLost, Verify!Fault
<1>14. QED
  BY <1>1, <1>2, <1>3, <1>4, <1>5, <1>6, <1>7, <1>8, <1>9, <1>10, <1>11, <1>12, <1>13
     DEF Verify!Next, Verify!Handler, Verify!FaultStep

\* Every step keeps answers and rows in agreement, unless a fault is counted.
LEMMA HonestStep ==
  ASSUME Verify!TypeOK, \A w \in Requests : Honest(w),
         Verify!Next
  PROVE  \A w \in Requests : Honest(w)'
<1> USE LowerAssumption DEF Verify!TypeOK, Verify!Payloads, Verify!Steps, Verify!RedisSteps,
     Verify!Answers, Verify!Goto, Verify!Nonce, Verify!KeyOf, Verify!Sig, Honest
<1>1. ASSUME NEW v \in Requests, Verify!Arrive(v)
      PROVE  \A w \in Requests : Honest(w)'
  BY <1>1 DEF Verify!Arrive
<1>2. ASSUME NEW v \in Requests, Verify!Refuse(v)
      PROVE  \A w \in Requests : Honest(w)'
  BY <1>2 DEF Verify!Refuse, Verify!Finish, Verify!Tell
<1>3. ASSUME NEW v \in Requests, Verify!ClaimNonce(v)
      PROVE  \A w \in Requests : Honest(w)'
  BY <1>3 DEF Verify!ClaimNonce, Verify!Finish, Verify!Tell
<1>4. ASSUME NEW v \in Requests, Verify!ClaimSignature(v)
      PROVE  \A w \in Requests : Honest(w)'
  BY <1>4 DEF Verify!ClaimSignature, Verify!Tell
<1>5. ASSUME NEW v \in Requests, Verify!VerifySignature(v)
      PROVE  \A w \in Requests : Honest(w)'
  BY <1>5 DEF Verify!VerifySignature, Verify!Rollback, Verify!Tell
<1>6. ASSUME NEW v \in Requests, Verify!Persist(v)
      PROVE  \A w \in Requests : Honest(w)'
  BY <1>6 DEF Verify!Persist, Verify!Finish, Verify!Rollback, Verify!Tell, Verify!Unique,
       Verify!Conflict
<1>7. ASSUME NEW v \in Requests, Verify!ReleaseNonce(v)
      PROVE  \A w \in Requests : Honest(w)'
  BY <1>7 DEF Verify!ReleaseNonce
<1>8. ASSUME NEW v \in Requests, Verify!ReleaseSignature(v)
      PROVE  \A w \in Requests : Honest(w)'
  BY <1>8 DEF Verify!ReleaseSignature
<1>9. ASSUME NEW v \in Requests, Verify!PersistFails(v)
      PROVE  \A w \in Requests : Honest(w)'
  BY <1>9, MaxFaultsAssumption DEF Verify!PersistFails, Verify!Rollback, Verify!Tell,
       Verify!Fault, Verify!Unique, Verify!Conflict
<1>10. ASSUME NEW v \in Requests, Verify!RedisThrows(v)
      PROVE  \A w \in Requests : Honest(w)'
  BY <1>10, MaxFaultsAssumption DEF Verify!RedisThrows, Verify!Finish, Verify!Tell,
       Verify!Fault, Verify!RedisSteps
<1>11. ASSUME NEW v \in Requests, Verify!RedisReplyLost(v)
      PROVE  \A w \in Requests : Honest(w)'
  BY <1>11, MaxFaultsAssumption DEF Verify!RedisReplyLost, Verify!Finish, Verify!Tell,
       Verify!Fault
<1>12. ASSUME NEW v \in Requests, Verify!Crash(v)
      PROVE  \A w \in Requests : Honest(w)'
  BY <1>12, MaxFaultsAssumption DEF Verify!Crash, Verify!Fault
<1>13. CASE Verify!KeyLost
  BY <1>13, MaxFaultsAssumption DEF Verify!KeyLost, Verify!Fault
<1>14. QED
  BY <1>1, <1>2, <1>3, <1>4, <1>5, <1>6, <1>7, <1>8, <1>9, <1>10, <1>11, <1>12, <1>13
     DEF Verify!Next, Verify!Handler, Verify!FaultStep

\* The DELs look at no owner and yet never delete another request's key.
LEMMA HeldStep ==
  ASSUME Verify!TypeOK, \A w \in Requests : KeysHeld(w),
         Verify!Next
  PROVE  \A w \in Requests : KeysHeld(w)'
<1> USE LowerAssumption DEF Verify!TypeOK, Verify!Payloads, Verify!Steps, Verify!RedisSteps,
     Verify!Answers, Verify!Goto, Verify!Nonce, Verify!KeyOf, Verify!Sig, KeysHeld, HoldsNonce, HoldsSig
<1>1. ASSUME NEW v \in Requests, Verify!Arrive(v)
      PROVE  \A w \in Requests : KeysHeld(w)'
  BY <1>1 DEF Verify!Arrive
<1>2. ASSUME NEW v \in Requests, Verify!Refuse(v)
      PROVE  \A w \in Requests : KeysHeld(w)'
  BY <1>2 DEF Verify!Refuse, Verify!Finish, Verify!Tell
<1>3. ASSUME NEW v \in Requests, Verify!ClaimNonce(v)
      PROVE  \A w \in Requests : KeysHeld(w)'
  BY <1>3, NoRequestAssumption DEF Verify!ClaimNonce, Verify!Finish, Verify!Tell
<1>4. ASSUME NEW v \in Requests, Verify!ClaimSignature(v)
      PROVE  \A w \in Requests : KeysHeld(w)'
  BY <1>4, NoRequestAssumption DEF Verify!ClaimSignature, Verify!Tell
<1>5. ASSUME NEW v \in Requests, Verify!VerifySignature(v)
      PROVE  \A w \in Requests : KeysHeld(w)'
  BY <1>5 DEF Verify!VerifySignature, Verify!Rollback, Verify!Tell
<1>6. ASSUME NEW v \in Requests, Verify!Persist(v)
      PROVE  \A w \in Requests : KeysHeld(w)'
  BY <1>6 DEF Verify!Persist, Verify!Finish, Verify!Rollback, Verify!Tell, Verify!Unique,
       Verify!Conflict
<1>7. ASSUME NEW v \in Requests, Verify!ReleaseNonce(v)
      PROVE  \A w \in Requests : KeysHeld(w)'
  BY <1>7, NoRequestAssumption DEF Verify!ReleaseNonce
<1>8. ASSUME NEW v \in Requests, Verify!ReleaseSignature(v)
      PROVE  \A w \in Requests : KeysHeld(w)'
  BY <1>8, NoRequestAssumption DEF Verify!ReleaseSignature
<1>9. ASSUME NEW v \in Requests, Verify!PersistFails(v)
      PROVE  \A w \in Requests : KeysHeld(w)'
  BY <1>9, MaxFaultsAssumption DEF Verify!PersistFails, Verify!Rollback, Verify!Tell,
       Verify!Fault, Verify!Unique, Verify!Conflict
<1>10. ASSUME NEW v \in Requests, Verify!RedisThrows(v)
      PROVE  \A w \in Requests : KeysHeld(w)'
  BY <1>10, MaxFaultsAssumption DEF Verify!RedisThrows, Verify!Finish, Verify!Tell,
       Verify!Fault, Verify!RedisSteps
<1>11. ASSUME NEW v \in Requests, Verify!RedisReplyLost(v)
      PROVE  \A w \in Requests : KeysHeld(w)'
  BY <1>11, MaxFaultsAssumption, NoRequestAssumption DEF Verify!RedisReplyLost,
       Verify!Finish, Verify!Tell, Verify!Fault
<1>12. ASSUME NEW v \in Requests, Verify!Crash(v)
      PROVE  \A w \in Requests : KeysHeld(w)'
  BY <1>12, MaxFaultsAssumption DEF Verify!Crash, Verify!Fault
<1>13. CASE Verify!KeyLost
  BY <1>13, MaxFaultsAssumption DEF Verify!KeyLost, Verify!Fault
<1>14. QED
  BY <1>1, <1>2, <1>3, <1>4, <1>5, <1>6, <1>7, <1>8, <1>9, <1>10, <1>11, <1>12, <1>13
     DEF Verify!Next, Verify!Handler, Verify!FaultStep

\* Rows are only created where UNIQUE allows it, and never deleted.
LEMMA StoredStep ==
  ASSUME Verify!AcceptedOnce, Verify!Next
  PROVE  Verify!AcceptedOnce' /\ stored \subseteq stored'
<1> USE DEF Verify!AcceptedOnce, Verify!Conflict, Verify!Nonce, Verify!Sig
<1>1. UNCHANGED payload
  BY DEF Verify!Next, Verify!Handler, Verify!FaultStep, Verify!Arrive, Verify!Refuse,
     Verify!ClaimNonce, Verify!ClaimSignature, Verify!VerifySignature, Verify!Persist,
     Verify!ReleaseNonce, Verify!ReleaseSignature, Verify!PersistFails,
     Verify!RedisThrows, Verify!RedisReplyLost, Verify!Crash, Verify!KeyLost
<1>2. \/ UNCHANGED stored
      \/ \E v \in Requests : Verify!Unique(v) /\ stored' = stored \cup {v}
  BY DEF Verify!Next, Verify!Handler, Verify!FaultStep, Verify!Arrive, Verify!Refuse,
     Verify!ClaimNonce, Verify!ClaimSignature, Verify!VerifySignature, Verify!Persist,
     Verify!ReleaseNonce, Verify!ReleaseSignature, Verify!PersistFails,
     Verify!RedisThrows, Verify!RedisReplyLost, Verify!Crash, Verify!KeyLost
<1>3. QED
  BY <1>1, <1>2 DEF Verify!Unique

\* A step of verifyPayment keeps the invariant.
LEMMA VerifyKeeps ==
  ASSUME IInv, VerifyNext
  PROVE  IInv'
<1> USE DEF IInv
<1>1. Verify!Next /\ UNCHANGED req
  BY DEF VerifyNext, chainVars
<1>2. Verify!TypeOK'
  BY <1>1, TypeStep
<1>3. \A v \in Requests : Honest(v)' /\ KeysHeld(v)'
  BY <1>1, HonestStep, HeldStep
<1>4. Verify!AcceptedOnce' /\ stored \subseteq stored'
  BY <1>1, StoredStep
<1>5. SettledStored'
  BY <1>1, <1>4 DEF SettledStored
<1>6. QED
  BY <1>2, <1>3, <1>4, <1>5

-----------------------------------------------------------------------------
(* The invariant, and the properties it implies. *)

\* The inductive invariant holds initially.
LEMMA InvInit == DiInit => IInv
<1> SUFFICES ASSUME DiInit PROVE IInv
  OBVIOUS
<1> USE DEF DiInit, Init, ChainInit, Verify!InitAllBut
<1>1. Verify!TypeOK
  BY MaxFaultsAssumption DEF Verify!TypeOK, Verify!Steps, Verify!RedisSteps, Verify!Answers
<1>2. \A v \in Requests : Honest(v) /\ KeysHeld(v)
  BY NoRequestAssumption, LowerAssumption DEF Honest, KeysHeld, HoldsNonce, HoldsSig,
     Verify!Payloads
<1>3. Verify!AcceptedOnce
  BY DEF Verify!AcceptedOnce
<1>4. SettledStored
  BY DEF SettledStored
<1>5. QED
  BY <1>1, <1>2, <1>3, <1>4 DEF IInv

\* Every step preserves it.
LEMMA InvStep == IInv /\ [DiNext]_<<vars, verifyVars>> => IInv'
<1> SUFFICES ASSUME IInv, [DiNext]_<<vars, verifyVars>> PROVE IInv'
  OBVIOUS
<1>1. CASE SettleNext /\ UNCHANGED verifyVars
  BY <1>1, SettleKeeps
<1>2. CASE VerifyNext
  BY <1>2, VerifyKeeps
<1>3. CASE UNCHANGED <<vars, verifyVars>>
  <2> USE <1>3 DEF vars, verifyVars, chainVars, serviceVars
  <2>1. Verify!TypeOK' /\ Verify!AcceptedOnce'
    BY DEF IInv, Verify!TypeOK, Verify!AcceptedOnce, Verify!Conflict, Verify!Nonce,
         Verify!Sig
  <2>2. \A v \in Requests : Honest(v)' /\ KeysHeld(v)'
    BY DEF IInv, Honest, KeysHeld
  <2>3. SettledStored'
    BY DEF IInv, SettledStored
  <2>4. QED
    BY <2>1, <2>2, <2>3 DEF IInv
<1>4. QED
  BY <1>1, <1>2, <1>3 DEF DiNext

\* It holds in every reachable state.
LEMMA Invariant == DiSpec => []IInv
BY InvInit, InvStep, PTL DEF DiSpec

\* Without a fault the Redis keys of verifyPayment follow its rows: no refused
\* payment is blocked and no accepted one can be claimed again.
THEOREM KeysFollow == DiSpec => []KeysFollowRows
<1>1. IInv => KeysFollowRows
  BY DEF IInv, KeysHeld, HoldsNonce, HoldsSig, KeysFollowRows,
     Verify!KeysFollowRows, Verify!Nonce, Verify!KeyOf, Verify!Sig
<1>2. QED
  BY <1>1, Invariant, PTL

\* verifyPayment answers "accepted" for exactly what its transaction stored.
THEOREM AnswersStored == DiSpec => []Verify!AcceptedAnswersStored
<1>1. IInv => Verify!AcceptedAnswersStored
  BY DEF IInv, Honest, Verify!AcceptedAnswersStored
<1>2. QED
  BY <1>1, Invariant, PTL

-----------------------------------------------------------------------------
(***************************************************************************)
(* settlePayment: its lock and its contract.                               *)
(***************************************************************************)

BeforeRow == {"idle", "check", "lock", "create"}
BeforeSubmit == BeforeRow \cup {"prepare"}
AfterSubmit == {"catch", "catchUnlock", "finally", "done", "crashed"}

\* Where a call stands determines what it has created and submitted so far.
CallState(c) ==
  /\ pc[c] \in (Steps \ {"idle", "done", "crashed"}) => req[c] \in Requests
  /\ pc[c] = "idle" => req[c] = NoRequest /\ c \notin overran
  /\ pc[c] \in BeforeRow => row[c] = "none"
  /\ pc[c] \in {"prepare", "submit"} => row[c] = "pending"
  /\ pc[c] \in BeforeSubmit => leg[c] = "idle" /\ attempt[c] = 1 /\ ~Submitted(c)
  /\ row[c] # "none" \/ Submitted(c) => req[c] \in Requests

\* The RPCs not tried yet have seen no transaction of the call.
Untried(c) ==
  /\ leg[c] = "write" => \A i \in Attempts : i >= attempt[c] => tx[c][i] = "none"
  /\ leg[c] = "wait" => \A i \in Attempts : i > attempt[c] => tx[c][i] = "none"
  /\ leg[c] = "ok" => tx[c][attempt[c]] = "success"

\* A receipt names a settlement of its request whose transfer succeeded, and
\* whose call is past the transaction.
ReceiptState(r) ==
  receipt[r] # NoCall =>
    /\ req[receipt[r]] = r
    /\ \E i \in Attempts : tx[receipt[r]][i] = "success"
    /\ pc[receipt[r]] \in AfterSubmit

\* A row is confirmed, and an answer confirmed, by the receipt only.
AnswerState(c) ==
  /\ row[c] = "confirmed" => receipt[req[c]] = c
  /\ answer[c].kind = "confirmed" =>
       /\ pc[c] \in {"finally", "done", "crashed"}
       /\ req[c] \in Requests
       /\ receipt[req[c]] # NoCall
       /\ answer[c].settlement = receipt[req[c]]

\* Without a storage error a call that fails has marked its row, for ever.
FailState(c) ==
  /\ row[c] = "failed" => pc[c] \in {"catchUnlock", "finally", "done", "crashed"}
  /\ faults = 0 /\ pc[c] \in {"catchUnlock", "finally"} =>
       answer[c].kind = "confirmed" \/ row[c] = "failed"

\* What LockExclusionUntilFailure excuses.
Disturbed(r) ==
  \/ faults > 0
  \/ \E e \in overran : req[e] = r
  \/ \E e \in Calls : req[e] = r /\ row[e] = "failed"

\* Whoever works on an undisturbed request holds its lock.
LockState(r) ==
  ~Disturbed(r) => \A c \in Calls : Holding(c) /\ req[c] = r => lock[r] = c

PayInv ==
  /\ TypeOK
  /\ \A c \in Calls : CallState(c) /\ Untried(c) /\ AnswerState(c) /\ FailState(c)
  /\ \A r \in Requests : ReceiptState(r) /\ LockState(r)
-----------------------------------------------------------------------------
(* Facts about submitOnChain and the chain. *)

\* The answers settlePayment builds are answers.
LEMMA AnswerTypes ==
  /\ \A k \in Outcomes : Told(k) \in Answers
  /\ \A s \in Calls : Confirmed(s) \in Answers
BY DEF Told, Confirmed, Answers, Outcomes

\* What they tell.
LEMMA AnswerKinds ==
  /\ \A k \in Outcomes : Told(k).kind = k
  /\ \A s \in Calls : Confirmed(s).kind = "confirmed" /\ Confirmed(s).settlement = s
BY DEF Told, Confirmed

\* Each step of submitOnChain keeps the types of the chain's state.
LEMMA SubmitTypes ==
  ASSUME ChainTypeOK, NEW c \in Calls, SubmitStep(c)
  PROVE  ChainTypeOK'
<1> USE RpcsAssumption DEF ChainTypeOK, Attempts, Legs, TxStatus
<1>1. attempt[c] \in 1..Rpcs /\ (attempt[c] < Rpcs => attempt[c] + 1 \in 1..Rpcs)
  OBVIOUS
<1>2. ASSUME NextRpc(c)
      PROVE  leg' \in [Calls -> Legs] /\ attempt' \in [Calls -> Attempts]
  BY <1>1, <1>2 DEF NextRpc
<1>3. ASSUME Broadcast(c)
      PROVE  tx' \in [Calls -> [Attempts -> TxStatus]]
  BY <1>1, <1>3 DEF Broadcast
<1>4. CASE WriteOk(c)
  BY <1>3, <1>4 DEF WriteOk
<1>5. CASE WriteFails(c)
  BY <1>2, <1>3, <1>5 DEF WriteFails
<1>6. CASE ReceiptOk(c)
  BY <1>6 DEF ReceiptOk
<1>7. CASE ReceiptFails(c)
  BY <1>2, <1>7 DEF ReceiptFails
<1>8. QED
  BY <1>4, <1>5, <1>6, <1>7 DEF SubmitStep

\* A step of submitOnChain belongs to one call: it moves on, or broadcasts
\* where nothing was broadcast before, and never touches a mined transaction.
LEMMA SubmitEffect ==
  ASSUME ChainTypeOK, NEW c \in Calls, Untried(c), SubmitStep(c)
  PROVE  /\ UNCHANGED req
         /\ leg[c] \in {"write", "wait"} /\ leg'[c] # "idle"
         /\ \A d \in Calls : d # c => leg'[d] = leg[d] /\ attempt'[d] = attempt[d]
         /\ \A d \in Calls, i \in Attempts : d # c => tx'[d][i] = tx[d][i]
         /\ \A i \in Attempts : tx[c][i] # "none" => tx'[c][i] = tx[c][i]
         /\ \A i \in Attempts : tx'[c][i] = "success" => tx[c][i] = "success"
         /\ Untried(c)'
<1> USE RpcsAssumption DEF ChainTypeOK, Attempts, Untried
<1>1. attempt[c] \in 1..Rpcs
  OBVIOUS
<1>2. ASSUME Broadcast(c), leg[c] = "write"
      PROVE  /\ \A d \in Calls, i \in Attempts :
                  tx'[d][i] = IF d = c /\ i = attempt[c] THEN "pending" ELSE tx[d][i]
             /\ tx[c][attempt[c]] = "none"
  BY <1>1, <1>2 DEF Broadcast
<1>3. ASSUME NextRpc(c)
      PROVE  /\ \/ attempt'[c] = attempt[c] + 1 /\ leg'[c] = "write"
                \/ leg'[c] = "threw"
             /\ \A d \in Calls : d # c => leg'[d] = leg[d] /\ attempt'[d] = attempt[d]
  BY <1>1, <1>3 DEF NextRpc
<1>4. CASE WriteOk(c)
  <2>1. leg[c] = "write" /\ leg'[c] = "wait" /\ Broadcast(c) /\ UNCHANGED <<req, attempt>>
    BY <1>4 DEF WriteOk
  <2>2. \A d \in Calls : d # c => leg'[d] = leg[d]
    BY <1>4 DEF WriteOk
  <2>3. Untried(c)'
    BY <1>1, <1>2, <2>1
  <2>4. QED
    BY <1>1, <1>2, <2>1, <2>2, <2>3
<1>5. CASE WriteFails(c)
  <2>1. leg[c] = "write" /\ UNCHANGED req
    BY <1>5 DEF WriteFails
  <2>2. CASE Broadcast(c)
    <3>1. NextRpc(c)
      BY <1>5 DEF WriteFails
    <3>2. \A i \in Attempts : i > attempt[c] => tx'[c][i] = "none"
      BY <1>1, <1>2, <2>1, <2>2
    <3>3. Untried(c)'
      BY <1>1, <1>3, <3>1, <3>2
    <3>4. QED
      BY <1>1, <1>2, <1>3, <2>1, <2>2, <3>1, <3>3
  <2>3. CASE UNCHANGED tx
    <3>1. NextRpc(c)
      BY <1>5 DEF WriteFails
    <3>2. Untried(c)'
      BY <1>1, <1>3, <2>1, <2>3, <3>1
    <3>3. QED
      BY <1>1, <1>3, <2>1, <2>3, <3>1, <3>2
  <2>4. QED
    BY <1>5, <2>2, <2>3 DEF WriteFails
<1>6. CASE ReceiptOk(c)
  BY <1>1, <1>6 DEF ReceiptOk
<1>7. CASE ReceiptFails(c)
  BY <1>1, <1>3, <1>7 DEF ReceiptFails
<1>8. QED
  BY <1>4, <1>5, <1>6, <1>7 DEF SubmitStep

\* Mining settles one pending transaction and touches no other.
LEMMA MineEffect ==
  ASSUME ChainTypeOK, NEW c \in Calls, NEW i \in Attempts, Mine(c, i)
  PROVE  /\ tx[c][i] = "pending"
         /\ tx'[c][i] \in {"success", "reverted"}
         /\ \A d \in Calls, j \in Attempts : d # c \/ j # i => tx'[d][j] = tx[d][j]
         /\ UNCHANGED <<req, leg, attempt>>
         /\ ChainTypeOK'
<1> USE DEF ChainTypeOK, TxStatus
<1>1. PICK s \in {"success", "reverted"} : tx' = [tx EXCEPT ![c][i] = s]
  BY DEF Mine
<1>2. tx'[c][i] = s
  BY <1>1
<1>3. \A d \in Calls, j \in Attempts : d # c \/ j # i => tx'[d][j] = tx[d][j]
  BY <1>1
<1>4. QED
  BY <1>1, <1>2, <1>3 DEF Mine

-----------------------------------------------------------------------------
(* Each step of settlePayment preserves the invariant. *)

\* The types.
LEMMA PayTypes ==
  ASSUME TypeOK, \A d \in Calls : CallState(d),
         SettleNext
  PROVE  TypeOK'
<1> USE AnswerTypes, MaxFaultsAssumption DEF TypeOK, chainVars, Goto, Answer, Steps
<1>1. ASSUME NEW c \in Calls, NEW r \in Requests, LoadRequest(c, r)
      PROVE  TypeOK'
  BY <1>1, SMTT(30) DEF LoadRequest, ChainTypeOK
<1>2. ASSUME NEW c \in Calls, VerificationRequired(c)
      PROVE  TypeOK'
  BY <1>2 DEF VerificationRequired, Return, Outcomes, ChainTypeOK
<1>3. ASSUME NEW c \in Calls, CheckExisting(c)
      PROVE  TypeOK'
  BY <1>3, SMTT(30) DEF CheckExisting, Existing, ConfirmedRows, Return, ChainTypeOK
<1>4. ASSUME NEW c \in Calls, AcquireLock(c)
      PROVE  TypeOK'
  <2>1. lock' \in [Requests -> Calls \cup {NoCall}]
    BY <1>4 DEF AcquireLock
  <2>2. pc' \in [Calls -> Steps] /\ answer' \in [Calls -> Answers]
    BY <1>4 DEF AcquireLock, Return, Outcomes
  <2>3. QED
    BY <1>4, <2>1, <2>2 DEF AcquireLock, ChainTypeOK
<1>5. ASSUME NEW c \in Calls, CreateSettlement(c)
      PROVE  TypeOK'
  BY <1>5 DEF CreateSettlement, ChainTypeOK
<1>6. ASSUME NEW c \in Calls, EarlyThrows(c)
      PROVE  TypeOK'
  <2>1. lock' \in [Requests -> Calls \cup {NoCall}]
    BY <1>6 DEF EarlyThrows
  <2>2. row' \in [Calls -> {"none", "pending", "confirmed", "failed"}]
    BY <1>6 DEF EarlyThrows
  <2>3. pc' \in [Calls -> Steps] /\ answer' \in [Calls -> Answers] /\ faults' \in 0..MaxFaults
    BY <1>6 DEF EarlyThrows, Return, Outcomes, Fault
  <2>4. QED
    BY <1>6, <2>1, <2>2, <2>3 DEF EarlyThrows, ChainTypeOK
<1>7. ASSUME NEW c \in Calls, StartSubmit(c)
      PROVE  TypeOK'
  BY <1>7 DEF StartSubmit, ChainTypeOK, Legs
<1>8. ASSUME NEW c \in Calls, PrepareFails(c)
      PROVE  TypeOK'
  BY <1>8 DEF PrepareFails, ChainTypeOK
<1>9. ASSUME NEW c \in Calls, SubmitProgress(c)
      PROVE  TypeOK'
  <2>1. SubmitStep(c) /\ ChainTypeOK' /\ UNCHANGED serviceVars
    BY <1>9, SubmitTypes DEF SubmitProgress
  <2>2. QED
    BY <2>1 DEF serviceVars
<1>10. ASSUME NEW c \in Calls, Persist(c)
      PROVE  TypeOK'
  BY <1>10 DEF Persist, CommitConfirmed, Leave, ChainTypeOK
<1>11. ASSUME NEW c \in Calls, PersistFails(c)
      PROVE  TypeOK'
  <2>1. /\ row' \in [Calls -> {"none", "pending", "confirmed", "failed"}]
        /\ receipt' \in [Requests -> Calls \cup {NoCall}]
    BY <1>11 DEF PersistFails, CommitConfirmed
  <2>2. pc' \in [Calls -> Steps] /\ faults' \in 0..MaxFaults
    BY <1>11 DEF PersistFails, Fault
  <2>3. QED
    BY <1>11, <2>1, <2>2 DEF PersistFails, ChainTypeOK
<1>12. ASSUME NEW c \in Calls, MarkFailed(c)
      PROVE  TypeOK'
  BY <1>12 DEF MarkFailed, Failing, ChainTypeOK
<1>13. ASSUME NEW c \in Calls, ReleaseAfterFailure(c)
      PROVE  TypeOK'
  BY <1>13 DEF ReleaseAfterFailure, FreeLock, Leave, Outcomes, ChainTypeOK
<1>14. ASSUME NEW c \in Calls, CatchThrows(c)
      PROVE  TypeOK'
  BY <1>14 DEF CatchThrows, Failing, FreeLock, Leave, Fault, Outcomes, ChainTypeOK
<1>15. ASSUME NEW c \in Calls, ReleaseFinally(c)
      PROVE  TypeOK'
  BY <1>15 DEF ReleaseFinally, FreeLock, ChainTypeOK
<1>16. ASSUME NEW c \in Calls, ReleaseSwallowed(c)
      PROVE  TypeOK'
  BY <1>16 DEF ReleaseSwallowed, Fault, ChainTypeOK
<1>17. ASSUME NEW c \in Calls, Crash(c)
      PROVE  TypeOK'
  BY <1>17 DEF Crash, Fault, ChainTypeOK, Legs
<1>18. ASSUME NEW c \in Calls, NEW i \in Attempts, ChainMines(c, i)
      PROVE  TypeOK'
  <2>1. ChainTypeOK' /\ UNCHANGED serviceVars
    BY <1>18, MineEffect DEF ChainMines
  <2>2. QED
    BY <2>1 DEF serviceVars
<1>19. ASSUME NEW r \in Requests, LockExpires(r)
      PROVE  TypeOK'
  BY <1>19 DEF LockExpires, ChainTypeOK
<1>20. QED
  BY <1>1, <1>2, <1>3, <1>4, <1>5, <1>6, <1>7, <1>8, <1>9,
     <1>10, <1>11, <1>12, <1>13, <1>14, <1>15, <1>16, <1>17, <1>18, <1>19
     DEF SettleNext, Settle, TokenMines, Handler, FaultStep

\* What a call has created and submitted.
LEMMA CallStep ==
  ASSUME TypeOK, \A d \in Calls : CallState(d) /\ Untried(d),
         SettleNext
  PROVE  \A d \in Calls : CallState(d)'
<1> USE DEF TypeOK, ChainTypeOK, chainVars, Goto, Answer, Steps, CallState, BeforeRow,
     BeforeSubmit, Submitted
<1>1. ASSUME NEW c \in Calls, NEW r \in Requests, LoadRequest(c, r)
      PROVE  \A d \in Calls : CallState(d)'
  BY <1>1 DEF LoadRequest
<1>2. ASSUME NEW c \in Calls, VerificationRequired(c)
      PROVE  \A d \in Calls : CallState(d)'
  BY <1>2 DEF VerificationRequired, Return
<1>3. ASSUME NEW c \in Calls, CheckExisting(c)
      PROVE  \A d \in Calls : CallState(d)'
  BY <1>3, SMTT(30) DEF CheckExisting, Existing, ConfirmedRows, Return
<1>4. ASSUME NEW c \in Calls, AcquireLock(c)
      PROVE  \A d \in Calls : CallState(d)'
  BY <1>4 DEF AcquireLock, Return
<1>5. ASSUME NEW c \in Calls, CreateSettlement(c)
      PROVE  \A d \in Calls : CallState(d)'
  BY <1>5 DEF CreateSettlement
<1>6. ASSUME NEW c \in Calls, EarlyThrows(c)
      PROVE  \A d \in Calls : CallState(d)'
  BY <1>6 DEF EarlyThrows, Return, Fault
<1>7. ASSUME NEW c \in Calls, StartSubmit(c)
      PROVE  \A d \in Calls : CallState(d)'
  BY <1>7 DEF StartSubmit
<1>8. ASSUME NEW c \in Calls, PrepareFails(c)
      PROVE  \A d \in Calls : CallState(d)'
  BY <1>8 DEF PrepareFails
<1>9. ASSUME NEW c \in Calls, SubmitProgress(c)
      PROVE  \A d \in Calls : CallState(d)'
  <2>1. SubmitStep(c) /\ pc[c] = "submit" /\ UNCHANGED serviceVars
    BY <1>9 DEF SubmitProgress
  <2>2. QED
    BY <2>1, SubmitEffect DEF serviceVars
<1>10. ASSUME NEW c \in Calls, Persist(c)
      PROVE  \A d \in Calls : CallState(d)'
  BY <1>10 DEF Persist, CommitConfirmed, Leave
<1>11. ASSUME NEW c \in Calls, PersistFails(c)
      PROVE  \A d \in Calls : CallState(d)'
  BY <1>11 DEF PersistFails, CommitConfirmed, Fault
<1>12. ASSUME NEW c \in Calls, MarkFailed(c)
      PROVE  \A d \in Calls : CallState(d)'
  BY <1>12 DEF MarkFailed, Failing
<1>13. ASSUME NEW c \in Calls, ReleaseAfterFailure(c)
      PROVE  \A d \in Calls : CallState(d)'
  BY <1>13, SMTT(30) DEF ReleaseAfterFailure, FreeLock, Leave
<1>14. ASSUME NEW c \in Calls, CatchThrows(c)
      PROVE  \A d \in Calls : CallState(d)'
  BY <1>14 DEF CatchThrows, Failing, FreeLock, Leave, Fault
<1>15. ASSUME NEW c \in Calls, ReleaseFinally(c)
      PROVE  \A d \in Calls : CallState(d)'
  BY <1>15 DEF ReleaseFinally, FreeLock
<1>16. ASSUME NEW c \in Calls, ReleaseSwallowed(c)
      PROVE  \A d \in Calls : CallState(d)'
  BY <1>16 DEF ReleaseSwallowed, Fault
<1>17. ASSUME NEW c \in Calls, Crash(c)
      PROVE  \A d \in Calls : CallState(d)'
  BY <1>17 DEF Crash, Fault
<1>18. ASSUME NEW c \in Calls, NEW i \in Attempts, ChainMines(c, i)
      PROVE  \A d \in Calls : CallState(d)'
  <2>1. Mine(c, i) /\ UNCHANGED serviceVars
    BY <1>18 DEF ChainMines
  <2>2. QED
    BY <2>1, MineEffect DEF serviceVars
<1>19. ASSUME NEW r \in Requests, LockExpires(r)
      PROVE  \A d \in Calls : CallState(d)'
  BY <1>19, NoCallAssumption DEF LockExpires, Holding
<1>20. QED
  BY <1>1, <1>2, <1>3, <1>4, <1>5, <1>6, <1>7, <1>8, <1>9,
     <1>10, <1>11, <1>12, <1>13, <1>14, <1>15, <1>16, <1>17, <1>18, <1>19
     DEF SettleNext, Settle, TokenMines, Handler, FaultStep

\* The RPCs not tried yet.
LEMMA UntriedStep ==
  ASSUME TypeOK, \A d \in Calls : CallState(d) /\ Untried(d),
         SettleNext
  PROVE  \A d \in Calls : Untried(d)'
<1> USE DEF TypeOK, ChainTypeOK, chainVars, Untried
<1>1. ASSUME NEW c \in Calls, NEW r \in Requests, LoadRequest(c, r)
      PROVE  \A d \in Calls : Untried(d)'
  BY <1>1 DEF LoadRequest
<1>2. ASSUME NEW c \in Calls, VerificationRequired(c)
      PROVE  \A d \in Calls : Untried(d)'
  BY <1>2 DEF VerificationRequired, Return
<1>3. ASSUME NEW c \in Calls, CheckExisting(c)
      PROVE  \A d \in Calls : Untried(d)'
  BY <1>3, SMTT(30) DEF CheckExisting, Existing, ConfirmedRows, Return
<1>4. ASSUME NEW c \in Calls, AcquireLock(c)
      PROVE  \A d \in Calls : Untried(d)'
  BY <1>4 DEF AcquireLock, Return
<1>5. ASSUME NEW c \in Calls, CreateSettlement(c)
      PROVE  \A d \in Calls : Untried(d)'
  BY <1>5 DEF CreateSettlement
<1>6. ASSUME NEW c \in Calls, EarlyThrows(c)
      PROVE  \A d \in Calls : Untried(d)'
  BY <1>6 DEF EarlyThrows, Return, Fault
<1>7. ASSUME NEW c \in Calls, StartSubmit(c)
      PROVE  \A d \in Calls : Untried(d)'
  BY <1>7 DEF StartSubmit, CallState, BeforeSubmit, BeforeRow, Submitted
<1>8. ASSUME NEW c \in Calls, PrepareFails(c)
      PROVE  \A d \in Calls : Untried(d)'
  BY <1>8 DEF PrepareFails
<1>9. ASSUME NEW c \in Calls, SubmitProgress(c)
      PROVE  \A d \in Calls : Untried(d)'
  <2>1. SubmitStep(c)
    BY <1>9 DEF SubmitProgress
  <2>2. QED
    BY <2>1, SubmitEffect
<1>10. ASSUME NEW c \in Calls, Persist(c)
      PROVE  \A d \in Calls : Untried(d)'
  BY <1>10 DEF Persist, CommitConfirmed, Leave
<1>11. ASSUME NEW c \in Calls, PersistFails(c)
      PROVE  \A d \in Calls : Untried(d)'
  BY <1>11 DEF PersistFails, CommitConfirmed, Fault
<1>12. ASSUME NEW c \in Calls, MarkFailed(c)
      PROVE  \A d \in Calls : Untried(d)'
  BY <1>12 DEF MarkFailed, Failing
<1>13. ASSUME NEW c \in Calls, ReleaseAfterFailure(c)
      PROVE  \A d \in Calls : Untried(d)'
  BY <1>13, SMTT(30) DEF ReleaseAfterFailure, FreeLock, Leave
<1>14. ASSUME NEW c \in Calls, CatchThrows(c)
      PROVE  \A d \in Calls : Untried(d)'
  BY <1>14 DEF CatchThrows, Failing, FreeLock, Leave, Fault
<1>15. ASSUME NEW c \in Calls, ReleaseFinally(c)
      PROVE  \A d \in Calls : Untried(d)'
  BY <1>15 DEF ReleaseFinally, FreeLock
<1>16. ASSUME NEW c \in Calls, ReleaseSwallowed(c)
      PROVE  \A d \in Calls : Untried(d)'
  BY <1>16 DEF ReleaseSwallowed, Fault
<1>17. ASSUME NEW c \in Calls, Crash(c)
      PROVE  \A d \in Calls : Untried(d)'
  BY <1>17 DEF Crash, Fault
<1>18. ASSUME NEW c \in Calls, NEW i \in Attempts, ChainMines(c, i)
      PROVE  \A d \in Calls : Untried(d)'
  <2>1. Mine(c, i)
    BY <1>18 DEF ChainMines
  <2>2. /\ UNCHANGED <<leg, attempt>>
        /\ \A d \in Calls, j \in Attempts :
             tx[d][j] # "pending" => tx'[d][j] = tx[d][j]
    BY <2>1, MineEffect
  <2>3. \A d \in Calls : attempt[d] \in Attempts
    OBVIOUS
  <2>4. ASSUME NEW d \in Calls PROVE Untried(d)'
    <3>1. \A j \in Attempts : tx[d][j] # "pending" => tx'[d][j] = tx[d][j]
      BY <2>2
    <3>2. UNCHANGED <<leg[d], attempt[d]>>
      BY <2>2
    <3>3. tx[d][attempt[d]] = "success" => tx'[d][attempt'[d]] = "success"
      BY <2>3, <3>1, <3>2
    <3>4. \A j \in Attempts : tx[d][j] = "none" => tx'[d][j] = "none"
      BY <3>1
    <3>5. QED
      BY <3>2, <3>3, <3>4
  <2>5. QED
    BY <2>4
<1>19. ASSUME NEW r \in Requests, LockExpires(r)
      PROVE  \A d \in Calls : Untried(d)'
  BY <1>19 DEF LockExpires
<1>20. QED
  BY <1>1, <1>2, <1>3, <1>4, <1>5, <1>6, <1>7, <1>8, <1>9,
     <1>10, <1>11, <1>12, <1>13, <1>14, <1>15, <1>16, <1>17, <1>18, <1>19
     DEF SettleNext, Settle, TokenMines, Handler, FaultStep

\* Receipts.
LEMMA ReceiptStep ==
  ASSUME TypeOK, \A d \in Calls : CallState(d) /\ Untried(d),
         \A s \in Requests : ReceiptState(s),
         SettleNext
  PROVE  \A s \in Requests : ReceiptState(s)'
<1> USE NoCallAssumption DEF TypeOK, ChainTypeOK, chainVars, Goto, Answer, ReceiptState,
     AfterSubmit
<1>1. ASSUME NEW c \in Calls, NEW r \in Requests, LoadRequest(c, r)
      PROVE  \A s \in Requests : ReceiptState(s)'
  BY <1>1 DEF LoadRequest
<1>2. ASSUME NEW c \in Calls, VerificationRequired(c)
      PROVE  \A s \in Requests : ReceiptState(s)'
  BY <1>2 DEF VerificationRequired, Return
<1>3. ASSUME NEW c \in Calls, CheckExisting(c)
      PROVE  \A s \in Requests : ReceiptState(s)'
  BY <1>3, SMTT(30) DEF CheckExisting, Existing, ConfirmedRows, Return
<1>4. ASSUME NEW c \in Calls, AcquireLock(c)
      PROVE  \A s \in Requests : ReceiptState(s)'
  BY <1>4 DEF AcquireLock, Return
<1>5. ASSUME NEW c \in Calls, CreateSettlement(c)
      PROVE  \A s \in Requests : ReceiptState(s)'
  BY <1>5 DEF CreateSettlement
<1>6. ASSUME NEW c \in Calls, EarlyThrows(c)
      PROVE  \A s \in Requests : ReceiptState(s)'
  BY <1>6 DEF EarlyThrows, Return, Fault
<1>7. ASSUME NEW c \in Calls, StartSubmit(c)
      PROVE  \A s \in Requests : ReceiptState(s)'
  BY <1>7 DEF StartSubmit
<1>8. ASSUME NEW c \in Calls, PrepareFails(c)
      PROVE  \A s \in Requests : ReceiptState(s)'
  BY <1>8 DEF PrepareFails
<1>9. ASSUME NEW c \in Calls, SubmitProgress(c)
      PROVE  \A s \in Requests : ReceiptState(s)'
  <2>1. SubmitStep(c) /\ UNCHANGED serviceVars
    BY <1>9 DEF SubmitProgress
  <2>2. QED
    BY <2>1, SubmitEffect DEF serviceVars
<1>10. ASSUME NEW c \in Calls, Persist(c)
      PROVE  \A s \in Requests : ReceiptState(s)'
  BY <1>10 DEF Persist, CommitConfirmed, Leave, CallState, Steps, Untried
<1>11. ASSUME NEW c \in Calls, PersistFails(c)
      PROVE  \A s \in Requests : ReceiptState(s)'
  BY <1>11 DEF PersistFails, CommitConfirmed, Fault, CallState, Steps, Untried
<1>12. ASSUME NEW c \in Calls, MarkFailed(c)
      PROVE  \A s \in Requests : ReceiptState(s)'
  BY <1>12 DEF MarkFailed, Failing
<1>13. ASSUME NEW c \in Calls, ReleaseAfterFailure(c)
      PROVE  \A s \in Requests : ReceiptState(s)'
  BY <1>13, SMTT(30) DEF ReleaseAfterFailure, FreeLock, Leave
<1>14. ASSUME NEW c \in Calls, CatchThrows(c)
      PROVE  \A s \in Requests : ReceiptState(s)'
  BY <1>14 DEF CatchThrows, Failing, FreeLock, Leave, Fault
<1>15. ASSUME NEW c \in Calls, ReleaseFinally(c)
      PROVE  \A s \in Requests : ReceiptState(s)'
  BY <1>15 DEF ReleaseFinally, FreeLock
<1>16. ASSUME NEW c \in Calls, ReleaseSwallowed(c)
      PROVE  \A s \in Requests : ReceiptState(s)'
  BY <1>16 DEF ReleaseSwallowed, Fault
<1>17. ASSUME NEW c \in Calls, Crash(c)
      PROVE  \A s \in Requests : ReceiptState(s)'
  BY <1>17 DEF Crash, Fault
<1>18. ASSUME NEW c \in Calls, NEW i \in Attempts, ChainMines(c, i)
      PROVE  \A s \in Requests : ReceiptState(s)'
  <2>1. Mine(c, i) /\ UNCHANGED serviceVars
    BY <1>18 DEF ChainMines
  <2>2. /\ UNCHANGED <<req, pc, receipt>>
        /\ \A d \in Calls, j \in Attempts :
             tx[d][j] # "pending" => tx'[d][j] = tx[d][j]
    BY <2>1, MineEffect DEF serviceVars
  <2>3. QED
    BY <2>2
<1>19. ASSUME NEW r \in Requests, LockExpires(r)
      PROVE  \A s \in Requests : ReceiptState(s)'
  BY <1>19 DEF LockExpires
<1>20. QED
  BY <1>1, <1>2, <1>3, <1>4, <1>5, <1>6, <1>7, <1>8, <1>9,
     <1>10, <1>11, <1>12, <1>13, <1>14, <1>15, <1>16, <1>17, <1>18, <1>19
     DEF SettleNext, Settle, TokenMines, Handler, FaultStep

\* Confirmed rows and answers.
LEMMA AnswerStep ==
  ASSUME TypeOK, \A d \in Calls : CallState(d) /\ AnswerState(d),
         SettleNext
  PROVE  \A d \in Calls : AnswerState(d)'
<1> USE NoCallAssumption, AnswerKinds DEF TypeOK, ChainTypeOK, chainVars, Goto, Answer,
     Outcomes, AnswerState
<1>1. ASSUME NEW c \in Calls, NEW r \in Requests, LoadRequest(c, r)
      PROVE  \A d \in Calls : AnswerState(d)'
  BY <1>1 DEF LoadRequest, CallState, Steps, BeforeRow
<1>2. ASSUME NEW c \in Calls, VerificationRequired(c)
      PROVE  \A d \in Calls : AnswerState(d)'
  BY <1>2 DEF VerificationRequired, Return
<1>3. ASSUME NEW c \in Calls, CheckExisting(c)
      PROVE  \A d \in Calls : AnswerState(d)'
  <2>1. CASE UNCHANGED answer
    BY <1>3, <2>1 DEF CheckExisting, Return
  <2>2. ASSUME NEW s \in Existing(req[c]), Return(c, Confirmed(s))
        PROVE  \A d \in Calls : AnswerState(d)'
    <3>1. s \in Calls /\ req[s] = req[c] /\ receipt[req[c]] = s
      BY <2>2 DEF Existing, ConfirmedRows
    <3>2. req[c] \in Requests /\ UNCHANGED <<req, row, receipt>>
      BY <1>3, SMTT(30) DEF CheckExisting, CallState, Steps
    <3>3. QED
      BY <2>2, <3>1, <3>2 DEF Return
  <2>3. QED
    BY <1>3, <2>1, <2>2 DEF CheckExisting
<1>4. ASSUME NEW c \in Calls, AcquireLock(c)
      PROVE  \A d \in Calls : AnswerState(d)'
  <2>1. UNCHANGED <<req, row, receipt>> /\ pc[c] = "lock"
    BY <1>4 DEF AcquireLock
  <2>2. answer'[c].kind # "confirmed" /\ \A d \in Calls : d # c => answer'[d] = answer[d]
    BY <1>4 DEF AcquireLock, Return
  <2>3. \A d \in Calls : d # c => pc'[d] = pc[d]
    BY <1>4 DEF AcquireLock, Return
  <2>4. QED
    BY <2>1, <2>2, <2>3
<1>5. ASSUME NEW c \in Calls, CreateSettlement(c)
      PROVE  \A d \in Calls : AnswerState(d)'
  BY <1>5 DEF CreateSettlement
<1>6. ASSUME NEW c \in Calls, EarlyThrows(c)
      PROVE  \A d \in Calls : AnswerState(d)'
  BY <1>6 DEF EarlyThrows, Return, Fault
<1>7. ASSUME NEW c \in Calls, StartSubmit(c)
      PROVE  \A d \in Calls : AnswerState(d)'
  BY <1>7 DEF StartSubmit
<1>8. ASSUME NEW c \in Calls, PrepareFails(c)
      PROVE  \A d \in Calls : AnswerState(d)'
  BY <1>8 DEF PrepareFails
<1>9. ASSUME NEW c \in Calls, SubmitProgress(c)
      PROVE  \A d \in Calls : AnswerState(d)'
  <2>1. UNCHANGED <<req, serviceVars>>
    BY <1>9 DEF SubmitProgress, SubmitStep, WriteOk, WriteFails, ReceiptOk, ReceiptFails
  <2>2. QED
    BY <2>1 DEF serviceVars
<1>10. ASSUME NEW c \in Calls, Persist(c)
      PROVE  \A d \in Calls : AnswerState(d)'
  BY <1>10 DEF Persist, CommitConfirmed, Leave, CallState, Steps, BeforeRow
<1>11. ASSUME NEW c \in Calls, PersistFails(c)
      PROVE  \A d \in Calls : AnswerState(d)'
  BY <1>11 DEF PersistFails, CommitConfirmed, Fault, CallState, Steps, BeforeRow
<1>12. ASSUME NEW c \in Calls, MarkFailed(c)
      PROVE  \A d \in Calls : AnswerState(d)'
  BY <1>12 DEF MarkFailed, Failing
<1>13. ASSUME NEW c \in Calls, ReleaseAfterFailure(c)
      PROVE  \A d \in Calls : AnswerState(d)'
  BY <1>13, SMTT(30) DEF ReleaseAfterFailure, FreeLock, Leave
<1>14. ASSUME NEW c \in Calls, CatchThrows(c)
      PROVE  \A d \in Calls : AnswerState(d)'
  BY <1>14 DEF CatchThrows, Failing, FreeLock, Leave, Fault
<1>15. ASSUME NEW c \in Calls, ReleaseFinally(c)
      PROVE  \A d \in Calls : AnswerState(d)'
  BY <1>15 DEF ReleaseFinally, FreeLock
<1>16. ASSUME NEW c \in Calls, ReleaseSwallowed(c)
      PROVE  \A d \in Calls : AnswerState(d)'
  BY <1>16 DEF ReleaseSwallowed, Fault
<1>17. ASSUME NEW c \in Calls, Crash(c)
      PROVE  \A d \in Calls : AnswerState(d)'
  BY <1>17 DEF Crash, Fault
<1>18. ASSUME NEW c \in Calls, NEW i \in Attempts, ChainMines(c, i)
      PROVE  \A d \in Calls : AnswerState(d)'
  <2>1. UNCHANGED <<req, serviceVars>>
    BY <1>18 DEF ChainMines, Mine
  <2>2. QED
    BY <2>1 DEF serviceVars
<1>19. ASSUME NEW r \in Requests, LockExpires(r)
      PROVE  \A d \in Calls : AnswerState(d)'
  BY <1>19 DEF LockExpires
<1>20. QED
  BY <1>1, <1>2, <1>3, <1>4, <1>5, <1>6, <1>7, <1>8, <1>9,
     <1>10, <1>11, <1>12, <1>13, <1>14, <1>15, <1>16, <1>17, <1>18, <1>19
     DEF SettleNext, Settle, TokenMines, Handler, FaultStep

\* Failed rows.
LEMMA FailStep ==
  ASSUME TypeOK, \A d \in Calls : CallState(d) /\ AnswerState(d) /\ FailState(d),
         SettleNext
  PROVE  \A d \in Calls : FailState(d)'
<1> USE MaxFaultsAssumption, AnswerKinds DEF TypeOK, ChainTypeOK, chainVars, Goto, Answer,
     Outcomes, FailState
<1>1. ASSUME NEW c \in Calls, NEW r \in Requests, LoadRequest(c, r)
      PROVE  \A d \in Calls : FailState(d)'
  BY <1>1 DEF LoadRequest, CallState, Steps, BeforeRow, AnswerState
<1>2. ASSUME NEW c \in Calls, VerificationRequired(c)
      PROVE  \A d \in Calls : FailState(d)'
  BY <1>2 DEF VerificationRequired, Return
<1>3. ASSUME NEW c \in Calls, CheckExisting(c)
      PROVE  \A d \in Calls : FailState(d)'
  BY <1>3, SMTT(30) DEF CheckExisting, Existing, ConfirmedRows, Return
<1>4. ASSUME NEW c \in Calls, AcquireLock(c)
      PROVE  \A d \in Calls : FailState(d)'
  BY <1>4 DEF AcquireLock, Return
<1>5. ASSUME NEW c \in Calls, CreateSettlement(c)
      PROVE  \A d \in Calls : FailState(d)'
  BY <1>5 DEF CreateSettlement, CallState, Steps, BeforeRow, AnswerState
<1>6. ASSUME NEW c \in Calls, EarlyThrows(c)
      PROVE  \A d \in Calls : FailState(d)'
  BY <1>6 DEF EarlyThrows, Return, Fault, CallState, Steps, BeforeRow, AnswerState
<1>7. ASSUME NEW c \in Calls, StartSubmit(c)
      PROVE  \A d \in Calls : FailState(d)'
  BY <1>7 DEF StartSubmit
<1>8. ASSUME NEW c \in Calls, PrepareFails(c)
      PROVE  \A d \in Calls : FailState(d)'
  BY <1>8 DEF PrepareFails
<1>9. ASSUME NEW c \in Calls, SubmitProgress(c)
      PROVE  \A d \in Calls : FailState(d)'
  <2>1. UNCHANGED <<req, serviceVars>>
    BY <1>9 DEF SubmitProgress, SubmitStep, WriteOk, WriteFails, ReceiptOk, ReceiptFails
  <2>2. QED
    BY <2>1 DEF serviceVars
<1>10. ASSUME NEW c \in Calls, Persist(c)
      PROVE  \A d \in Calls : FailState(d)'
  BY <1>10 DEF Persist, CommitConfirmed, Leave, CallState, Steps, BeforeRow, AnswerState
<1>11. ASSUME NEW c \in Calls, PersistFails(c)
      PROVE  \A d \in Calls : FailState(d)'
  BY <1>11 DEF PersistFails, CommitConfirmed, Fault
<1>12. ASSUME NEW c \in Calls, MarkFailed(c)
      PROVE  \A d \in Calls : FailState(d)'
  BY <1>12 DEF MarkFailed, Failing
<1>13. ASSUME NEW c \in Calls, ReleaseAfterFailure(c)
      PROVE  \A d \in Calls : FailState(d)'
  BY <1>13, SMTT(30) DEF ReleaseAfterFailure, FreeLock, Leave, CallState, Steps,
       BeforeRow, AnswerState
<1>14. ASSUME NEW c \in Calls, CatchThrows(c)
      PROVE  \A d \in Calls : FailState(d)'
  BY <1>14 DEF CatchThrows, Failing, FreeLock, Leave, Fault, CallState, Steps, BeforeRow,
       AnswerState
<1>15. ASSUME NEW c \in Calls, ReleaseFinally(c)
      PROVE  \A d \in Calls : FailState(d)'
  BY <1>15 DEF ReleaseFinally, FreeLock
<1>16. ASSUME NEW c \in Calls, ReleaseSwallowed(c)
      PROVE  \A d \in Calls : FailState(d)'
  BY <1>16 DEF ReleaseSwallowed, Fault
<1>17. ASSUME NEW c \in Calls, Crash(c)
      PROVE  \A d \in Calls : FailState(d)'
  BY <1>17 DEF Crash, Fault
<1>18. ASSUME NEW c \in Calls, NEW i \in Attempts, ChainMines(c, i)
      PROVE  \A d \in Calls : FailState(d)'
  <2>1. UNCHANGED <<req, serviceVars>>
    BY <1>18 DEF ChainMines, Mine
  <2>2. QED
    BY <2>1 DEF serviceVars
<1>19. ASSUME NEW r \in Requests, LockExpires(r)
      PROVE  \A d \in Calls : FailState(d)'
  BY <1>19 DEF LockExpires
<1>20. QED
  BY <1>1, <1>2, <1>3, <1>4, <1>5, <1>6, <1>7, <1>8, <1>9,
     <1>10, <1>11, <1>12, <1>13, <1>14, <1>15, <1>16, <1>17, <1>18, <1>19
     DEF SettleNext, Settle, TokenMines, Handler, FaultStep

\* The lock.
LEMMA LockStep ==
  ASSUME TypeOK, \A d \in Calls : CallState(d) /\ AnswerState(d) /\ FailState(d),
         \A s \in Requests : LockState(s),
         SettleNext
  PROVE  \A s \in Requests : LockState(s)'
<1> USE NoCallAssumption, MaxFaultsAssumption DEF TypeOK, ChainTypeOK, chainVars, Goto,
     Answer, LockState, Disturbed, Holding
<1>1. ASSUME NEW c \in Calls, NEW r \in Requests, LoadRequest(c, r)
      PROVE  \A s \in Requests : LockState(s)'
  BY <1>1, SMTT(30) DEF LoadRequest, CallState, Steps, FailState, BeforeRow, Told, Confirmed,
       AnswerState
<1>2. ASSUME NEW c \in Calls, VerificationRequired(c)
      PROVE  \A s \in Requests : LockState(s)'
  BY <1>2 DEF VerificationRequired, Return, CallState, Steps, FailState, BeforeRow, Told,
       Confirmed, AnswerState
<1>3. ASSUME NEW c \in Calls, CheckExisting(c)
      PROVE  \A s \in Requests : LockState(s)'
  BY <1>3, SMTT(30) DEF CheckExisting, Existing, ConfirmedRows, Return, CallState, Steps,
       FailState, BeforeRow, Told, Confirmed, AnswerState
<1>4. ASSUME NEW c \in Calls, AcquireLock(c)
      PROVE  \A s \in Requests : LockState(s)'
  BY <1>4 DEF AcquireLock, Return, CallState, Steps, FailState, BeforeRow, Told,
       Confirmed, AnswerState
<1>5. ASSUME NEW c \in Calls, CreateSettlement(c)
      PROVE  \A s \in Requests : LockState(s)'
  BY <1>5 DEF CreateSettlement, CallState, Steps, FailState, BeforeRow, Told, Confirmed,
       AnswerState
<1>6. ASSUME NEW c \in Calls, EarlyThrows(c)
      PROVE  \A s \in Requests : LockState(s)'
  BY <1>6 DEF EarlyThrows, Return, Fault, CallState, Steps, FailState, BeforeRow, Told,
       Confirmed, AnswerState
<1>7. ASSUME NEW c \in Calls, StartSubmit(c)
      PROVE  \A s \in Requests : LockState(s)'
  BY <1>7 DEF StartSubmit, CallState, Steps, FailState, BeforeRow, Told, Confirmed,
       AnswerState
<1>8. ASSUME NEW c \in Calls, PrepareFails(c)
      PROVE  \A s \in Requests : LockState(s)'
  BY <1>8 DEF PrepareFails, CallState, Steps, FailState, BeforeRow, Told, Confirmed,
       AnswerState
<1>9. ASSUME NEW c \in Calls, SubmitProgress(c)
      PROVE  \A s \in Requests : LockState(s)'
  <2>1. UNCHANGED <<req, serviceVars>>
    BY <1>9 DEF SubmitProgress, SubmitStep, WriteOk, WriteFails, ReceiptOk, ReceiptFails
  <2>2. QED
    BY <2>1 DEF serviceVars
<1>10. ASSUME NEW c \in Calls, Persist(c)
      PROVE  \A s \in Requests : LockState(s)'
  <2>1. /\ pc[c] = "submit" /\ row[c] = "pending" /\ UNCHANGED <<req, lock, overran, faults>>
        /\ \A d \in Calls : d # c => pc'[d] = pc[d] /\ answer'[d] = answer[d] /\ row'[d] = row[d]
    BY <1>10 DEF Persist, CommitConfirmed, Leave, CallState
  <2>2. Holding(c) /\ \A d \in Calls : d # c => (Holding(d)' <=> Holding(d))
    BY <2>1
  <2>3. \A s \in Requests : Disturbed(s) => Disturbed(s)'
    BY <2>1
  <2>4. QED
    BY <2>1, <2>2, <2>3
<1>11. ASSUME NEW c \in Calls, PersistFails(c)
      PROVE  \A s \in Requests : LockState(s)'
  BY <1>11, SMTT(30) DEF PersistFails, CommitConfirmed, Fault, CallState, Steps, FailState,
       BeforeRow, Told, Confirmed, AnswerState
<1>12. ASSUME NEW c \in Calls, MarkFailed(c)
      PROVE  \A s \in Requests : LockState(s)'
  BY <1>12 DEF MarkFailed, Failing, CallState, Steps, FailState, BeforeRow, Told,
       Confirmed, AnswerState
<1>13. ASSUME NEW c \in Calls, ReleaseAfterFailure(c)
      PROVE  \A s \in Requests : LockState(s)'
  BY <1>13, SMTT(30) DEF ReleaseAfterFailure, FreeLock, Leave, CallState, Steps,
       FailState, BeforeRow, Told, Confirmed, AnswerState
<1>14. ASSUME NEW c \in Calls, CatchThrows(c)
      PROVE  \A s \in Requests : LockState(s)'
  BY <1>14 DEF CatchThrows, Failing, FreeLock, Leave, Fault, CallState, Steps, FailState,
       BeforeRow, Told, Confirmed, AnswerState
<1>15. ASSUME NEW c \in Calls, ReleaseFinally(c)
      PROVE  \A s \in Requests : LockState(s)'
  BY <1>15 DEF ReleaseFinally, FreeLock, CallState, Steps, FailState, BeforeRow, Told,
       Confirmed, AnswerState
<1>16. ASSUME NEW c \in Calls, ReleaseSwallowed(c)
      PROVE  \A s \in Requests : LockState(s)'
  BY <1>16 DEF ReleaseSwallowed, Fault, CallState, Steps, FailState, BeforeRow, Told,
       Confirmed, AnswerState
<1>17. ASSUME NEW c \in Calls, Crash(c)
      PROVE  \A s \in Requests : LockState(s)'
  BY <1>17 DEF Crash, Fault, CallState, Steps, FailState, BeforeRow, Told, Confirmed,
       AnswerState
<1>18. ASSUME NEW c \in Calls, NEW i \in Attempts, ChainMines(c, i)
      PROVE  \A s \in Requests : LockState(s)'
  <2>1. UNCHANGED <<req, serviceVars>>
    BY <1>18 DEF ChainMines, Mine
  <2>2. QED
    BY <2>1 DEF serviceVars
<1>19. ASSUME NEW r \in Requests, LockExpires(r)
      PROVE  \A s \in Requests : LockState(s)'
  BY <1>19 DEF LockExpires, CallState, Steps, FailState, BeforeRow, Told, Confirmed,
       AnswerState
<1>20. QED
  BY <1>1, <1>2, <1>3, <1>4, <1>5, <1>6, <1>7, <1>8, <1>9,
     <1>10, <1>11, <1>12, <1>13, <1>14, <1>15, <1>16, <1>17, <1>18, <1>19
     DEF SettleNext, Settle, TokenMines, Handler, FaultStep

-----------------------------------------------------------------------------
(***************************************************************************)
(* The refinement: a step of settlePayment moves the funds of one request, *)
(* issues one receipt, tells one caller, or changes nothing the contract   *)
(* speaks of.                                                              *)
(***************************************************************************)

Moved == {r \in Requests : Transferred(r)}
ToldMap == [r \in Requests |-> ToldFor(r)]
contractVars == <<Moved, receipt, ToldMap>>

\* The caller of c has been told that its payment is confirmed.
Tells(c) == pc[c] = "done" /\ answer[c].kind = "confirmed"

\* Who is told nothing new changes nothing.
LEMMA ToldSame ==
  ASSUME \A d \in Calls : Tells(d)' <=> Tells(d),
         \A d \in Calls : Tells(d) => answer'[d] = answer[d] /\ req'[d] = req[d]
  PROVE  ToldMap' = ToldMap
<1>1. ASSUME NEW r \in Requests
      PROVE  ToldFor(r)' = ToldFor(r)
  <2>1. {d \in Calls : pc[d] = "done" /\ req[d] = r /\ answer[d].kind = "confirmed"}'
          = {d \in Calls : pc[d] = "done" /\ req[d] = r /\ answer[d].kind = "confirmed"}
    BY DEF Tells
  <2>2. QED
    BY <2>1 DEF ToldFor, Tells
<1>2. QED
  BY <1>1 DEF ToldMap

\* One more caller who is told adds the settlement of its answer.
LEMMA ToldMore ==
  ASSUME NEW c \in Calls, req[c] \in Requests, ~Tells(c), Tells(c)', UNCHANGED req,
         \A d \in Calls : d # c => pc'[d] = pc[d] /\ answer'[d] = answer[d]
  PROVE  ToldMap' = [ToldMap EXCEPT ![req[c]] = @ \cup {answer'[c].settlement}]
<1> DEFINE Who(r) == {d \in Calls : pc[d] = "done" /\ req[d] = r /\ answer[d].kind = "confirmed"}
<1>1. ASSUME NEW r \in Requests, r # req[c]
      PROVE  ToldFor(r)' = ToldFor(r)
  <2>1. Who(r)' = Who(r) /\ c \notin Who(r)
    BY <1>1
  <2>2. \A d \in Who(r) : answer'[d] = answer[d]
    BY <2>1
  <2>3. QED
    BY <2>1, <2>2 DEF ToldFor
<1>2. ToldFor(req[c])' = ToldFor(req[c]) \cup {answer'[c].settlement}
  <2>1. Who(req[c])' = Who(req[c]) \cup {c} /\ c \notin Who(req[c])
    BY DEF Tells
  <2>2. \A d \in Who(req[c]) : answer'[d] = answer[d]
    BY <2>1
  <2>3. ToldFor(req[c])' = {answer'[d].settlement : d \in Who(req[c])'}
    BY DEF ToldFor
  <2>4. QED
    BY <2>1, <2>2, <2>3 DEF ToldFor
<1>3. QED
  BY <1>1, <1>2 DEF ToldMap

\* The chain, the receipts and who was told are all the contract sees.
LEMMA Stutter ==
  ASSUME UNCHANGED <<req, tx, receipt>>,
         \A d \in Calls : Tells(d)' <=> Tells(d),
         \A d \in Calls : Tells(d) => answer'[d] = answer[d]
  PROVE  UNCHANGED contractVars
<1>1. ToldMap' = ToldMap
  BY ToldSame
<1>2. QED
  BY <1>1 DEF contractVars, Moved, Transferred

\* Funds have moved where a transaction succeeded.
LEMMA MovedSame ==
  ASSUME \A d \in Calls, i \in Attempts :
           (tx'[d][i] = "success") <=> (tx[d][i] = "success"),
         \A d \in Calls, i \in Attempts : tx[d][i] = "success" => req'[d] = req[d]
  PROVE  Moved' = Moved
BY DEF Moved, Transferred

\* The chain moves the funds of a request once, and only of a request.
LEMMA MineMoves ==
  ASSUME PayInv, NEW c \in Calls, NEW i \in Attempts, ChainMines(c, i)
  PROVE  [Contract!Next]_contractVars
<1> USE DEF PayInv, TypeOK
<1>1. /\ Mine(c, i) /\ tx[c][i] = "pending"
      /\ UNCHANGED <<req, pc, receipt, answer>>
  BY MineEffect DEF ChainMines, Mine, serviceVars
<1>2. req[c] \in Requests
  BY <1>1 DEF CallState, Submitted
<1>3. ToldMap' = ToldMap
  BY <1>1, ToldSame DEF Tells
<1>4. /\ \A d \in Calls, j \in Attempts : d # c \/ j # i => tx'[d][j] = tx[d][j]
      /\ tx'[c][i] \in {"success", "reverted"}
  BY <1>1, MineEffect
<1>5. CASE tx'[c][i] = "success"
  <2>1. ~Transferred(req[c])
    BY <1>1, <1>5 DEF Mine, ChainTypeOK
  <2>2. \A r \in Requests : Transferred(r)' <=> Transferred(r) \/ r = req[c]
    <3>1. \A d \in Calls, j \in Attempts :
            tx'[d][j] = "success" <=> tx[d][j] = "success" \/ (d = c /\ j = i)
      BY <1>1, <1>5, <1>4
    <3>2. QED
      BY <1>1, <3>1 DEF Transferred
  <2>3. Contract!Move(req[c])
    BY <1>1, <1>2, <1>3, <2>1, <2>2 DEF Contract!Move, Moved, ToldMap
  <2>4. QED
    BY <1>2, <2>3 DEF Contract!Next
<1>6. CASE tx'[c][i] = "reverted"
  <2>1. Moved' = Moved
    BY <1>1, <1>6, <1>4, MovedSame
  <2>2. QED
    BY <1>1, <1>3, <2>1 DEF contractVars
<1>7. QED
  BY <1>4, <1>5, <1>6

\* submitOnChain's own steps move nothing.
LEMMA SubmitSilent ==
  ASSUME PayInv, NEW c \in Calls, SubmitProgress(c)
  PROVE  UNCHANGED contractVars
<1>1. SubmitStep(c) /\ UNCHANGED <<pc, answer, receipt>>
  BY DEF SubmitProgress, serviceVars
<1>2. /\ UNCHANGED req
      /\ \A d \in Calls, i \in Attempts : d # c => tx'[d][i] = tx[d][i]
      /\ \A i \in Attempts : tx[c][i] = "success" <=> tx'[c][i] = "success"
  BY <1>1, SubmitEffect DEF PayInv, TypeOK
<1>3. Moved' = Moved
  BY <1>2, MovedSame
<1>4. ToldMap' = ToldMap
  BY <1>1, <1>2, ToldSame DEF Tells
<1>5. QED
  BY <1>1, <1>3, <1>4 DEF contractVars

\* A committed transaction issues the receipt of the call whose transfer
\* succeeded.
LEMMA CommitIssues ==
  ASSUME PayInv, NEW c \in Calls, Persist(c) \/ PersistFails(c)
  PROVE  [Contract!Next]_contractVars
<1> USE DEF PayInv, TypeOK, ChainTypeOK
<1>1. pc[c] = "submit" /\ leg[c] = "ok" /\ UNCHANGED <<req, tx>>
  BY DEF Persist, PersistFails, chainVars
<1>2. req[c] \in Requests /\ Transferred(req[c])
  BY <1>1 DEF CallState, Steps, Untried, Transferred
<1>3. /\ \A d \in Calls : Tells(d)' <=> Tells(d)
      /\ \A d \in Calls : Tells(d) => answer'[d] = answer[d]
  BY <1>1 DEF Persist, PersistFails, Leave, Goto, Answer, Tells
<1>4. CASE CommitConfirmed(c)
  <2>1. Moved' = Moved /\ ToldMap' = ToldMap
    BY <1>1, <1>3, ToldSame DEF Moved, Transferred
  <2>2. Contract!Issue(req[c], c)
    BY <1>2, <1>4, <2>1 DEF Contract!Issue, CommitConfirmed, Moved, ToldMap
  <2>3. QED
    BY <1>2, <2>2 DEF Contract!Next
<1>5. CASE UNCHANGED receipt
  BY <1>1, <1>3, <1>5, Stutter
<1>6. QED
  BY <1>4, <1>5 DEF Persist, PersistFails

\* A caller that is told is told the settlement of its request's receipt.
LEMMA DoneTells ==
  ASSUME PayInv, NEW c \in Calls, pc[c] # "done", UNCHANGED <<req, tx, receipt>>,
         \A d \in Calls : d # c => pc'[d] = pc[d] /\ answer'[d] = answer[d],
         answer'[c].kind = "confirmed" =>
           /\ req[c] \in Requests
           /\ receipt[req[c]] # NoCall
           /\ answer'[c].settlement = receipt[req[c]]
  PROVE  [Contract!Next]_contractVars
<1>1. CASE Tells(c)'
  <2>1. req[c] \in Requests /\ receipt[req[c]] # NoCall
        /\ answer'[c].settlement = receipt[req[c]]
    BY <1>1 DEF Tells
  <2>2. ToldMap' = [ToldMap EXCEPT ![req[c]] = @ \cup {answer'[c].settlement}]
    BY <1>1, <2>1, ToldMore DEF Tells
  <2>3. Moved' = Moved
    BY DEF Moved, Transferred
  <2>4. Contract!Tell(req[c])
    BY <2>1, <2>2, <2>3 DEF Contract!Tell, Moved, ToldMap
  <2>5. QED
    BY <2>1, <2>4 DEF Contract!Next
<1>2. CASE ~Tells(c)'
  BY <1>2, Stutter DEF Tells
<1>3. QED
  BY <1>1, <1>2

\* Every step of settlePayment is a step of the contract or changes nothing of
\* it.
LEMMA ContractStep ==
  ASSUME PayInv, SettleNext
  PROVE  [Contract!Next]_contractVars
<1> USE DEF PayInv, TypeOK, chainVars, Goto, Answer
<1>1. ASSUME NEW c \in Calls, NEW r \in Requests, LoadRequest(c, r)
      PROVE  [Contract!Next]_contractVars
  <2>1. /\ pc[c] = "idle" /\ UNCHANGED <<tx, receipt, answer>>
        /\ \A d \in Calls : d # c => req'[d] = req[d] /\ pc'[d] = pc[d]
        /\ pc'[c] = "check"
    BY <1>1, SMTT(30) DEF LoadRequest, ChainTypeOK
  <2>2. \A i \in Attempts : tx[c][i] = "none"
    BY <2>1 DEF CallState, BeforeSubmit, BeforeRow, Submitted
  <2>3. Moved' = Moved
    BY <2>1, <2>2, MovedSame
  <2>4. ToldMap' = ToldMap
    BY <2>1, ToldSame DEF Tells
  <2>5. QED
    BY <2>1, <2>3, <2>4 DEF contractVars
<1>2. ASSUME NEW c \in Calls, VerificationRequired(c) \/ AcquireLock(c) \/ EarlyThrows(c)
      PROVE  [Contract!Next]_contractVars
  <2>1. /\ pc[c] # "done" /\ UNCHANGED <<req, tx, receipt>>
        /\ \A d \in Calls : d # c => pc'[d] = pc[d] /\ answer'[d] = answer[d]
    BY <1>2 DEF VerificationRequired, AcquireLock, EarlyThrows, Return
  <2>2. answer'[c].kind = "confirmed" => answer'[c] = answer[c]
    BY <1>2, AnswerKinds DEF VerificationRequired, AcquireLock, EarlyThrows, Return,
         Outcomes
  <2>3. QED
    BY <2>1, <2>2, DoneTells DEF AnswerState
<1>3. ASSUME NEW c \in Calls, CheckExisting(c)
      PROVE  [Contract!Next]_contractVars
  <2>1. /\ pc[c] = "check" /\ req[c] \in Requests /\ UNCHANGED <<req, tx, receipt>>
        /\ \A d \in Calls : d # c => pc'[d] = pc[d] /\ answer'[d] = answer[d]
    BY <1>3, SMTT(30) DEF CheckExisting, Return, CallState, Steps
  <2>2. CASE UNCHANGED answer
    BY <2>1, <2>2, DoneTells DEF AnswerState
  <2>3. ASSUME NEW s \in Existing(req[c]), Return(c, Confirmed(s))
        PROVE  [Contract!Next]_contractVars
    <3>1. s \in Calls /\ receipt[req[c]] = s
      BY DEF Existing, ConfirmedRows, AnswerState
    <3>2. answer'[c].settlement = s
      BY <2>3, <3>1, AnswerKinds DEF Return
    <3>3. QED
      BY <2>1, <3>1, <3>2, NoCallAssumption, DoneTells
  <2>4. QED
    BY <1>3, <2>2, <2>3 DEF CheckExisting
<1>4. ASSUME NEW c \in Calls,
             \/ CreateSettlement(c) \/ StartSubmit(c) \/ PrepareFails(c) \/ MarkFailed(c)
             \/ ReleaseFinally(c) \/ ReleaseSwallowed(c) \/ Crash(c)
      PROVE  [Contract!Next]_contractVars
  <2>1. /\ pc[c] # "done" /\ UNCHANGED <<req, tx, receipt, answer>>
        /\ \A d \in Calls : d # c => pc'[d] = pc[d]
    BY <1>4 DEF CreateSettlement, StartSubmit, PrepareFails, MarkFailed, Failing,
       ReleaseFinally, ReleaseSwallowed, Crash
  <2>2. QED
    BY <2>1, DoneTells DEF AnswerState
<1>5. ASSUME NEW c \in Calls, ReleaseAfterFailure(c) \/ CatchThrows(c)
      PROVE  [Contract!Next]_contractVars
  <2>1. /\ pc[c] # "done" /\ UNCHANGED <<req, tx, receipt>>
        /\ \A d \in Calls : d # c => pc'[d] = pc[d] /\ answer'[d] = answer[d]
    BY <1>5 DEF ReleaseAfterFailure, CatchThrows, Failing, Leave
  <2>2. answer'[c].kind # "confirmed"
    BY <1>5, AnswerKinds DEF ReleaseAfterFailure, CatchThrows, Leave, Outcomes
  <2>3. QED
    BY <2>1, <2>2, DoneTells
<1>6. ASSUME NEW c \in Calls, SubmitProgress(c)
      PROVE  [Contract!Next]_contractVars
  BY <1>6, SubmitSilent
<1>7. ASSUME NEW c \in Calls, Persist(c) \/ PersistFails(c)
      PROVE  [Contract!Next]_contractVars
  BY <1>7, CommitIssues
<1>8. ASSUME NEW c \in Calls, NEW i \in Attempts, ChainMines(c, i)
      PROVE  [Contract!Next]_contractVars
  BY <1>8, MineMoves
<1>9. ASSUME NEW r \in Requests, LockExpires(r)
      PROVE  [Contract!Next]_contractVars
  BY <1>9, Stutter DEF LockExpires, Tells
<1>10. QED
  BY <1>1, <1>2, <1>3, <1>4, <1>5, <1>6, <1>7, <1>8, <1>9
     DEF SettleNext, Settle, TokenMines, Handler, FaultStep

-----------------------------------------------------------------------------
(* The theorems. *)

\* The invariant of settlePayment holds initially.
LEMMA PayInit == DiInit => PayInv
<1> SUFFICES ASSUME DiInit PROVE PayInv
  OBVIOUS
<1> USE DEF DiInit, Init, ChainInit
<1>1. 1 \in Attempts
  BY RpcsAssumption DEF Attempts
<1>2. TypeOK
  BY <1>1, MaxFaultsAssumption, AnswerTypes DEF TypeOK, ChainTypeOK, Steps, Legs,
       TxStatus, Outcomes
<1>3. \A c \in Calls : CallState(c) /\ Untried(c) /\ AnswerState(c) /\ FailState(c)
  BY AnswerKinds DEF CallState, Untried, AnswerState, FailState, Steps, BeforeRow,
     BeforeSubmit, Submitted, Outcomes
<1>4. \A r \in Requests : ReceiptState(r) /\ LockState(r)
  BY DEF ReceiptState, LockState, Holding
<1>5. QED
  BY <1>2, <1>3, <1>4 DEF PayInv

\* verifyPayment counts faults and touches nothing else of settlePayment.
LEMMA VerifyFrame ==
  ASSUME VerifyNext, faults \in 0..MaxFaults
  PROVE  /\ UNCHANGED <<chainVars, pc, lock, row, receipt, answer, overran>>
         /\ faults' \in 0..MaxFaults /\ faults' >= faults
<1>1. Verify!Next /\ UNCHANGED <<chainVars, pc, lock, row, receipt, answer, overran>>
  BY DEF VerifyNext
<1>2. UNCHANGED faults \/ Verify!Fault
  <2>1. ASSUME NEW v \in Requests, Verify!Handler(v)
        PROVE  UNCHANGED faults
    BY <2>1 DEF Verify!Handler, Verify!Arrive, Verify!Refuse, Verify!ClaimNonce,
       Verify!ClaimSignature, Verify!VerifySignature, Verify!Persist,
       Verify!ReleaseNonce, Verify!ReleaseSignature
  <2>2. ASSUME NEW v \in Requests, Verify!FaultStep(v)
        PROVE  Verify!Fault
    BY <2>2 DEF Verify!FaultStep, Verify!PersistFails, Verify!RedisThrows,
       Verify!RedisReplyLost, Verify!Crash
  <2>3. QED
    BY <1>1, <2>1, <2>2 DEF Verify!Next, Verify!KeyLost
<1>3. QED
  BY <1>1, <1>2, MaxFaultsAssumption DEF Verify!Fault

\* A step that at most counts a fault keeps the invariant of settlePayment.
LEMMA FaultsOnly ==
  ASSUME PayInv, UNCHANGED <<chainVars, pc, lock, row, receipt, answer, overran>>,
         faults' \in 0..MaxFaults, faults' >= faults
  PROVE  PayInv'
<1> USE DEF PayInv, chainVars
<1>1. TypeOK' /\ (faults > 0 => faults' > 0) /\ (faults' = 0 => faults = 0)
  BY MaxFaultsAssumption DEF TypeOK, ChainTypeOK
<1>2. \A c \in Calls : CallState(c)' /\ Untried(c)' /\ AnswerState(c)'
  BY DEF CallState, Submitted, Untried, AnswerState
<1>3. \A c \in Calls : FailState(c)'
  BY <1>1 DEF FailState
<1>4. \A r \in Requests : ReceiptState(r)'
  BY DEF ReceiptState
<1>5. \A r \in Requests : LockState(r)'
  BY <1>1 DEF LockState, Disturbed, Holding
<1>6. QED
  BY <1>1, <1>2, <1>3, <1>4, <1>5

\* Every step of the composition keeps it.
LEMMA PayStep == PayInv /\ [DiNext]_<<vars, verifyVars>> => PayInv'
<1> SUFFICES ASSUME PayInv, [DiNext]_<<vars, verifyVars>> PROVE PayInv'
  OBVIOUS
<1>1. CASE SettleNext
  BY <1>1, PayTypes, CallStep, UntriedStep, ReceiptStep, AnswerStep, FailStep, LockStep
     DEF PayInv
<1>2. CASE VerifyNext
  BY <1>2, VerifyFrame, FaultsOnly DEF PayInv, TypeOK
<1>3. CASE UNCHANGED <<vars, verifyVars>>
  BY <1>3, FaultsOnly DEF vars, serviceVars, PayInv, TypeOK
<1>4. QED
  BY <1>1, <1>2, <1>3 DEF DiNext

\* It holds in every reachable state.
LEMMA PayInvariant == DiSpec => []PayInv
BY PayInit, PayStep, PTL DEF DiSpec

\* settlePayment's lock excludes until it overruns its TTL, a storage call
\* fails, or a call of the request has failed and deleted the lock twice: for
\* any number of calls, requests and RPCs.
THEOREM LockExcludesUntilFailure == DiSpec => []LockExclusionUntilFailure
<1>1. ASSUME PayInv PROVE LockExclusionUntilFailure
  <2> SUFFICES ASSUME NEW c \in Calls, NEW d \in Calls,
                      c # d, req[c] = req[d], Holding(c), Holding(d)
               PROVE  Disturbed(req[c])
    BY DEF LockExclusionUntilFailure, Disturbed
  <2>1. req[c] \in Requests
    BY <1>1 DEF PayInv, CallState, Holding, Steps
  <2>2. QED
    BY <1>1, <2>1 DEF PayInv, LockState
<1>2. QED
  BY <1>1, PayInvariant, PTL

\* settlePayment implements the settlement contract on top of verifyPayment:
\* retries after failures, second DELs of the lock, crashes and storage errors
\* included, the funds of a request move at most once, its receipt is issued at
\* most once and for moved funds, and confirmed answers name its settlement.
THEOREM ContractImplemented == DiSpec => ImplementsContract
<1>1. DiInit => Contract!Init
  <2> SUFFICES ASSUME DiInit PROVE Contract!Init
    OBVIOUS
  <2> USE DEF DiInit, Init, ChainInit
  <2>1. Moved = {}
    BY DEF Moved, Transferred
  <2>2. \A r \in Requests : ToldFor(r) = {}
    BY DEF ToldFor
  <2>3. QED
    BY <2>1, <2>2 DEF Contract!Init, Moved
<1>2. PayInv /\ [DiNext]_<<vars, verifyVars>> => [Contract!Next]_(Contract!vars)
  <2> SUFFICES ASSUME PayInv, [DiNext]_<<vars, verifyVars>>
               PROVE  [Contract!Next]_contractVars
    BY DEF contractVars, Contract!vars, Moved, ToldMap
  <2>1. CASE SettleNext
    BY <2>1, ContractStep
  <2>2. CASE VerifyNext \/ UNCHANGED <<vars, verifyVars>>
    <3>1. UNCHANGED <<req, tx, receipt, pc, answer>>
      BY <2>2 DEF VerifyNext, vars, serviceVars, chainVars
    <3>2. QED
      BY <3>1, Stutter DEF Tells
  <2>3. QED
    BY <2>1, <2>2 DEF DiNext
<1>3. QED
  BY <1>1, <1>2, PayInvariant, PTL DEF DiSpec, ImplementsContract, Contract!Spec

-----------------------------------------------------------------------------
(* One authorization, in however many requests. *)

\* The token contract has one authorization succeed for one request only.
OneTransfer ==
  \A r, s \in Requests :
    Transferred(r) /\ Transferred(s) /\ SameAuthorization(r, s) => r = s

\* Of settlePayment's steps only the chain's move funds.
LEMMA MovesFrame ==
  ASSUME PayInv, SettleNext
  PROVE  \/ \A r \in Requests : Transferred(r)' <=> Transferred(r)
         \/ \E c \in Calls, i \in Attempts : TokenMines(c, i)
<1> USE DEF PayInv, TypeOK, chainVars, Transferred
<1>1. ASSUME NEW c \in Calls, NEW r \in Requests, LoadRequest(c, r)
      PROVE  \A s \in Requests : Transferred(s)' <=> Transferred(s)
  <2>1. /\ pc[c] = "idle" /\ UNCHANGED tx
        /\ \A d \in Calls : d # c => req'[d] = req[d]
    BY <1>1, SMTT(30) DEF LoadRequest, ChainTypeOK
  <2>2. \A i \in Attempts : tx[c][i] = "none"
    BY <2>1 DEF CallState, BeforeSubmit, BeforeRow, Submitted
  <2>3. QED
    BY <2>1, <2>2
<1>2. ASSUME NEW c \in Calls, SubmitProgress(c)
      PROVE  \A s \in Requests : Transferred(s)' <=> Transferred(s)
  <2>1. SubmitStep(c)
    BY <1>2 DEF SubmitProgress
  <2>2. /\ UNCHANGED req
        /\ \A d \in Calls, i \in Attempts : d # c => tx'[d][i] = tx[d][i]
        /\ \A i \in Attempts : tx[c][i] = "success" <=> tx'[c][i] = "success"
    BY <2>1, SubmitEffect
  <2>3. QED
    BY <2>2
<1>3. ASSUME NEW c \in Calls, Handler(c), ~SubmitProgress(c)
      PROVE  UNCHANGED <<req, tx>>
  BY <1>3 DEF Handler, CheckExisting, AcquireLock, CreateSettlement, StartSubmit,
     PrepareFails, Persist, MarkFailed, ReleaseAfterFailure, ReleaseFinally
<1>4. ASSUME NEW c \in Calls, FaultStep(c) \/ VerificationRequired(c)
      PROVE  UNCHANGED <<req, tx>>
  BY <1>4 DEF FaultStep, EarlyThrows, PersistFails, CatchThrows, ReleaseSwallowed, Crash,
     VerificationRequired
<1>5. ASSUME NEW r \in Requests, LockExpires(r)
      PROVE  UNCHANGED <<req, tx>>
  BY <1>5 DEF LockExpires
<1>6. QED
  BY <1>1, <1>2, <1>3, <1>4, <1>5 DEF SettleNext, Settle

\* Nobody changes what a request carries.
LEMMA PayloadKept ==
  ASSUME [DiNext]_<<vars, verifyVars>>
  PROVE  UNCHANGED payload
BY DEF DiNext, VerifyNext, verifyVars, Verify!Next, Verify!Handler, Verify!FaultStep,
   Verify!Arrive, Verify!Refuse, Verify!ClaimNonce, Verify!ClaimSignature,
   Verify!VerifySignature, Verify!Persist, Verify!ReleaseNonce, Verify!ReleaseSignature,
   Verify!PersistFails, Verify!RedisThrows, Verify!RedisReplyLost, Verify!Crash,
   Verify!KeyLost

\* A mined transaction moves the funds of an authorization not spent before.
LEMMA TokenStep ==
  ASSUME PayInv, OneTransfer, UNCHANGED payload,
         NEW c \in Calls, NEW i \in Attempts, TokenMines(c, i)
  PROVE  OneTransfer'
<1>1. ChainTypeOK /\ Mine(c, i)
  BY DEF PayInv, TypeOK, TokenMines, ChainMines
<1>2. /\ tx[c][i] = "pending" /\ UNCHANGED req
      /\ \A d \in Calls, j \in Attempts : d # c \/ j # i => tx'[d][j] = tx[d][j]
  BY <1>1, MineEffect
<1>3. req[c] \in Requests
  BY <1>2 DEF PayInv, CallState, Submitted
<1>4. \A r, s \in Requests : SameAuthorization(r, s)' <=> SameAuthorization(r, s)
  BY DEF SameAuthorization, Verify!Nonce
<1>5. CASE tx'[c][i] = "success"
  <2>1. \A r \in Requests : Transferred(r)' => Transferred(r) \/ r = req[c]
    BY <1>2 DEF Transferred
  <2>2. \A s \in Requests : SameAuthorization(req[c], s) => ~Transferred(s)
    BY <1>5 DEF TokenMines
  <2>3. \A s \in Requests : SameAuthorization(s, req[c]) => ~Transferred(s)
    BY <2>2 DEF SameAuthorization
  <2>4. QED
    BY <1>3, <1>4, <2>1, <2>2, <2>3 DEF OneTransfer
<1>6. CASE tx'[c][i] # "success"
  <2>1. \A r \in Requests : Transferred(r)' => Transferred(r)
    BY <1>2, <1>6 DEF Transferred
  <2>2. QED
    BY <1>4, <2>1 DEF OneTransfer
<1>7. QED
  BY <1>5, <1>6

\* Every step keeps it.
LEMMA TransferStep ==
  PayInv /\ OneTransfer /\ [DiNext]_<<vars, verifyVars>> => OneTransfer'
<1> SUFFICES ASSUME PayInv, OneTransfer, [DiNext]_<<vars, verifyVars>> PROVE OneTransfer'
  OBVIOUS
<1>1. UNCHANGED payload
  BY PayloadKept
<1>2. \A r, s \in Requests : SameAuthorization(r, s)' <=> SameAuthorization(r, s)
  BY <1>1 DEF SameAuthorization, Verify!Nonce
<1>3. ASSUME \A r \in Requests : Transferred(r)' <=> Transferred(r)
      PROVE  OneTransfer'
  BY <1>2, <1>3 DEF OneTransfer
<1>4. CASE SettleNext
  BY <1>1, <1>3, <1>4, MovesFrame, TokenStep
<1>5. CASE VerifyNext \/ UNCHANGED <<vars, verifyVars>>
  <2>1. UNCHANGED <<req, tx>>
    BY <1>5 DEF VerifyNext, vars, chainVars
  <2>2. QED
    BY <2>1, <1>3 DEF Transferred
<1>6. QED
  BY <1>4, <1>5 DEF DiNext

LEMMA TransferInvariant == DiSpec => []OneTransfer
<1>1. DiInit => OneTransfer
  BY DEF DiInit, Init, ChainInit, OneTransfer, Transferred
<1>2. QED
  BY <1>1, TransferStep, PayInvariant, PTL DEF DiSpec

\* What settlePayment takes up the buyer signed; no two requests it takes up
\* carry one spelling of a nonce or one signature; and of two requests that
\* carry one nonce in two spellings at most one gets a receipt, and only a
\* fault lets both be taken up.
THEOREM OnePaid == DiSpec => []OneRequestPaid
<1>1. ASSUME IInv, PayInv, OneTransfer PROVE OneRequestPaid
  <2> SUFFICES ASSUME NEW r \in Requests, NEW s \in Requests,
                      NEW c \in Calls, req[c] = r, NEW d \in Calls, req[d] = s
               PROVE  /\ payload[r] \in Genuine
                      /\ r # s =>
                           /\ ~Verify!Conflict(r, s)
                           /\ SameAuthorization(r, s) =>
                                faults > 0 /\ (receipt[r] = NoCall \/ receipt[s] = NoCall)
    BY DEF OneRequestPaid, TakenUp
  <2>1. r \in stored /\ s \in stored
    BY <1>1, NoRequestAssumption DEF IInv, SettledStored
  <2>2. payload[r] \in Genuine /\ (r # s => ~Verify!Conflict(r, s))
    BY <1>1, <2>1 DEF IInv, Honest, Verify!AcceptedOnce
  <2>3. ASSUME r # s, SameAuthorization(r, s)
        PROVE  faults > 0
    <3>1. faults # 0
      BY <1>1, <2>1, <2>3 DEF IInv, KeysHeld, SameAuthorization, Verify!Nonce
    <3>2. QED
      BY <1>1, <3>1, MaxFaultsAssumption DEF IInv, Verify!TypeOK
  <2>4. ASSUME r # s, SameAuthorization(r, s), receipt[r] # NoCall, receipt[s] # NoCall
        PROVE  FALSE
    <3>1. Transferred(r) /\ Transferred(s)
      BY <1>1, <2>4 DEF PayInv, TypeOK, ReceiptState, Transferred
    <3>2. QED
      BY <1>1, <2>4, <3>1 DEF OneTransfer
  <2>5. QED
    BY <2>2, <2>3, <2>4
<1>2. QED
  BY <1>1, Invariant, PayInvariant, TransferInvariant, PTL
============================================================================
