------------------------ MODULE SettleServiceProofs ------------------------
(***************************************************************************)
(* Proofs about SettleService: its type invariant, its safety invariants   *)
(* and that it implements SettlementContract, for any sets of calls and    *)
(* requests and any number of RPCs and faults.                             *)
(***************************************************************************)
EXTENDS SettleService, TLAPS

Before == {"idle", "check", "lock", "create"}
Working == {"prepare", "submit", "unlock", "catch", "catchUnlock"}

\* Where a call stands determines what it has created and submitted so far.
CallState(c) ==
  /\ pc[c] \in {"idle"} => req[c] = NoRequest
  /\ pc[c] \in Before => row[c] = "none"
  /\ pc[c] \in Working \cup {"check", "lock", "create"} => req[c] \in Requests
  /\ pc[c] \in Working => row[c] # "none"
  /\ pc[c] \in {"prepare", "submit"} => row[c] = "processing"
  /\ pc[c] \in {"unlock", "catch"} => row[c] \in {"processing", "confirmed"}
  /\ row[c] # "none" => req[c] \in Requests
  /\ leg[c] # "idle" => pc[c] \notin Before \cup {"prepare"}
  /\ Submitted(c) => row[c] # "none"

\* The RPCs not tried yet have seen no transaction of the call.
Untried(c) ==
  /\ row[c] = "none" \/ pc[c] = "prepare" => attempt[c] = 1
  /\ pc[c] = "prepare" => ~Submitted(c)
  /\ leg[c] = "write" => \A i \in Attempts : i >= attempt[c] => tx[c][i] = "none"
  /\ leg[c] = "wait" => \A i \in Attempts : i > attempt[c] => tx[c][i] = "none"
  /\ leg[c] = "ok" => tx[c][attempt[c]] = "success"

\* A late call stops at the existing check.
LateState(c) ==
  c \in late => /\ pc[c] \in {"check", "done", "crashed"}
                /\ row[c] = "none"
                /\ req[c] \in Requests
                /\ Rows(req[c]) # {}

\* What a receipt says of the settlement it names.
ReceiptState(r) ==
  receipt[r] # NoCall =>
    /\ req[receipt[r]] = r
    /\ row[receipt[r]] # "none"
    /\ \E i \in Attempts : tx[receipt[r]][i] = "success"
    /\ pc[receipt[r]] \in {"unlock", "catch", "catchUnlock", "done", "crashed"}
    /\ faults = 0 => pc[receipt[r]] \in {"unlock", "done"}

StatusState(c) ==
  /\ row[c] = "confirmed" => receipt[req[c]] = c
  /\ pc[c] = "unlock" => receipt[req[c]] = c
  /\ faults = 0 /\ row[c] # "none" /\ receipt[req[c]] = c => row[c] = "confirmed"

AnswerState(c) ==
  answer[c].kind = "confirmed" =>
    /\ pc[c] = "done"
    /\ req[c] \in Requests
    /\ receipt[req[c]] # NoCall
    /\ answer[c].settlement = receipt[req[c]]
    /\ answer[c].receipt = receipt[req[c]]

\* While nothing disturbed r's lock, it is set and whoever works on r set it.
LockState(r) ==
  /\ lock[r] # NoCall => req[lock[r]] = r
  /\ faults = 0 /\ (\A e \in overran : req[e] # r) =>
       \A c \in Calls : Holding(c) /\ req[c] = r => lock[r] = c

IInv ==
  /\ TypeOK
  /\ \A c \in Calls : /\ CallState(c) /\ Untried(c) /\ LateState(c)
                      /\ StatusState(c) /\ AnswerState(c)
  /\ \A r \in Requests : ReceiptState(r) /\ LockState(r)

-----------------------------------------------------------------------------
(* Each step preserves the invariant: first the types. *)

\* The answers the handler builds are answers.
LEMMA AnswerTypes ==
  /\ \A k \in {"none", "failed", "pending", "not_found", "error"} : Told(k) \in Answers
  /\ \A s \in Calls, rc \in Calls \cup {NoCall} : Confirmed(s, rc) \in Answers
BY DEF Told, Confirmed, Answers

\* Each step of submitOnChain keeps the types of the chain's state.
LEMMA SubmitTypes ==
  ASSUME ChainTypeOK, NEW c \in Calls, SubmitStep(c)
  PROVE  ChainTypeOK'
<1> USE RpcsAssumption DEF ChainTypeOK, Attempts, Legs, TxStatus
<1>1. attempt[c] \in 1..Rpcs /\ (attempt[c] < Rpcs => attempt[c] + 1 \in 1..Rpcs)
  OBVIOUS
<1>2. ASSUME NextRpc(c)
      PROVE  /\ leg' \in [Calls -> Legs]
             /\ attempt' \in [Calls -> Attempts]
  BY <1>1, <1>2 DEF NextRpc
<1>3. ASSUME Broadcast(c)
      PROVE  tx' \in [Calls -> [Attempts -> TxStatus]]
  BY <1>1, <1>3 DEF Broadcast
<1>4. CASE WriteOk(c)
  BY <1>3, <1>4 DEF WriteOk
<1>5. CASE WriteFails(c)
  BY <1>2, <1>3, <1>5 DEF WriteFails
<1>6. CASE ReceiptOk(c)
  BY <1>6 DEF ReceiptOk
<1>7. CASE ReceiptFails(c)
  BY <1>2, <1>7 DEF ReceiptFails
<1>8. QED
  BY <1>4, <1>5, <1>6, <1>7 DEF SubmitStep

\* Mining keeps the types of the chain's state.
LEMMA MineTypes ==
  ASSUME ChainTypeOK, NEW c \in Calls, NEW i \in Attempts, Mine(c, i)
  PROVE  ChainTypeOK'
<1> USE DEF ChainTypeOK, TxStatus
<1>1. ASSUME NEW s \in TxStatus, tx' = [tx EXCEPT ![c][i] = s]
      PROVE  tx' \in [Calls -> [Attempts -> TxStatus]]
  BY <1>1
<1>2. QED
  BY <1>1 DEF Mine

\* Mining settles one pending transaction and touches no other.
LEMMA MineEffect ==
  ASSUME ChainTypeOK, NEW c \in Calls, NEW i \in Attempts, Mine(c, i)
  PROVE  /\ tx[c][i] = "pending"
         /\ tx'[c][i] \in {"success", "reverted"}
         /\ \A d \in Calls, j \in Attempts : d # c \/ j # i => tx'[d][j] = tx[d][j]
         /\ UNCHANGED <<req, leg, attempt>>
<1> USE DEF ChainTypeOK
<1>1. PICK s \in {"success", "reverted"} : tx' = [tx EXCEPT ![c][i] = s]
  BY DEF Mine
<1>2. tx'[c][i] = s
  BY <1>1
<1>3. \A d \in Calls, j \in Attempts : d # c \/ j # i => tx'[d][j] = tx[d][j]
  BY <1>1
<1>4. QED
  BY <1>2, <1>3 DEF Mine

\* Every step keeps the types: rows are only created for requests.
LEMMA TypeStep ==
  ASSUME TypeOK, \A c \in Calls : row[c] # "none" => req[c] \in Requests,
         [Next]_vars
  PROVE  TypeOK'
<1> USE AnswerTypes DEF TypeOK, chainVars, Goto, Return, Fault, FreeLock
<1>1. ASSUME NEW c \in Calls, NEW r \in Requests, FindVerification(c, r)
      PROVE  TypeOK'
  BY <1>1 DEF FindVerification, Steps, ChainTypeOK
<1>2. ASSUME NEW c \in Calls, VerificationNotFound(c)
      PROVE  TypeOK'
  BY <1>2 DEF VerificationNotFound, Steps, ChainTypeOK
<1>3. ASSUME NEW c \in Calls, CheckExisting(c)
      PROVE  TypeOK'
  <2>1. CASE Rows(req[c]) = {} /\ Goto(c, "lock") /\ UNCHANGED answer
    BY <1>3, <2>1 DEF CheckExisting, Steps, ChainTypeOK
  <2>2. ASSUME NEW s \in Rows(req[c]), Return(c, ExistingAnswer(s))
        PROVE  TypeOK'
    <3>1. ExistingAnswer(s) \in Answers
      BY DEF Rows, ExistingAnswer, ChainTypeOK
    <3>2. QED
      BY <1>3, <2>2, <3>1 DEF CheckExisting, Steps, ChainTypeOK
  <2>3. QED
    BY <1>3, <2>1, <2>2 DEF CheckExisting
<1>4. ASSUME NEW c \in Calls, AcquireLock(c)
      PROVE  TypeOK'
  <2>1. CASE lock[req[c]] = NoCall
    <3>1. lock' \in [Requests -> Calls \cup {NoCall}]
      BY <1>4, <2>1 DEF AcquireLock
    <3>2. QED
      BY <1>4, <2>1, <3>1 DEF AcquireLock, Steps, ChainTypeOK
  <2>2. CASE lock[req[c]] # NoCall
    <3>1. Told("pending") \in Answers
      OBVIOUS
    <3>2. answer' \in [Calls -> Answers] /\ pc' \in [Calls -> Steps]
      BY <1>4, <2>2, <3>1 DEF AcquireLock, Steps
    <3>3. UNCHANGED <<req, leg, attempt, tx, lock, row, receipt, late, overran, faults>>
      BY <1>4, <2>2 DEF AcquireLock
    <3>4. QED
      BY <3>2, <3>3 DEF ChainTypeOK
  <2>3. QED
    BY <2>1, <2>2
<1>5. ASSUME NEW c \in Calls, LookupThrows(c)
      PROVE  TypeOK'
  BY <1>5, MaxFaultsAssumption DEF LookupThrows, Steps, ChainTypeOK
<1>6. ASSUME NEW c \in Calls, CreateSettlement(c)
      PROVE  TypeOK'
  BY <1>6 DEF CreateSettlement, Steps, ChainTypeOK, SettlementStatus
<1>7. ASSUME NEW c \in Calls, CreateThrows(c)
      PROVE  TypeOK'
  BY <1>7, MaxFaultsAssumption DEF CreateThrows, Steps, ChainTypeOK, SettlementStatus
<1>8. ASSUME NEW c \in Calls, StartSubmit(c)
      PROVE  TypeOK'
  BY <1>8 DEF StartSubmit, Steps, ChainTypeOK, Legs
<1>9. ASSUME NEW c \in Calls, PrepareFails(c)
      PROVE  TypeOK'
  BY <1>9 DEF PrepareFails, Steps, ChainTypeOK
<1>10. ASSUME NEW c \in Calls, Persist(c)
      PROVE  TypeOK'
  BY <1>10 DEF Persist, Steps, ChainTypeOK, CommitConfirmed, SettlementStatus
<1>11. ASSUME NEW c \in Calls, PersistFails(c)
      PROVE  TypeOK'
  <2>1. CASE CommitConfirmed(c)
    <3>1. /\ row' \in [Calls -> SettlementStatus \cup {"none"}]
          /\ receipt' \in [Requests -> Calls \cup {NoCall}]
      BY <2>1 DEF CommitConfirmed, SettlementStatus
    <3>2. /\ faults' \in 0..MaxFaults
          /\ pc' \in [Calls -> Steps]
          /\ UNCHANGED <<chainVars, lock, answer, late, overran>>
      BY <1>11, MaxFaultsAssumption DEF PersistFails, Steps
    <3>3. QED
      BY <3>1, <3>2 DEF ChainTypeOK
  <2>2. CASE UNCHANGED <<row, receipt>>
    BY <1>11, <2>2, MaxFaultsAssumption DEF PersistFails, Steps, ChainTypeOK
  <2>3. QED
    BY <1>11, <2>1, <2>2 DEF PersistFails
<1>12. ASSUME NEW c \in Calls, ReleaseLock(c)
      PROVE  TypeOK'
  BY <1>12 DEF ReleaseLock, Steps, ChainTypeOK
<1>13. ASSUME NEW c \in Calls, ReleaseLockFails(c)
      PROVE  TypeOK'
  BY <1>13, MaxFaultsAssumption DEF ReleaseLockFails, Steps, ChainTypeOK
<1>14. ASSUME NEW c \in Calls, MarkFailed(c)
      PROVE  TypeOK'
  BY <1>14 DEF MarkFailed, Steps, ChainTypeOK, SettlementStatus
<1>15. ASSUME NEW c \in Calls, MarkFailedSwallowed(c)
      PROVE  TypeOK'
  BY <1>15, MaxFaultsAssumption DEF MarkFailedSwallowed, Steps, ChainTypeOK
<1>16. ASSUME NEW c \in Calls, ReleaseAfterFailure(c)
      PROVE  TypeOK'
  BY <1>16 DEF ReleaseAfterFailure, Steps, ChainTypeOK
<1>17. ASSUME NEW c \in Calls, ReleaseSwallowed(c)
      PROVE  TypeOK'
  BY <1>17, MaxFaultsAssumption DEF ReleaseSwallowed, Steps, ChainTypeOK
<1>18. ASSUME NEW c \in Calls, SubmitProgress(c)
      PROVE  TypeOK'
  BY <1>18, SubmitTypes DEF SubmitProgress, serviceVars
<1>19. ASSUME NEW c \in Calls, NEW i \in Attempts, ChainMines(c, i)
      PROVE  TypeOK'
  BY <1>19, MineTypes DEF ChainMines, serviceVars
<1>20. ASSUME NEW c \in Calls, Crash(c)
      PROVE  TypeOK'
  BY <1>20, MaxFaultsAssumption DEF Crash, Steps, ChainTypeOK, Legs
<1>21. ASSUME NEW r \in Requests, LockExpires(r)
      PROVE  TypeOK'
  BY <1>21 DEF LockExpires, ChainTypeOK
<1>22. CASE UNCHANGED vars
  BY <1>22 DEF vars, serviceVars, ChainTypeOK
<1>23. QED
  BY <1>1, <1>2, <1>3, <1>4, <1>5, <1>6, <1>7, <1>8, <1>9, <1>10, <1>11,
     <1>12, <1>13, <1>14, <1>15, <1>16, <1>17, <1>18, <1>19, <1>20, <1>21,
     <1>22 DEF Next, Handler, FaultStep

\* Every step keeps what a call's place says of its row and request.
LEMMA CallStep ==
  ASSUME TypeOK, \A c \in Calls : CallState(c),
         [Next]_vars
  PROVE  \A d \in Calls : CallState(d)'
<1> USE DEF TypeOK, ChainTypeOK, chainVars, Goto, Return, Fault, FreeLock,
        CallState, Before, Working, Submitted
<1>1. ASSUME NEW c \in Calls, NEW r \in Requests, FindVerification(c, r)
      PROVE  \A d \in Calls : CallState(d)'
  BY <1>1 DEF FindVerification
<1>2. ASSUME NEW c \in Calls, VerificationNotFound(c)
      PROVE  \A d \in Calls : CallState(d)'
  BY <1>2 DEF VerificationNotFound
<1>3. ASSUME NEW c \in Calls, CheckExisting(c)
      PROVE  \A d \in Calls : CallState(d)'
  BY <1>3 DEF CheckExisting
<1>4. ASSUME NEW c \in Calls, AcquireLock(c)
      PROVE  \A d \in Calls : CallState(d)'
  BY <1>4 DEF AcquireLock
<1>5. ASSUME NEW c \in Calls, LookupThrows(c)
      PROVE  \A d \in Calls : CallState(d)'
  BY <1>5 DEF LookupThrows
<1>6. ASSUME NEW c \in Calls, CreateSettlement(c)
      PROVE  \A d \in Calls : CallState(d)'
  BY <1>6 DEF CreateSettlement
<1>7. ASSUME NEW c \in Calls, CreateThrows(c)
      PROVE  \A d \in Calls : CallState(d)'
  BY <1>7 DEF CreateThrows
<1>8. ASSUME NEW c \in Calls, StartSubmit(c)
      PROVE  \A d \in Calls : CallState(d)'
  BY <1>8 DEF StartSubmit
<1>9. ASSUME NEW c \in Calls, PrepareFails(c)
      PROVE  \A d \in Calls : CallState(d)'
  BY <1>9 DEF PrepareFails
<1>10. ASSUME NEW c \in Calls, Persist(c)
      PROVE  \A d \in Calls : CallState(d)'
  BY <1>10 DEF Persist, CommitConfirmed
<1>11. ASSUME NEW c \in Calls, PersistFails(c)
      PROVE  \A d \in Calls : CallState(d)'
  BY <1>11 DEF PersistFails, CommitConfirmed
<1>12. ASSUME NEW c \in Calls, ReleaseLock(c)
      PROVE  \A d \in Calls : CallState(d)'
  BY <1>12 DEF ReleaseLock
<1>13. ASSUME NEW c \in Calls, ReleaseLockFails(c)
      PROVE  \A d \in Calls : CallState(d)'
  BY <1>13 DEF ReleaseLockFails
<1>14. ASSUME NEW c \in Calls, MarkFailed(c)
      PROVE  \A d \in Calls : CallState(d)'
  BY <1>14 DEF MarkFailed, Failing
<1>15. ASSUME NEW c \in Calls, MarkFailedSwallowed(c)
      PROVE  \A d \in Calls : CallState(d)'
  BY <1>15 DEF MarkFailedSwallowed, Failing
<1>16. ASSUME NEW c \in Calls, ReleaseAfterFailure(c)
      PROVE  \A d \in Calls : CallState(d)'
  BY <1>16 DEF ReleaseAfterFailure
<1>17. ASSUME NEW c \in Calls, ReleaseSwallowed(c)
      PROVE  \A d \in Calls : CallState(d)'
  BY <1>17 DEF ReleaseSwallowed
<1>18. ASSUME NEW c \in Calls, SubmitProgress(c)
      PROVE  \A d \in Calls : CallState(d)'
  BY <1>18
     DEF SubmitProgress, SubmitStep, WriteOk, WriteFails, ReceiptOk,
     ReceiptFails, Broadcast, NextRpc, serviceVars
<1>19. ASSUME NEW c \in Calls, NEW i \in Attempts, ChainMines(c, i)
      PROVE  \A d \in Calls : CallState(d)'
  BY <1>19 DEF ChainMines, Mine, serviceVars
<1>20. ASSUME NEW c \in Calls, Crash(c)
      PROVE  \A d \in Calls : CallState(d)'
  BY <1>20 DEF Crash
<1>21. ASSUME NEW r \in Requests, LockExpires(r)
      PROVE  \A d \in Calls : CallState(d)'
  BY <1>21 DEF LockExpires
<1>22. CASE UNCHANGED vars
  BY <1>22 DEF vars, serviceVars
<1>23. QED
  BY <1>1, <1>2, <1>3, <1>4, <1>5, <1>6, <1>7, <1>8, <1>9, <1>10, <1>11,
     <1>12, <1>13, <1>14, <1>15, <1>16, <1>17, <1>18, <1>19, <1>20, <1>21,
     <1>22
     DEF Next, Handler, FaultStep

\* Every step keeps the RPCs beyond the current attempt untouched.
LEMMA UntriedStep ==
  ASSUME TypeOK, \A c \in Calls : CallState(c) /\ Untried(c),
         [Next]_vars
  PROVE  \A d \in Calls : Untried(d)'
<1> USE DEF TypeOK, ChainTypeOK, chainVars, Goto, Return, Fault, FreeLock,
        CallState, Untried, Before, Working, Submitted, Attempts
<1>1. ASSUME NEW c \in Calls, NEW r \in Requests, FindVerification(c, r)
      PROVE  \A d \in Calls : Untried(d)'
  BY <1>1 DEF FindVerification
<1>2. ASSUME NEW c \in Calls, VerificationNotFound(c)
      PROVE  \A d \in Calls : Untried(d)'
  BY <1>2 DEF VerificationNotFound
<1>3. ASSUME NEW c \in Calls, CheckExisting(c)
      PROVE  \A d \in Calls : Untried(d)'
  BY <1>3 DEF CheckExisting
<1>4. ASSUME NEW c \in Calls, AcquireLock(c)
      PROVE  \A d \in Calls : Untried(d)'
  BY <1>4 DEF AcquireLock
<1>5. ASSUME NEW c \in Calls, LookupThrows(c)
      PROVE  \A d \in Calls : Untried(d)'
  BY <1>5 DEF LookupThrows
<1>6. ASSUME NEW c \in Calls, CreateSettlement(c)
      PROVE  \A d \in Calls : Untried(d)'
  BY <1>6 DEF CreateSettlement
<1>7. ASSUME NEW c \in Calls, CreateThrows(c)
      PROVE  \A d \in Calls : Untried(d)'
  BY <1>7 DEF CreateThrows
<1>8. ASSUME NEW c \in Calls, StartSubmit(c)
      PROVE  \A d \in Calls : Untried(d)'
  BY <1>8, RpcsAssumption DEF StartSubmit
<1>9. ASSUME NEW c \in Calls, PrepareFails(c)
      PROVE  \A d \in Calls : Untried(d)'
  BY <1>9 DEF PrepareFails
<1>10. ASSUME NEW c \in Calls, Persist(c)
      PROVE  \A d \in Calls : Untried(d)'
  BY <1>10 DEF Persist, CommitConfirmed
<1>11. ASSUME NEW c \in Calls, PersistFails(c)
      PROVE  \A d \in Calls : Untried(d)'
  BY <1>11 DEF PersistFails, CommitConfirmed
<1>12. ASSUME NEW c \in Calls, ReleaseLock(c)
      PROVE  \A d \in Calls : Untried(d)'
  BY <1>12 DEF ReleaseLock
<1>13. ASSUME NEW c \in Calls, ReleaseLockFails(c)
      PROVE  \A d \in Calls : Untried(d)'
  BY <1>13 DEF ReleaseLockFails
<1>14. ASSUME NEW c \in Calls, MarkFailed(c)
      PROVE  \A d \in Calls : Untried(d)'
  BY <1>14 DEF MarkFailed, Failing
<1>15. ASSUME NEW c \in Calls, MarkFailedSwallowed(c)
      PROVE  \A d \in Calls : Untried(d)'
  BY <1>15 DEF MarkFailedSwallowed, Failing
<1>16. ASSUME NEW c \in Calls, ReleaseAfterFailure(c)
      PROVE  \A d \in Calls : Untried(d)'
  BY <1>16 DEF ReleaseAfterFailure
<1>17. ASSUME NEW c \in Calls, ReleaseSwallowed(c)
      PROVE  \A d \in Calls : Untried(d)'
  BY <1>17 DEF ReleaseSwallowed
<1>18. ASSUME NEW c \in Calls, SubmitProgress(c)
      PROVE  \A d \in Calls : Untried(d)'
  <2>1. UNCHANGED <<pc, row>> /\ pc[c] = "submit"
    BY <1>18 DEF SubmitProgress, serviceVars
  <2>2. CASE WriteOk(c)
    BY <2>1, <2>2, RpcsAssumption DEF WriteOk, Broadcast
  <2>3. CASE WriteFails(c)
    <3>1. \A i \in Attempts : i > attempt[c] => tx'[c][i] = "none"
      BY <2>3, RpcsAssumption DEF WriteFails, Broadcast
    <3>2. \A d \in Calls \ {c} : UNCHANGED <<tx[d], leg[d], attempt[d]>>
      BY <2>3 DEF WriteFails, Broadcast, NextRpc
    <3>3. /\ leg'[c] \in {"write", "threw"}
          /\ leg'[c] = "write" => attempt'[c] = attempt[c] + 1
      BY <2>3 DEF WriteFails, NextRpc
    <3>4. row[c] # "none"
      BY <2>1
    <3>5. QED
      BY <2>1, <3>1, <3>2, <3>3, <3>4
  <2>4. CASE ReceiptOk(c)
    BY <2>1, <2>4 DEF ReceiptOk
  <2>5. CASE ReceiptFails(c)
    <3>1. UNCHANGED tx /\ \A d \in Calls \ {c} : UNCHANGED <<leg[d], attempt[d]>>
      BY <2>5 DEF ReceiptFails, NextRpc
    <3>2. /\ leg'[c] \in {"write", "threw"}
          /\ leg'[c] = "write" => attempt'[c] = attempt[c] + 1
      BY <2>5 DEF ReceiptFails, NextRpc
    <3>3. row[c] # "none" /\ \A i \in Attempts : i > attempt[c] => tx[c][i] = "none"
      BY <2>1, <2>5 DEF ReceiptFails
    <3>4. Untried(c)'
      BY <2>1, <3>1, <3>2, <3>3, RpcsAssumption
    <3>5. ASSUME NEW d \in Calls \ {c}
          PROVE  Untried(d)'
      <4>1. Untried(d)
        OBVIOUS
      <4>2. UNCHANGED <<pc[d], row[d], leg[d], attempt[d], tx[d]>>
        BY <2>1, <3>1
      <4>3. QED
        BY <4>1, <4>2
    <3>6. QED
      BY <3>4, <3>5
  <2>6. QED
    BY <1>18, <2>2, <2>3, <2>4, <2>5 DEF SubmitProgress, SubmitStep
<1>19. ASSUME NEW c \in Calls, NEW i \in Attempts, ChainMines(c, i)
      PROVE  \A d \in Calls : Untried(d)'
  <2>1. Mine(c, i) /\ UNCHANGED <<pc, row, leg, attempt>>
    BY <1>19, MineEffect DEF ChainMines, serviceVars
  <2>2. \A d \in Calls, j \in Attempts :
          /\ tx[d][j] = "none" <=> tx'[d][j] = "none"
          /\ tx[d][j] = "success" => tx'[d][j] = "success"
    BY <2>1, MineEffect
  <2>3. \A d \in Calls : attempt[d] \in Attempts
    OBVIOUS
  <2>4. ASSUME NEW d \in Calls
        PROVE  Untried(d)'
    <3>1. Untried(d) /\ UNCHANGED <<pc[d], row[d], leg[d], attempt[d]>>
      BY <2>1
    <3>2. row[d] = "none" \/ pc[d] = "prepare" => attempt[d] = 1
      BY <3>1
    <3>3. pc[d] = "prepare" => ~Submitted(d)'
      BY <2>2, <3>1
    <3>4. leg[d] = "write" => \A j \in Attempts : j >= attempt[d] => tx'[d][j] = "none"
      BY <2>2, <3>1
    <3>5. leg[d] = "wait" => \A j \in Attempts : j > attempt[d] => tx'[d][j] = "none"
      BY <2>2, <3>1
    <3>6. leg[d] = "ok" => tx'[d][attempt[d]] = "success"
      BY <2>2, <2>3, <3>1
    <3>7. QED
      BY <3>1, <3>2, <3>3, <3>4, <3>5, <3>6
  <2>5. QED
    BY <2>4
<1>20. ASSUME NEW c \in Calls, Crash(c)
      PROVE  \A d \in Calls : Untried(d)'
  BY <1>20 DEF Crash
<1>21. ASSUME NEW r \in Requests, LockExpires(r)
      PROVE  \A d \in Calls : Untried(d)'
  BY <1>21 DEF LockExpires
<1>22. CASE UNCHANGED vars
  BY <1>22 DEF vars, serviceVars
<1>23. QED
  BY <1>1, <1>2, <1>3, <1>4, <1>5, <1>6, <1>7, <1>8, <1>9, <1>10, <1>11,
     <1>12, <1>13, <1>14, <1>15, <1>16, <1>17, <1>18, <1>19, <1>20, <1>21,
     <1>22
     DEF Next, Handler, FaultStep

\* A late call never passes the existing check.
LEMMA LateStep ==
  ASSUME TypeOK, \A c \in Calls : CallState(c) /\ LateState(c),
         [Next]_vars
  PROVE  \A d \in Calls : LateState(d)'
<1> USE DEF TypeOK, ChainTypeOK, chainVars, Goto, Return, Fault, FreeLock,
        CallState, LateState, Before, Working, Rows
<1>1. ASSUME NEW c \in Calls, NEW r \in Requests, FindVerification(c, r)
      PROVE  \A d \in Calls : LateState(d)'
  BY <1>1 DEF FindVerification
<1>2. ASSUME NEW c \in Calls, VerificationNotFound(c)
      PROVE  \A d \in Calls : LateState(d)'
  BY <1>2 DEF VerificationNotFound
<1>3. ASSUME NEW c \in Calls, CheckExisting(c)
      PROVE  \A d \in Calls : LateState(d)'
  BY <1>3 DEF CheckExisting
<1>4. ASSUME NEW c \in Calls, AcquireLock(c)
      PROVE  \A d \in Calls : LateState(d)'
  BY <1>4, SMTT(30) DEF AcquireLock
<1>5. ASSUME NEW c \in Calls, LookupThrows(c)
      PROVE  \A d \in Calls : LateState(d)'
  BY <1>5 DEF LookupThrows
<1>6. ASSUME NEW c \in Calls, CreateSettlement(c)
      PROVE  \A d \in Calls : LateState(d)'
  BY <1>6 DEF CreateSettlement
<1>7. ASSUME NEW c \in Calls, CreateThrows(c)
      PROVE  \A d \in Calls : LateState(d)'
  BY <1>7 DEF CreateThrows
<1>8. ASSUME NEW c \in Calls, StartSubmit(c)
      PROVE  \A d \in Calls : LateState(d)'
  BY <1>8 DEF StartSubmit
<1>9. ASSUME NEW c \in Calls, PrepareFails(c)
      PROVE  \A d \in Calls : LateState(d)'
  BY <1>9 DEF PrepareFails
<1>10. ASSUME NEW c \in Calls, Persist(c)
      PROVE  \A d \in Calls : LateState(d)'
  BY <1>10 DEF Persist, CommitConfirmed
<1>11. ASSUME NEW c \in Calls, PersistFails(c)
      PROVE  \A d \in Calls : LateState(d)'
  BY <1>11 DEF PersistFails, CommitConfirmed
<1>12. ASSUME NEW c \in Calls, ReleaseLock(c)
      PROVE  \A d \in Calls : LateState(d)'
  BY <1>12 DEF ReleaseLock
<1>13. ASSUME NEW c \in Calls, ReleaseLockFails(c)
      PROVE  \A d \in Calls : LateState(d)'
  BY <1>13 DEF ReleaseLockFails
<1>14. ASSUME NEW c \in Calls, MarkFailed(c)
      PROVE  \A d \in Calls : LateState(d)'
  BY <1>14 DEF MarkFailed, Failing
<1>15. ASSUME NEW c \in Calls, MarkFailedSwallowed(c)
      PROVE  \A d \in Calls : LateState(d)'
  BY <1>15 DEF MarkFailedSwallowed, Failing
<1>16. ASSUME NEW c \in Calls, ReleaseAfterFailure(c)
      PROVE  \A d \in Calls : LateState(d)'
  BY <1>16 DEF ReleaseAfterFailure
<1>17. ASSUME NEW c \in Calls, ReleaseSwallowed(c)
      PROVE  \A d \in Calls : LateState(d)'
  BY <1>17 DEF ReleaseSwallowed
<1>18. ASSUME NEW c \in Calls, SubmitProgress(c)
      PROVE  \A d \in Calls : LateState(d)'
  BY <1>18
     DEF SubmitProgress, SubmitStep, WriteOk, WriteFails, ReceiptOk,
     ReceiptFails, Broadcast, NextRpc, serviceVars
<1>19. ASSUME NEW c \in Calls, NEW i \in Attempts, ChainMines(c, i)
      PROVE  \A d \in Calls : LateState(d)'
  BY <1>19 DEF ChainMines, Mine, serviceVars
<1>20. ASSUME NEW c \in Calls, Crash(c)
      PROVE  \A d \in Calls : LateState(d)'
  BY <1>20 DEF Crash
<1>21. ASSUME NEW r \in Requests, LockExpires(r)
      PROVE  \A d \in Calls : LateState(d)'
  BY <1>21 DEF LockExpires
<1>22. CASE UNCHANGED vars
  BY <1>22 DEF vars, serviceVars
<1>23. QED
  BY <1>1, <1>2, <1>3, <1>4, <1>5, <1>6, <1>7, <1>8, <1>9, <1>10, <1>11,
     <1>12, <1>13, <1>14, <1>15, <1>16, <1>17, <1>18, <1>19, <1>20, <1>21,
     <1>22
     DEF Next, Handler, FaultStep

\* Every step keeps what a receipt says of the settlement it names.
LEMMA ReceiptStep ==
  ASSUME TypeOK, \A c \in Calls : CallState(c) /\ Untried(c),
         \A r \in Requests : ReceiptState(r),
         [Next]_vars
  PROVE  \A s \in Requests : ReceiptState(s)'
<1> USE DEF TypeOK, ChainTypeOK, chainVars, Goto, Return, Fault, FreeLock,
        CallState, Untried, ReceiptState, Before, Working
<1>1. ASSUME NEW c \in Calls, NEW q \in Requests, FindVerification(c, q)
      PROVE  \A s \in Requests : ReceiptState(s)'
  BY <1>1 DEF FindVerification
<1>2. ASSUME NEW c \in Calls, VerificationNotFound(c)
      PROVE  \A s \in Requests : ReceiptState(s)'
  BY <1>2 DEF VerificationNotFound
<1>3. ASSUME NEW c \in Calls, CheckExisting(c)
      PROVE  \A s \in Requests : ReceiptState(s)'
  BY <1>3 DEF CheckExisting
<1>4. ASSUME NEW c \in Calls, AcquireLock(c)
      PROVE  \A s \in Requests : ReceiptState(s)'
  BY <1>4 DEF AcquireLock
<1>5. ASSUME NEW c \in Calls, LookupThrows(c)
      PROVE  \A s \in Requests : ReceiptState(s)'
  BY <1>5 DEF LookupThrows
<1>6. ASSUME NEW c \in Calls, CreateSettlement(c)
      PROVE  \A s \in Requests : ReceiptState(s)'
  BY <1>6 DEF CreateSettlement
<1>7. ASSUME NEW c \in Calls, CreateThrows(c)
      PROVE  \A s \in Requests : ReceiptState(s)'
  BY <1>7 DEF CreateThrows
<1>8. ASSUME NEW c \in Calls, StartSubmit(c)
      PROVE  \A s \in Requests : ReceiptState(s)'
  BY <1>8 DEF StartSubmit
<1>9. ASSUME NEW c \in Calls, PrepareFails(c)
      PROVE  \A s \in Requests : ReceiptState(s)'
  BY <1>9 DEF PrepareFails
<1>10. ASSUME NEW c \in Calls, Persist(c)
      PROVE  \A s \in Requests : ReceiptState(s)'
  BY <1>10 DEF Persist, CommitConfirmed
<1>11. ASSUME NEW c \in Calls, PersistFails(c)
      PROVE  \A s \in Requests : ReceiptState(s)'
  BY <1>11 DEF PersistFails, CommitConfirmed
<1>12. ASSUME NEW c \in Calls, ReleaseLock(c)
      PROVE  \A s \in Requests : ReceiptState(s)'
  BY <1>12 DEF ReleaseLock
<1>13. ASSUME NEW c \in Calls, ReleaseLockFails(c)
      PROVE  \A s \in Requests : ReceiptState(s)'
  BY <1>13 DEF ReleaseLockFails
<1>14. ASSUME NEW c \in Calls, MarkFailed(c)
      PROVE  \A s \in Requests : ReceiptState(s)'
  BY <1>14 DEF MarkFailed, Failing
<1>15. ASSUME NEW c \in Calls, MarkFailedSwallowed(c)
      PROVE  \A s \in Requests : ReceiptState(s)'
  BY <1>15 DEF MarkFailedSwallowed, Failing
<1>16. ASSUME NEW c \in Calls, ReleaseAfterFailure(c)
      PROVE  \A s \in Requests : ReceiptState(s)'
  BY <1>16 DEF ReleaseAfterFailure
<1>17. ASSUME NEW c \in Calls, ReleaseSwallowed(c)
      PROVE  \A s \in Requests : ReceiptState(s)'
  BY <1>17 DEF ReleaseSwallowed
<1>18. ASSUME NEW c \in Calls, SubmitProgress(c)
      PROVE  \A s \in Requests : ReceiptState(s)'
  BY <1>18, SMTT(30)
     DEF SubmitProgress, SubmitStep, WriteOk, WriteFails, ReceiptOk,
     ReceiptFails, Broadcast, NextRpc, serviceVars
<1>19. ASSUME NEW c \in Calls, NEW i \in Attempts, ChainMines(c, i)
      PROVE  \A s \in Requests : ReceiptState(s)'
  BY <1>19 DEF ChainMines, Mine, serviceVars
<1>20. ASSUME NEW c \in Calls, Crash(c)
      PROVE  \A s \in Requests : ReceiptState(s)'
  BY <1>20 DEF Crash
<1>21. ASSUME NEW r \in Requests, LockExpires(r)
      PROVE  \A s \in Requests : ReceiptState(s)'
  BY <1>21 DEF LockExpires
<1>22. CASE UNCHANGED vars
  BY <1>22 DEF vars, serviceVars
<1>23. QED
  BY <1>1, <1>2, <1>3, <1>4, <1>5, <1>6, <1>7, <1>8, <1>9, <1>10, <1>11,
     <1>12, <1>13, <1>14, <1>15, <1>16, <1>17, <1>18, <1>19, <1>20, <1>21,
     <1>22
     DEF Next, Handler, FaultStep

\* Every step keeps rows and receipts in agreement.
LEMMA StatusStep ==
  ASSUME TypeOK, \A c \in Calls : CallState(c) /\ StatusState(c),
         \A r \in Requests : ReceiptState(r),
         [Next]_vars
  PROVE  \A d \in Calls : StatusState(d)'
<1> USE DEF TypeOK, ChainTypeOK, chainVars, Goto, Return, Fault, FreeLock,
        CallState, StatusState, ReceiptState, Before, Working
<1>1. ASSUME NEW c \in Calls, NEW r \in Requests, FindVerification(c, r)
      PROVE  \A d \in Calls : StatusState(d)'
  BY <1>1 DEF FindVerification
<1>2. ASSUME NEW c \in Calls, VerificationNotFound(c)
      PROVE  \A d \in Calls : StatusState(d)'
  BY <1>2 DEF VerificationNotFound
<1>3. ASSUME NEW c \in Calls, CheckExisting(c)
      PROVE  \A d \in Calls : StatusState(d)'
  BY <1>3 DEF CheckExisting
<1>4. ASSUME NEW c \in Calls, AcquireLock(c)
      PROVE  \A d \in Calls : StatusState(d)'
  BY <1>4 DEF AcquireLock
<1>5. ASSUME NEW c \in Calls, LookupThrows(c)
      PROVE  \A d \in Calls : StatusState(d)'
  BY <1>5 DEF LookupThrows
<1>6. ASSUME NEW c \in Calls, CreateSettlement(c)
      PROVE  \A d \in Calls : StatusState(d)'
  <2>1. req[c] \in Requests /\ row[c] = "none"
    BY <1>6 DEF CreateSettlement
  <2>2. receipt[req[c]] # c
    BY <2>1, NoCallAssumption
  <2>3. QED
    BY <1>6, <2>1, <2>2 DEF CreateSettlement
<1>7. ASSUME NEW c \in Calls, CreateThrows(c)
      PROVE  \A d \in Calls : StatusState(d)'
  BY <1>7 DEF CreateThrows
<1>8. ASSUME NEW c \in Calls, StartSubmit(c)
      PROVE  \A d \in Calls : StatusState(d)'
  BY <1>8 DEF StartSubmit
<1>9. ASSUME NEW c \in Calls, PrepareFails(c)
      PROVE  \A d \in Calls : StatusState(d)'
  BY <1>9 DEF PrepareFails
<1>10. ASSUME NEW c \in Calls, Persist(c)
      PROVE  \A d \in Calls : StatusState(d)'
  <2>1. req[c] \in Requests /\ receipt[req[c]] = NoCall
    BY <1>10 DEF Persist, CommitConfirmed
  <2>2. \A d \in Calls : row[d] = "confirmed" => req[d] # req[c]
    BY <2>1, NoCallAssumption
  <2>3. \A d \in Calls \ {c} :
          StatusState(d) /\ row'[d] = row[d] /\ pc'[d] = pc[d] /\ req'[d] = req[d]
    BY <1>10 DEF Persist, CommitConfirmed
  <2>4. \A r \in Requests : receipt'[r] = IF r = req[c] THEN c ELSE receipt[r]
    BY <1>10 DEF Persist, CommitConfirmed
  <2>5. row'[c] = "confirmed" /\ pc'[c] = "unlock" /\ req'[c] = req[c] /\ faults' = faults
    BY <1>10 DEF Persist, CommitConfirmed
  <2>6. QED
    BY <2>1, <2>2, <2>3, <2>4, <2>5, NoCallAssumption
<1>11. ASSUME NEW c \in Calls, PersistFails(c)
      PROVE  \A d \in Calls : StatusState(d)'
  <2>1. CASE UNCHANGED <<row, receipt>>
    BY <1>11, <2>1 DEF PersistFails
  <2>2. CASE CommitConfirmed(c)
    <3>1. req[c] \in Requests /\ receipt[req[c]] = NoCall
      BY <1>11, <2>2 DEF PersistFails, CommitConfirmed
    <3>2. \A d \in Calls : row[d] = "confirmed" => req[d] # req[c]
      BY <3>1, NoCallAssumption
    <3>3. \A d \in Calls \ {c} :
            StatusState(d) /\ row'[d] = row[d] /\ pc'[d] = pc[d] /\ req'[d] = req[d]
      BY <1>11, <2>2 DEF PersistFails, CommitConfirmed
    <3>4. \A r \in Requests : receipt'[r] = IF r = req[c] THEN c ELSE receipt[r]
      BY <2>2 DEF CommitConfirmed
    <3>5. row'[c] = "confirmed" /\ pc'[c] = "catch" /\ req'[c] = req[c] /\ faults' # 0
      BY <1>11, <2>2 DEF PersistFails, CommitConfirmed
    <3>6. QED
      BY <3>1, <3>2, <3>3, <3>4, <3>5, NoCallAssumption
  <2>3. QED
    BY <1>11, <2>1, <2>2 DEF PersistFails
<1>12. ASSUME NEW c \in Calls, ReleaseLock(c)
      PROVE  \A d \in Calls : StatusState(d)'
  BY <1>12 DEF ReleaseLock
<1>13. ASSUME NEW c \in Calls, ReleaseLockFails(c)
      PROVE  \A d \in Calls : StatusState(d)'
  BY <1>13 DEF ReleaseLockFails
<1>14. ASSUME NEW c \in Calls, MarkFailed(c)
      PROVE  \A d \in Calls : StatusState(d)'
  <2>1. req[c] \in Requests /\ pc[c] \in {"catch", "submit"}
    BY <1>14 DEF MarkFailed, Failing
  <2>2. faults = 0 => receipt[req[c]] # c
    BY <2>1, NoCallAssumption
  <2>3. \A d \in Calls \ {c} :
          StatusState(d) /\ row'[d] = row[d] /\ pc'[d] = pc[d]
    BY <1>14 DEF MarkFailed
  <2>4. row'[c] = "failed" /\ pc'[c] = "catchUnlock" /\ UNCHANGED <<req, receipt, faults>>
    BY <1>14 DEF MarkFailed
  <2>5. QED
    BY <2>2, <2>3, <2>4
<1>15. ASSUME NEW c \in Calls, MarkFailedSwallowed(c)
      PROVE  \A d \in Calls : StatusState(d)'
  BY <1>15 DEF MarkFailedSwallowed, Failing
<1>16. ASSUME NEW c \in Calls, ReleaseAfterFailure(c)
      PROVE  \A d \in Calls : StatusState(d)'
  BY <1>16 DEF ReleaseAfterFailure
<1>17. ASSUME NEW c \in Calls, ReleaseSwallowed(c)
      PROVE  \A d \in Calls : StatusState(d)'
  BY <1>17 DEF ReleaseSwallowed
<1>18. ASSUME NEW c \in Calls, SubmitProgress(c)
      PROVE  \A d \in Calls : StatusState(d)'
  BY <1>18
     DEF SubmitProgress, SubmitStep, WriteOk, WriteFails, ReceiptOk,
     ReceiptFails, Broadcast, NextRpc, serviceVars
<1>19. ASSUME NEW c \in Calls, NEW i \in Attempts, ChainMines(c, i)
      PROVE  \A d \in Calls : StatusState(d)'
  BY <1>19 DEF ChainMines, Mine, serviceVars
<1>20. ASSUME NEW c \in Calls, Crash(c)
      PROVE  \A d \in Calls : StatusState(d)'
  BY <1>20 DEF Crash
<1>21. ASSUME NEW r \in Requests, LockExpires(r)
      PROVE  \A d \in Calls : StatusState(d)'
  BY <1>21 DEF LockExpires
<1>22. CASE UNCHANGED vars
  BY <1>22 DEF vars, serviceVars
<1>23. QED
  BY <1>1, <1>2, <1>3, <1>4, <1>5, <1>6, <1>7, <1>8, <1>9, <1>10, <1>11,
     <1>12, <1>13, <1>14, <1>15, <1>16, <1>17, <1>18, <1>19, <1>20, <1>21,
     <1>22
     DEF Next, Handler, FaultStep

\* Every step keeps confirmed answers in agreement with the receipts.
LEMMA AnswerStep ==
  ASSUME TypeOK, \A c \in Calls : CallState(c) /\ StatusState(c) /\ AnswerState(c),
         [Next]_vars
  PROVE  \A d \in Calls : AnswerState(d)'
<1> USE DEF TypeOK, ChainTypeOK, chainVars, Goto, Return, Fault, FreeLock,
        CallState, StatusState, AnswerState, Before, Working, Told, Confirmed
<1>1. ASSUME NEW c \in Calls, NEW r \in Requests, FindVerification(c, r)
      PROVE  \A d \in Calls : AnswerState(d)'
  BY <1>1 DEF FindVerification
<1>2. ASSUME NEW c \in Calls, VerificationNotFound(c)
      PROVE  \A d \in Calls : AnswerState(d)'
  BY <1>2 DEF VerificationNotFound
<1>3. ASSUME NEW c \in Calls, CheckExisting(c)
      PROVE  \A d \in Calls : AnswerState(d)'
  <2>1. CASE UNCHANGED answer /\ Goto(c, "lock")
    BY <1>3, <2>1 DEF CheckExisting
  <2>2. ASSUME NEW s \in Rows(req[c]), Return(c, ExistingAnswer(s))
        PROVE  \A d \in Calls : AnswerState(d)'
    <3>1. s \in Calls /\ req[s] = req[c] /\ req[c] \in Requests
      BY <2>2 DEF Rows
    <3>2. row[s] = "confirmed" => receipt[req[c]] = s
      BY <3>1
    <3>3. ExistingAnswer(s).kind = "confirmed" =>
            /\ row[s] = "confirmed"
            /\ ExistingAnswer(s).settlement = s
            /\ ExistingAnswer(s).receipt = receipt[req[s]]
      BY DEF ExistingAnswer
    <3>4. UNCHANGED <<req, receipt>>
      BY <1>3 DEF CheckExisting
    <3>5. QED
      BY <2>2, <3>1, <3>2, <3>3, <3>4, NoCallAssumption
  <2>3. QED
    BY <1>3, <2>1, <2>2 DEF CheckExisting
<1>4. ASSUME NEW c \in Calls, AcquireLock(c)
      PROVE  \A d \in Calls : AnswerState(d)'
  BY <1>4, SMTT(30) DEF AcquireLock
<1>5. ASSUME NEW c \in Calls, LookupThrows(c)
      PROVE  \A d \in Calls : AnswerState(d)'
  BY <1>5 DEF LookupThrows
<1>6. ASSUME NEW c \in Calls, CreateSettlement(c)
      PROVE  \A d \in Calls : AnswerState(d)'
  BY <1>6 DEF CreateSettlement
<1>7. ASSUME NEW c \in Calls, CreateThrows(c)
      PROVE  \A d \in Calls : AnswerState(d)'
  BY <1>7 DEF CreateThrows
<1>8. ASSUME NEW c \in Calls, StartSubmit(c)
      PROVE  \A d \in Calls : AnswerState(d)'
  BY <1>8 DEF StartSubmit
<1>9. ASSUME NEW c \in Calls, PrepareFails(c)
      PROVE  \A d \in Calls : AnswerState(d)'
  BY <1>9 DEF PrepareFails
<1>10. ASSUME NEW c \in Calls, Persist(c)
      PROVE  \A d \in Calls : AnswerState(d)'
  BY <1>10 DEF Persist, CommitConfirmed
<1>11. ASSUME NEW c \in Calls, PersistFails(c)
      PROVE  \A d \in Calls : AnswerState(d)'
  BY <1>11 DEF PersistFails, CommitConfirmed
<1>12. ASSUME NEW c \in Calls, ReleaseLock(c)
      PROVE  \A d \in Calls : AnswerState(d)'
  <2>1. req[c] \in Requests /\ receipt[req[c]] = c
    BY <1>12 DEF ReleaseLock
  <2>2. QED
    BY <1>12, <2>1, NoCallAssumption DEF ReleaseLock
<1>13. ASSUME NEW c \in Calls, ReleaseLockFails(c)
      PROVE  \A d \in Calls : AnswerState(d)'
  BY <1>13 DEF ReleaseLockFails
<1>14. ASSUME NEW c \in Calls, MarkFailed(c)
      PROVE  \A d \in Calls : AnswerState(d)'
  BY <1>14 DEF MarkFailed, Failing
<1>15. ASSUME NEW c \in Calls, MarkFailedSwallowed(c)
      PROVE  \A d \in Calls : AnswerState(d)'
  BY <1>15 DEF MarkFailedSwallowed, Failing
<1>16. ASSUME NEW c \in Calls, ReleaseAfterFailure(c)
      PROVE  \A d \in Calls : AnswerState(d)'
  BY <1>16 DEF ReleaseAfterFailure
<1>17. ASSUME NEW c \in Calls, ReleaseSwallowed(c)
      PROVE  \A d \in Calls : AnswerState(d)'
  BY <1>17 DEF ReleaseSwallowed
<1>18. ASSUME NEW c \in Calls, SubmitProgress(c)
      PROVE  \A d \in Calls : AnswerState(d)'
  BY <1>18
     DEF SubmitProgress, SubmitStep, WriteOk, WriteFails, ReceiptOk,
     ReceiptFails, Broadcast, NextRpc, serviceVars
<1>19. ASSUME NEW c \in Calls, NEW i \in Attempts, ChainMines(c, i)
      PROVE  \A d \in Calls : AnswerState(d)'
  BY <1>19 DEF ChainMines, Mine, serviceVars
<1>20. ASSUME NEW c \in Calls, Crash(c)
      PROVE  \A d \in Calls : AnswerState(d)'
  BY <1>20 DEF Crash
<1>21. ASSUME NEW r \in Requests, LockExpires(r)
      PROVE  \A d \in Calls : AnswerState(d)'
  BY <1>21 DEF LockExpires
<1>22. CASE UNCHANGED vars
  BY <1>22 DEF vars, serviceVars
<1>23. QED
  BY <1>1, <1>2, <1>3, <1>4, <1>5, <1>6, <1>7, <1>8, <1>9, <1>10, <1>11,
     <1>12, <1>13, <1>14, <1>15, <1>16, <1>17, <1>18, <1>19, <1>20, <1>21,
     <1>22
     DEF Next, Handler, FaultStep

\* Every step keeps a lock set by whoever works under it.
LEMMA LockStep ==
  ASSUME TypeOK, \A c \in Calls : CallState(c),
         \A r \in Requests : LockState(r),
         [Next]_vars
  PROVE  \A s \in Requests : LockState(s)'
<1> USE DEF TypeOK, ChainTypeOK, chainVars, Goto, Return, Fault, FreeLock,
        CallState, LockState, Before, Working, Holding
<1>1. ASSUME NEW c \in Calls, NEW r \in Requests, FindVerification(c, r)
      PROVE  \A s \in Requests : LockState(s)'
  <2>1. req[c] = NoRequest /\ pc[c] = "idle"
    BY <1>1 DEF FindVerification
  <2>2. \A s \in Requests : lock[s] # c
    BY <2>1, NoRequestAssumption, NoCallAssumption
  <2>3. \A d \in Calls \ {c} : req'[d] = req[d] /\ pc'[d] = pc[d]
    BY <1>1 DEF FindVerification
  <2>4. ~(pc'[c] \in {"create", "prepare", "submit", "unlock", "catch", "catchUnlock"})
    BY <1>1 DEF FindVerification
  <2>5. UNCHANGED <<lock, overran, faults>>
    BY <1>1 DEF FindVerification
  <2>6. \A s \in Requests : (\A e \in overran' : req'[e] # s) => \A e \in overran : req[e] # s
    BY <2>1, <2>3, <2>5, NoRequestAssumption
  <2>7. \A s \in Requests : lock'[s] # NoCall => req'[lock'[s]] = s
    BY <2>2, <2>3, <2>5
  <2>8. ASSUME NEW s \in Requests
        PROVE  LockState(s)'
    <3>1. LockState(s)
      OBVIOUS
    <3>2. \A d \in Calls : Holding(d)' => d # c /\ Holding(d) /\ req'[d] = req[d]
      BY <2>3, <2>4
    <3>3. QED
      BY <2>5, <2>6, <2>7, <3>1, <3>2
  <2>9. QED
    BY <2>8
<1>2. ASSUME NEW c \in Calls, VerificationNotFound(c)
      PROVE  \A s \in Requests : LockState(s)'
  BY <1>2 DEF VerificationNotFound
<1>3. ASSUME NEW c \in Calls, CheckExisting(c)
      PROVE  \A s \in Requests : LockState(s)'
  BY <1>3 DEF CheckExisting
<1>4. ASSUME NEW c \in Calls, AcquireLock(c)
      PROVE  \A s \in Requests : LockState(s)'
  <2>1. CASE lock[req[c]] # NoCall
    BY <1>4, <2>1 DEF AcquireLock
  <2>2. CASE lock[req[c]] = NoCall
    <3>1. UNCHANGED <<req, overran, faults>>
      BY <1>4 DEF AcquireLock
    <3>2. req[c] \in Requests
      BY <1>4 DEF AcquireLock
    <3>3. \A s \in Requests : lock'[s] = IF s = req[c] THEN c ELSE lock[s]
      BY <1>4, <2>2 DEF AcquireLock
    <3>4. \A d \in Calls \ {c} : pc'[d] = pc[d]
      BY <1>4 DEF AcquireLock
    <3>5. faults = 0 /\ (\A e \in overran : req[e] # req[c]) =>
            \A d \in Calls : req[d] = req[c] => ~Holding(d)
      BY <2>2, <3>2, NoCallAssumption
    <3>6. QED
      BY <3>1, <3>2, <3>3, <3>4, <3>5, NoCallAssumption
  <2>3. QED
    BY <2>1, <2>2
<1>5. ASSUME NEW c \in Calls, LookupThrows(c)
      PROVE  \A s \in Requests : LockState(s)'
  BY <1>5 DEF LookupThrows
<1>6. ASSUME NEW c \in Calls, CreateSettlement(c)
      PROVE  \A s \in Requests : LockState(s)'
  BY <1>6 DEF CreateSettlement
<1>7. ASSUME NEW c \in Calls, CreateThrows(c)
      PROVE  \A s \in Requests : LockState(s)'
  BY <1>7 DEF CreateThrows
<1>8. ASSUME NEW c \in Calls, StartSubmit(c)
      PROVE  \A s \in Requests : LockState(s)'
  BY <1>8 DEF StartSubmit
<1>9. ASSUME NEW c \in Calls, PrepareFails(c)
      PROVE  \A s \in Requests : LockState(s)'
  BY <1>9 DEF PrepareFails
<1>10. ASSUME NEW c \in Calls, Persist(c)
      PROVE  \A s \in Requests : LockState(s)'
  BY <1>10 DEF Persist, CommitConfirmed
<1>11. ASSUME NEW c \in Calls, PersistFails(c)
      PROVE  \A s \in Requests : LockState(s)'
  BY <1>11 DEF PersistFails, CommitConfirmed
<1>12. ASSUME NEW c \in Calls, ReleaseLock(c)
      PROVE  \A s \in Requests : LockState(s)'
  BY <1>12, SMTT(30) DEF ReleaseLock
<1>13. ASSUME NEW c \in Calls, ReleaseLockFails(c)
      PROVE  \A s \in Requests : LockState(s)'
  BY <1>13 DEF ReleaseLockFails
<1>14. ASSUME NEW c \in Calls, MarkFailed(c)
      PROVE  \A s \in Requests : LockState(s)'
  BY <1>14 DEF MarkFailed, Failing
<1>15. ASSUME NEW c \in Calls, MarkFailedSwallowed(c)
      PROVE  \A s \in Requests : LockState(s)'
  BY <1>15 DEF MarkFailedSwallowed, Failing
<1>16. ASSUME NEW c \in Calls, ReleaseAfterFailure(c)
      PROVE  \A s \in Requests : LockState(s)'
  BY <1>16, SMTT(30) DEF ReleaseAfterFailure
<1>17. ASSUME NEW c \in Calls, ReleaseSwallowed(c)
      PROVE  \A s \in Requests : LockState(s)'
  BY <1>17 DEF ReleaseSwallowed
<1>18. ASSUME NEW c \in Calls, SubmitProgress(c)
      PROVE  \A s \in Requests : LockState(s)'
  BY <1>18
     DEF SubmitProgress, SubmitStep, WriteOk, WriteFails, ReceiptOk,
     ReceiptFails, Broadcast, NextRpc, serviceVars
<1>19. ASSUME NEW c \in Calls, NEW i \in Attempts, ChainMines(c, i)
      PROVE  \A s \in Requests : LockState(s)'
  BY <1>19 DEF ChainMines, Mine, serviceVars
<1>20. ASSUME NEW c \in Calls, Crash(c)
      PROVE  \A s \in Requests : LockState(s)'
  BY <1>20 DEF Crash
<1>21. ASSUME NEW r \in Requests, LockExpires(r)
      PROVE  \A s \in Requests : LockState(s)'
  BY <1>21 DEF LockExpires
<1>22. CASE UNCHANGED vars
  BY <1>22 DEF vars, serviceVars
<1>23. QED
  BY <1>1, <1>2, <1>3, <1>4, <1>5, <1>6, <1>7, <1>8, <1>9, <1>10, <1>11,
     <1>12, <1>13, <1>14, <1>15, <1>16, <1>17, <1>18, <1>19, <1>20, <1>21,
     <1>22
     DEF Next, Handler, FaultStep

-----------------------------------------------------------------------------
(* The invariant, and the properties it implies. *)

\* The inductive invariant holds initially.
LEMMA InvInit == Init => IInv
<1> SUFFICES ASSUME Init PROVE IInv
  OBVIOUS
<1> USE DEF Init, ChainInit
<1>1. TypeOK
  BY RpcsAssumption, MaxFaultsAssumption, AnswerTypes
     DEF TypeOK, ChainTypeOK, Attempts, Legs, TxStatus, Steps
<1>2. \A c \in Calls : CallState(c) /\ Untried(c) /\ LateState(c)
  BY DEF CallState, Untried, LateState, Submitted, Before, Working
<1>3. \A c \in Calls : StatusState(c) /\ AnswerState(c)
  BY DEF StatusState, AnswerState, Told
<1>4. \A r \in Requests : ReceiptState(r) /\ LockState(r)
  BY DEF ReceiptState, LockState, Holding
<1>5. QED
  BY <1>1, <1>2, <1>3, <1>4 DEF IInv

\* Every step preserves it.
LEMMA InvStep == IInv /\ [Next]_vars => IInv'
<1> SUFFICES ASSUME IInv, [Next]_vars PROVE IInv'
  OBVIOUS
<1> USE DEF IInv
<1>1. TypeOK'
  BY TypeStep DEF CallState
<1>2. \A c \in Calls : CallState(c)' /\ Untried(c)' /\ LateState(c)'
  BY CallStep, UntriedStep, LateStep
<1>3. \A c \in Calls : StatusState(c)' /\ AnswerState(c)'
  BY StatusStep, AnswerStep
<1>4. \A r \in Requests : ReceiptState(r)' /\ LockState(r)'
  BY ReceiptStep, LockStep
<1>5. QED
  BY <1>1, <1>2, <1>3, <1>4

\* It holds in every reachable state.
LEMMA Invariant == Spec => []IInv
BY InvInit, InvStep, PTL DEF Spec

\* Type correctness of runSettle's state and of what it stores, for any
\* number of calls, requests, RPCs and faults.
THEOREM TypeCorrect == Spec => []TypeOK
<1>1. IInv => TypeOK
  BY DEF IInv
<1>2. QED
  BY <1>1, Invariant, PTL

\* A retry that finds a settlement row never creates another and never submits
\* on chain (the existing check of runSettle), through every fault.
THEOREM RetrySafe == Spec => []RetryNeverResubmits
<1>1. IInv => RetryNeverResubmits
  BY DEF IInv, TypeOK, LateState, CallState, RetryNeverResubmits
<1>2. QED
  BY <1>1, Invariant, PTL

\* A receipt is only written by a settlement whose transaction succeeded.
THEOREM ReceiptPaid == Spec => []ReceiptMeansPaid
<1>1. IInv => ReceiptMeansPaid
  BY DEF IInv, ReceiptState, ReceiptMeansPaid
<1>2. QED
  BY <1>1, Invariant, PTL

\* Every confirmed answer names the settlement and the receipt on record.
THEOREM AnswersAgree == Spec => []ConfirmedAnswersAgree
<1>1. IInv => ConfirmedAnswersAgree
  BY DEF IInv, AnswerState, ConfirmedAnswersAgree
<1>2. QED
  BY <1>1, Invariant, PTL

\* The Redis lock excludes other calls until it overruns its TTL or a storage
\* call fails.
THEOREM LockExcludes == Spec => []LockExclusion
<1>1. ASSUME IInv PROVE LockExclusion
  <2>1. \A c \in Calls : Holding(c) => req[c] \in Requests
    BY <1>1 DEF IInv, CallState, Holding, Working
  <2>2. faults \in Nat
    BY <1>1, MaxFaultsAssumption DEF IInv, TypeOK
  <2>3. QED
    BY <1>1, <2>1, <2>2 DEF IInv, LockState, LockExclusion
<1>2. QED
  BY <1>1, Invariant, PTL

\* Without a fault, the confirmed settlement is the one the receipt names.
THEOREM StatusMatches == Spec => []ReceiptMatchesStatus
<1>1. IInv => ReceiptMatchesStatus
  BY DEF IInv, StatusState, ReceiptMatchesStatus
<1>2. QED
  BY <1>1, Invariant, PTL

\* Without a fault, a step leaves a terminal status alone.
LEMMA TerminalStep ==
  ASSUME IInv, [Next]_vars, NEW c \in Calls, row[c] \in {"confirmed", "failed"},
         row'[c] # row[c]
  PROVE  faults' > 0
<1> USE DEF IInv, TypeOK
<1>1. CASE ~\E d \in Calls : MarkFailed(d)
  <2>1. UNCHANGED row \/ \E d \in Calls :
          CreateSettlement(d) \/ CreateThrows(d) \/ Persist(d) \/ PersistFails(d)
    BY <1>1 DEF Next, Handler, FaultStep, vars, serviceVars, FindVerification,
       VerificationNotFound, CheckExisting, AcquireLock, LookupThrows,
       StartSubmit, PrepareFails, SubmitProgress, ReleaseLock,
       ReleaseLockFails, MarkFailedSwallowed, ReleaseAfterFailure,
       ReleaseSwallowed, ChainMines, Crash, LockExpires
  <2>2. ASSUME NEW d \in Calls, CreateSettlement(d) \/ CreateThrows(d)
        PROVE  FALSE
    BY <2>2 DEF CreateSettlement, CreateThrows, CallState, Before
  <2>3. ASSUME NEW d \in Calls, Persist(d) \/ PersistFails(d)
        PROVE  FALSE
    BY <2>3 DEF Persist, PersistFails, CommitConfirmed, CallState
  <2>4. QED
    BY <2>1, <2>2, <2>3
<1>2. ASSUME NEW d \in Calls, MarkFailed(d)
      PROVE  faults' > 0
  <2>1. d = c /\ row[c] = "confirmed" /\ pc[c] \in {"catch", "submit"} /\ faults' = faults
    BY <1>2 DEF MarkFailed, Failing, CallState
  <2>2. req[c] \in Requests /\ receipt[req[c]] = c
    BY <2>1 DEF CallState, StatusState
  <2>3. faults # 0
    BY <2>1, <2>2, NoCallAssumption DEF ReceiptState
  <2>4. QED
    BY <2>1, <2>3, MaxFaultsAssumption
<1>3. QED
  BY <1>1, <1>2

\* Without a fault, no step changes a terminal status: the catch block only
\* ever finds the processing row of its own call.
THEOREM TerminalKept == Spec => TerminalStatusKept
<1>1. IInv /\ [Next]_vars =>
        [faults' > 0 \/ \A c \in Calls :
           row[c] \in {"confirmed", "failed"} => row'[c] = row[c]]_vars
  BY TerminalStep
<1>2. QED
  BY <1>1, Invariant, PTL DEF Spec, TerminalStatusKept

-----------------------------------------------------------------------------
(* Answers that report a failure. *)

\* Without a fault, the catch block has marked its row before it frees the
\* lock, and a failed answer has a failed row of its request behind it.
FailureState(c) ==
  faults = 0 =>
    /\ pc[c] = "catchUnlock" => row[c] = "failed"
    /\ answer[c].kind = "failed" =>
         /\ pc[c] = "done"
         /\ \E x \in Calls : req[x] = req[c] /\ row[x] = "failed"

FailureInv == \A c \in Calls : FailureState(c)

\* Faults are never undone.
LEMMA FaultsGrow ==
  ASSUME TypeOK, [Next]_vars, faults' = 0
  PROVE  faults = 0
<1>1. faults \in Nat
  BY MaxFaultsAssumption DEF TypeOK
<1>2. UNCHANGED faults \/ faults' = faults + 1
  BY DEF Next, Handler, FaultStep, vars, serviceVars, FindVerification,
     VerificationNotFound, CheckExisting, AcquireLock, LookupThrows,
     CreateSettlement, CreateThrows, StartSubmit, PrepareFails, Persist,
     PersistFails, SubmitProgress, ReleaseLock, ReleaseLockFails, MarkFailed,
     MarkFailedSwallowed, ReleaseAfterFailure, ReleaseSwallowed, ChainMines,
     Crash, LockExpires, Fault
<1>3. QED
  BY <1>1, <1>2

\* A step that answers a call "failed" without a fault is the existing check
\* on a failed row, or the end of the catch block.
LEMMA FailedAnswer ==
  ASSUME IInv, FailureInv, [Next]_vars, faults' = 0, NEW c \in Calls,
         answer'[c] # answer[c], answer'[c].kind = "failed"
  PROVE  /\ pc'[c] = "done"
         /\ UNCHANGED <<row, req>>
         /\ \E x \in Calls : req[x] = req[c] /\ row[x] = "failed"
<1> USE DEF IInv, TypeOK
<1>1. faults = 0
  BY FaultsGrow
<1>2. \/ \E d \in Calls : \/ VerificationNotFound(d) \/ LookupThrows(d)
                          \/ CreateThrows(d) \/ ReleaseLock(d) \/ CheckExisting(d)
                          \/ AcquireLock(d) \/ ReleaseAfterFailure(d)
                          \/ ReleaseSwallowed(d)
  BY DEF Next, Handler, FaultStep, vars, serviceVars, FindVerification,
     CreateSettlement, StartSubmit, PrepareFails, Persist, PersistFails,
     SubmitProgress, ReleaseLockFails, MarkFailed, MarkFailedSwallowed,
     ChainMines, Crash, LockExpires
<1>3. ASSUME NEW d \in Calls,
             VerificationNotFound(d) \/ ReleaseLock(d) \/ AcquireLock(d)
      PROVE  FALSE
  BY <1>3 DEF VerificationNotFound, ReleaseLock, AcquireLock, Return, Told, Confirmed
<1>4. ASSUME NEW d \in Calls, LookupThrows(d) \/ CreateThrows(d) \/ ReleaseSwallowed(d)
      PROVE  FALSE
  BY <1>1, <1>4 DEF LookupThrows, CreateThrows, ReleaseSwallowed, Fault
<1>5. ASSUME NEW d \in Calls, CheckExisting(d)
      PROVE  /\ pc'[c] = "done"
             /\ UNCHANGED <<row, req>>
             /\ \E x \in Calls : req[x] = req[c] /\ row[x] = "failed"
  <2>1. PICK s \in Rows(req[d]) : Return(d, ExistingAnswer(s))
    BY <1>5 DEF CheckExisting
  <2>2. d = c /\ pc'[c] = "done" /\ answer'[c] = ExistingAnswer(s)
    BY <2>1 DEF Return, Goto
  <2>3. row[s] = "failed"
    BY <2>2 DEF ExistingAnswer, Told, Confirmed
  <2>4. QED
    BY <1>5, <2>1, <2>2, <2>3 DEF CheckExisting, Rows, chainVars
<1>6. ASSUME NEW d \in Calls, ReleaseAfterFailure(d)
      PROVE  /\ pc'[c] = "done"
             /\ UNCHANGED <<row, req>>
             /\ \E x \in Calls : req[x] = req[c] /\ row[x] = "failed"
  <2>1. d = c /\ pc[c] = "catchUnlock" /\ pc'[c] = "done" /\ UNCHANGED <<row, req>>
    BY <1>6 DEF ReleaseAfterFailure, Return, Goto, chainVars
  <2>2. row[c] = "failed"
    BY <1>1, <2>1 DEF FailureInv, FailureState
  <2>3. QED
    BY <2>1, <2>2
<1>7. QED
  BY <1>2, <1>3, <1>4, <1>5, <1>6

\* An answered call stays answered, and the request of a call that has left
\* "idle" stays its own.
LEMMA DoneKept ==
  ASSUME TypeOK, [Next]_vars, NEW c \in Calls
  PROVE  /\ pc[c] = "done" => pc'[c] = "done"
         /\ pc[c] # "idle" => req'[c] = req[c]
<1> USE DEF TypeOK, ChainTypeOK, chainVars, serviceVars, Goto, Return
<1>1. ASSUME NEW d \in Calls, NEW r \in Requests, FindVerification(d, r)
      PROVE  /\ pc[c] = "done" => pc'[c] = "done"
             /\ pc[c] # "idle" => req'[c] = req[c]
  BY <1>1 DEF FindVerification
<1>2. ASSUME ~\E d \in Calls, r \in Requests : FindVerification(d, r)
      PROVE  UNCHANGED req
  BY <1>2 DEF Next, Handler, FaultStep, vars, VerificationNotFound,
     CheckExisting, AcquireLock, LookupThrows, CreateSettlement, CreateThrows,
     StartSubmit, PrepareFails, Persist, PersistFails, SubmitProgress,
     SubmitStep, WriteOk, WriteFails, ReceiptOk, ReceiptFails, ReleaseLock,
     ReleaseLockFails, MarkFailed, MarkFailedSwallowed, ReleaseAfterFailure,
     ReleaseSwallowed, ChainMines, Mine, Crash, LockExpires
<1>3. ASSUME ~\E d \in Calls, r \in Requests : FindVerification(d, r), pc[c] = "done"
      PROVE  pc'[c] = "done"
  BY <1>3 DEF Next, Handler, FaultStep, vars, VerificationNotFound,
     CheckExisting, AcquireLock, LookupThrows, CreateSettlement, CreateThrows,
     StartSubmit, PrepareFails, Persist, PersistFails, SubmitProgress,
     ReleaseLock, ReleaseLockFails, MarkFailed, MarkFailedSwallowed,
     ReleaseAfterFailure, ReleaseSwallowed, ChainMines, Crash, LockExpires,
     Failing
<1>4. QED
  BY <1>1, <1>2, <1>3

\* A call enters the end of the catch block by marking its row, or a fault
\* struck.
LEMMA CatchMarks ==
  ASSUME IInv, [Next]_vars, faults' = 0, NEW c \in Calls, pc'[c] = "catchUnlock"
  PROVE  \/ pc[c] = "catchUnlock"
         \/ row'[c] = "failed"
<1> USE DEF IInv, TypeOK, serviceVars, Goto, Return
<1>1. faults = 0
  BY FaultsGrow
<1>2. ASSUME NEW d \in Calls, MarkFailed(d)
      PROVE  pc[c] = "catchUnlock" \/ row'[c] = "failed"
  BY <1>2 DEF MarkFailed
<1>3. ASSUME NEW d \in Calls, MarkFailedSwallowed(d)
      PROVE  FALSE
  BY <1>1, <1>3 DEF MarkFailedSwallowed, Fault
<1>4. ASSUME ~\E d \in Calls : MarkFailed(d) \/ MarkFailedSwallowed(d)
      PROVE  pc[c] = "catchUnlock"
  BY <1>4 DEF Next, Handler, FaultStep, vars, FindVerification,
     VerificationNotFound, CheckExisting, AcquireLock, LookupThrows,
     CreateSettlement, CreateThrows, StartSubmit, PrepareFails, Persist,
     PersistFails, SubmitProgress, ReleaseLock, ReleaseLockFails,
     ReleaseAfterFailure, ReleaseSwallowed, ChainMines, Crash, LockExpires
<1>5. QED
  BY <1>2, <1>3, <1>4

LEMMA FailureStep ==
  ASSUME IInv, FailureInv, [Next]_vars
  PROVE  FailureInv'
<1> SUFFICES ASSUME faults' = 0, NEW c \in Calls
             PROVE  FailureState(c)'
  BY DEF FailureInv, FailureState
<1> USE DEF IInv
<1>1. faults = 0
  BY FaultsGrow
<1>2. \A x \in Calls : row[x] = "failed" => row'[x] = "failed" /\ req'[x] = req[x]
  <2>1. ASSUME NEW x \in Calls, row[x] = "failed"
        PROVE  row'[x] = "failed"
    BY <2>1, TerminalStep
  <2>2. ASSUME NEW x \in Calls, row[x] = "failed"
        PROVE  pc[x] # "idle"
    BY <2>2 DEF CallState, Before
  <2>3. QED
    BY <2>1, <2>2, DoneKept
<1>3. pc'[c] = "catchUnlock" => row'[c] = "failed"
  BY <1>1, <1>2, CatchMarks DEF FailureInv, FailureState
<1>4. ASSUME answer'[c].kind = "failed"
      PROVE  /\ pc'[c] = "done"
             /\ \E x \in Calls : req'[x] = req'[c] /\ row'[x] = "failed"
  <2>1. CASE answer'[c] = answer[c]
    <3>1. PICK x \in Calls : req[x] = req[c] /\ row[x] = "failed"
      BY <1>1, <1>4, <2>1 DEF FailureInv, FailureState
    <3>2. pc[c] = "done"
      BY <1>1, <1>4, <2>1 DEF FailureInv, FailureState
    <3>3. QED
      BY <1>2, <3>1, <3>2, DoneKept
  <2>2. CASE answer'[c] # answer[c]
    BY <1>4, <2>2, FailedAnswer
  <2>3. QED
    BY <2>1, <2>2
<1>5. QED
  BY <1>3, <1>4 DEF FailureState

\* Without a fault, a call answered settlement_failed has a failed settlement
\* of its request on record, which no receipt names.
THEOREM FailureRecorded == Spec => []FailureOnRecord
<1>1. Init => FailureInv
  BY DEF Init, FailureInv, FailureState, Told
<1>2. ASSUME IInv, FailureInv
      PROVE  FailureOnRecord
  <2> USE <1>2 DEF IInv, TypeOK
  <2>1. ASSUME faults = 0, NEW c \in Calls, answer[c].kind = "failed"
        PROVE  \E x \in Rows(req[c]) : row[x] = "failed" /\ x # receipt[req[c]]
    <3>1. PICK x \in Calls : req[x] = req[c] /\ row[x] = "failed"
      BY <2>1 DEF FailureInv, FailureState
    <3>2. x # receipt[req[c]]
      BY <2>1, <3>1 DEF StatusState
    <3>3. x \in Rows(req[c])
      BY <3>1 DEF Rows
    <3>4. QED
      BY <3>1, <3>2, <3>3
  <2>2. QED
    BY <2>1 DEF FailureOnRecord
<1>3. QED
  BY <1>1, <1>2, FailureStep, Invariant, PTL DEF Spec

-----------------------------------------------------------------------------
(***************************************************************************)
(* The refinement: every step of the handler, its faults and the chain     *)
(* moves the funds of one request, issues one receipt, tells one caller,   *)
(* or changes nothing the contract speaks of.                              *)
(***************************************************************************)

Moved == {r \in Requests : Transferred(r)}
ToldMap == [r \in Requests |-> ToldFor(r)]
contractVars == <<Moved, receipt, ToldMap>>

\* A step that leaves the chain, the receipts and the answers alone stutters.
LEMMA Stutter ==
  ASSUME UNCHANGED <<req, tx, receipt, answer>>
  PROVE  UNCHANGED contractVars
BY DEF contractVars, Moved, Transferred, ToldMap, ToldFor

\* Transferred depends on the requests and the successful transactions only.
LEMMA MovedSame ==
  ASSUME TypeOK,
         \A d \in Calls, i \in Attempts :
           (tx'[d][i] = "success") <=> (tx[d][i] = "success"),
         \A d \in Calls, i \in Attempts : tx[d][i] = "success" => req'[d] = req[d]
  PROVE  Moved' = Moved
BY DEF Moved, Transferred

\* A first answer other than "confirmed" tells nobody of a settlement.
LEMMA ToldSame ==
  ASSUME TypeOK, NEW c \in Calls, NEW a \in Answers,
         answer[c].kind # "confirmed", a.kind # "confirmed",
         answer' = [answer EXCEPT ![c] = a], UNCHANGED req
  PROVE  ToldMap' = ToldMap
<1>1. \A d \in Calls : answer'[d] = IF d = c THEN a ELSE answer[d]
  BY DEF TypeOK
<1>2. ASSUME NEW r \in Requests
      PROVE  ToldFor(r)' = ToldFor(r)
  <2>1. {d \in Calls : req'[d] = r /\ answer'[d].kind = "confirmed"}
          = {d \in Calls : req[d] = r /\ answer[d].kind = "confirmed"}
    BY <1>1
  <2>2. QED
    BY <1>1, <2>1 DEF ToldFor
<1>3. QED
  BY <1>2 DEF ToldMap

\* A confirmed answer tells one more caller of its request.
LEMMA ToldMore ==
  ASSUME TypeOK, NEW c \in Calls, NEW a \in Answers, req[c] \in Requests,
         answer[c].kind # "confirmed", a.kind = "confirmed",
         answer' = [answer EXCEPT ![c] = a], UNCHANGED req
  PROVE  ToldMap' = [ToldMap EXCEPT ![req[c]] = @ \cup {a.settlement}]
<1>1. \A d \in Calls : answer'[d] = IF d = c THEN a ELSE answer[d]
  BY DEF TypeOK
<1>2. ASSUME NEW r \in Requests, r # req[c]
      PROVE  ToldFor(r)' = ToldFor(r)
  <2>1. {d \in Calls : req'[d] = r /\ answer'[d].kind = "confirmed"}
          = {d \in Calls : req[d] = r /\ answer[d].kind = "confirmed"}
    BY <1>1, <1>2
  <2>2. c \notin {d \in Calls : req[d] = r /\ answer[d].kind = "confirmed"}
    BY <1>2
  <2>3. QED
    BY <1>1, <2>1, <2>2 DEF ToldFor
<1>3. ToldFor(req[c])' = ToldFor(req[c]) \cup {a.settlement}
  <2>1. {d \in Calls : req'[d] = req[c] /\ answer'[d].kind = "confirmed"}
          = {d \in Calls : req[d] = req[c] /\ answer[d].kind = "confirmed"} \cup {c}
    BY <1>1
  <2>2. ToldFor(req[c])' =
          {answer'[d].settlement :
             d \in {e \in Calls : req'[e] = req[c] /\ answer'[e].kind = "confirmed"}}
    BY DEF ToldFor
  <2>3. QED
    BY <1>1, <2>1, <2>2 DEF ToldFor
<1>4. QED
  BY <1>2, <1>3 DEF ToldMap

-----------------------------------------------------------------------------
(* The steps that the contract speaks of. *)

\* The chain moves the funds of a request once, and only of a request.
LEMMA MineMoves ==
  ASSUME IInv, NEW c \in Calls, NEW i \in Attempts, ChainMines(c, i)
  PROVE  [Contract!Next]_contractVars
<1> USE DEF IInv, TypeOK, ChainTypeOK
<1>1. /\ Mine(c, i)
      /\ tx[c][i] = "pending"
      /\ UNCHANGED <<req, receipt, answer>>
  BY MineEffect DEF ChainMines, Mine, serviceVars
<1>2. req[c] \in Requests
  BY <1>1 DEF CallState, Submitted
<1>3. ToldMap' = ToldMap
  BY <1>1 DEF ToldMap, ToldFor
<1>4. \A d \in Calls, j \in Attempts : d # c \/ j # i => tx'[d][j] = tx[d][j]
  BY <1>1, MineEffect
<1>5. CASE tx'[c][i] = "success"
  <2>1. ~Transferred(req[c])
    BY <1>1, <1>5 DEF Mine
  <2>2. \A r \in Requests : Transferred(r)' <=> Transferred(r) \/ r = req[c]
    <3>1. \A d \in Calls, j \in Attempts :
            tx'[d][j] = "success" <=> tx[d][j] = "success" \/ (d = c /\ j = i)
      BY <1>5, <1>4
    <3>2. UNCHANGED req
      BY <1>1
    <3>3. QED
      BY <3>1, <3>2 DEF Transferred
  <2>3. Contract!Move(req[c])
    BY <1>1, <1>2, <1>3, <2>1, <2>2 DEF Contract!Move, Moved, ToldMap
  <2>4. QED
    BY <1>2, <2>3 DEF Contract!Next
<1>6. CASE tx'[c][i] = "reverted"
  <2>1. \A d \in Calls, j \in Attempts :
          (tx'[d][j] = "success") <=> (tx[d][j] = "success")
    BY <1>1, <1>6, <1>4
  <2>2. Moved' = Moved
    BY <1>1, <2>1, MovedSame
  <2>3. QED
    BY <1>1, <1>3, <2>2 DEF contractVars
<1>7. QED
  BY <1>1, <1>5, <1>6, MineEffect

\* A committed transaction issues the receipt of the call whose transfer
\* succeeded.
LEMMA CommitIssues ==
  ASSUME IInv, NEW c \in Calls, pc[c] = "submit", leg[c] = "ok",
         CommitConfirmed(c), UNCHANGED <<req, tx, answer>>
  PROVE  Contract!Next
<1> USE DEF IInv, TypeOK, ChainTypeOK
<1>1. req[c] \in Requests
  BY DEF CallState, Working
<1>2. Transferred(req[c])
  BY DEF Untried, Transferred
<1>3. Moved' = Moved /\ ToldMap' = ToldMap
  BY DEF Moved, Transferred, ToldMap, ToldFor
<1>4. Contract!Issue(req[c], c)
  BY <1>1, <1>2, <1>3 DEF Contract!Issue, CommitConfirmed, Moved, ToldMap
<1>5. QED
  BY <1>1, <1>4 DEF Contract!Next

\* A confirmed answer tells the settlement of the receipt.
LEMMA AnswerTells ==
  ASSUME IInv, NEW c \in Calls, pc[c] # "done", req[c] \in Requests,
         NEW a \in Answers, a.kind = "confirmed",
         receipt[req[c]] # NoCall, a.settlement = receipt[req[c]],
         answer' = [answer EXCEPT ![c] = a], UNCHANGED <<req, tx, receipt>>
  PROVE  Contract!Next
<1> USE DEF IInv
<1>1. answer[c].kind # "confirmed"
  BY DEF AnswerState
<1>2. ToldMap' = [ToldMap EXCEPT ![req[c]] = @ \cup {a.settlement}]
  BY <1>1, ToldMore
<1>3. Moved' = Moved
  BY DEF Moved, Transferred
<1>4. Contract!Tell(req[c])
  BY <1>2, <1>3 DEF Contract!Tell, Moved, ToldMap
<1>5. QED
  BY <1>4 DEF Contract!Next

\* Any other answer tells nothing.
LEMMA AnswerSilent ==
  ASSUME IInv, NEW c \in Calls, pc[c] # "done", NEW a \in Answers,
         a.kind # "confirmed",
         answer' = [answer EXCEPT ![c] = a], UNCHANGED <<req, tx, receipt>>
  PROVE  UNCHANGED contractVars
<1> USE DEF IInv
<1>1. answer[c].kind # "confirmed"
  BY DEF AnswerState
<1>2. ToldMap' = ToldMap
  BY <1>1, ToldSame
<1>3. Moved' = Moved
  BY DEF Moved, Transferred
<1>4. QED
  BY <1>2, <1>3 DEF contractVars

\* The existing check tells the confirmed settlement, or nothing.
LEMMA CheckTells ==
  ASSUME IInv, NEW c \in Calls, CheckExisting(c)
  PROVE  [Contract!Next]_contractVars
<1> USE DEF IInv, TypeOK, ChainTypeOK
<1>1. UNCHANGED <<req, tx, receipt>> /\ pc[c] # "done" /\ req[c] \in Requests
  BY DEF CheckExisting, chainVars, CallState, Working
<1>2. CASE UNCHANGED answer
  BY <1>1, <1>2, Stutter
<1>3. ASSUME NEW s \in Rows(req[c]), Return(c, ExistingAnswer(s))
      PROVE  [Contract!Next]_contractVars
  <2>1. s \in Calls /\ req[s] = req[c]
    BY DEF Rows
  <2>2. answer' = [answer EXCEPT ![c] = ExistingAnswer(s)]
    BY <1>3 DEF Return
  <2>3. CASE row[s] = "confirmed"
    <3>1. receipt[req[c]] = s /\ s # NoCall
      BY <2>1, <2>3, NoCallAssumption DEF StatusState
    <3>2. ExistingAnswer(s) = Confirmed(s, s)
      BY <2>1, <2>3, <3>1 DEF ExistingAnswer
    <3>3. /\ Confirmed(s, s) \in Answers
          /\ Confirmed(s, s).kind = "confirmed"
          /\ Confirmed(s, s).settlement = s
      BY <2>1, AnswerTypes DEF Confirmed
    <3>4. QED
      BY <1>1, <2>2, <3>1, <3>2, <3>3, AnswerTells
  <2>4. CASE row[s] # "confirmed"
    <3>1. ExistingAnswer(s) \in Answers /\ ExistingAnswer(s).kind # "confirmed"
      BY <2>4, AnswerTypes DEF ExistingAnswer, Told
    <3>2. QED
      BY <1>1, <2>2, <3>1, AnswerSilent
  <2>5. QED
    BY <2>3, <2>4
<1>4. QED
  BY <1>2, <1>3 DEF CheckExisting

\* The answer of the handler's return tells the settlement it confirmed.
LEMMA ReleaseTells ==
  ASSUME IInv, NEW c \in Calls, ReleaseLock(c)
  PROVE  Contract!Next
<1>1. pc[c] = "unlock" /\ UNCHANGED <<req, tx, receipt>>
  BY DEF ReleaseLock, chainVars
<1>2. req[c] \in Requests /\ receipt[req[c]] = c /\ c # NoCall
  BY <1>1, NoCallAssumption DEF IInv, CallState, StatusState, Working
<1>3. /\ Confirmed(c, c) \in Answers
      /\ Confirmed(c, c).kind = "confirmed"
      /\ Confirmed(c, c).settlement = c
  BY AnswerTypes DEF Confirmed
<1>4. answer' = [answer EXCEPT ![c] = Confirmed(c, c)]
  BY DEF ReleaseLock, Return
<1>5. QED
  BY <1>1, <1>2, <1>3, <1>4, AnswerTells

\* An arriving call has submitted nothing and been told nothing.
LEMMA ArrivalStutters ==
  ASSUME IInv, NEW c \in Calls, NEW r \in Requests, FindVerification(c, r)
  PROVE  UNCHANGED contractVars
<1> USE DEF IInv, TypeOK, ChainTypeOK
<1>1. pc[c] = "idle" /\ UNCHANGED <<tx, receipt, answer>>
  BY DEF FindVerification
<1>2. \A d \in Calls \ {c} : req'[d] = req[d]
  BY DEF FindVerification
<1>3. \A i \in Attempts : tx[c][i] # "success"
  BY <1>1 DEF CallState, Submitted, Before
<1>4. answer[c].kind # "confirmed"
  BY <1>1 DEF AnswerState
<1>5. Moved' = Moved
  BY <1>1, <1>2, <1>3 DEF Moved, Transferred
<1>6. \A q \in Requests :
        {d \in Calls : req'[d] = q /\ answer[d].kind = "confirmed"}
          = {d \in Calls : req[d] = q /\ answer[d].kind = "confirmed"}
  BY <1>2, <1>4
<1>7. ToldMap' = ToldMap
  BY <1>1, <1>6 DEF ToldMap, ToldFor
<1>8. QED
  BY <1>1, <1>5, <1>7 DEF contractVars

\* A submission step succeeds on no transaction and undoes none: it broadcasts
\* only through an RPC the call has not used.
LEMMA SubmitStutters ==
  ASSUME IInv, NEW c \in Calls, SubmitProgress(c)
  PROVE  UNCHANGED contractVars
<1> USE DEF IInv, TypeOK, ChainTypeOK
<1>1. UNCHANGED <<req, receipt, answer>>
  BY DEF SubmitProgress, serviceVars, SubmitStep, WriteOk, WriteFails,
         ReceiptOk, ReceiptFails
<1>2. UNCHANGED tx \/ (leg[c] = "write" /\ Broadcast(c))
  BY DEF SubmitProgress, SubmitStep, WriteOk, WriteFails, ReceiptOk, ReceiptFails
<1>3. CASE UNCHANGED tx
  BY <1>1, <1>3, Stutter
<1>4. CASE leg[c] = "write" /\ Broadcast(c)
  <2>1. attempt[c] \in Attempts /\ tx[c][attempt[c]] = "none"
    BY <1>4, RpcsAssumption DEF Untried, Attempts
  <2>2. \A d \in Calls, i \in Attempts :
          tx'[d][i] = IF d = c /\ i = attempt[c] THEN "pending" ELSE tx[d][i]
    BY <1>4, <2>1 DEF Broadcast
  <2>3. Moved' = Moved
    <3>1. \A d \in Calls, i \in Attempts :
            (tx'[d][i] = "success") <=> (tx[d][i] = "success")
      BY <2>1, <2>2
    <3>2. QED
      BY <1>1, <3>1, MovedSame
  <2>4. ToldMap' = ToldMap
    BY <1>1 DEF ToldMap, ToldFor
  <2>5. QED
    BY <1>1, <2>3, <2>4 DEF contractVars
<1>5. QED
  BY <1>2, <1>3, <1>4

-----------------------------------------------------------------------------
(* The refinement. *)

\* Nothing has moved, been issued or been told initially.
LEMMA ContractInit == Init => Contract!Init
<1> SUFFICES ASSUME Init PROVE Contract!Init
  OBVIOUS
<1>1. Moved = {}
  BY DEF Moved, Transferred, Init, ChainInit
<1>2. ToldMap = [r \in Requests |-> {}]
  <2>1. \A r \in Requests : ToldFor(r) = {}
    BY DEF ToldFor, Init, Told
  <2>2. QED
    BY <2>1 DEF ToldMap
<1>3. QED
  BY <1>1, <1>2 DEF Contract!Init, Moved, ToldMap, Init

\* Every step is a step of the contract or changes nothing of it.
LEMMA ContractStep ==
  ASSUME IInv, [Next]_vars
  PROVE  [Contract!Next]_contractVars
<1>1. ASSUME NEW c \in Calls, NEW r \in Requests, FindVerification(c, r)
      PROVE  [Contract!Next]_contractVars
  BY <1>1, ArrivalStutters
<1>2. ASSUME NEW c \in Calls,
             VerificationNotFound(c) \/ LookupThrows(c) \/ CreateThrows(c)
               \/ ReleaseAfterFailure(c) \/ ReleaseSwallowed(c)
      PROVE  [Contract!Next]_contractVars
  <2>1. /\ pc[c] # "done"
        /\ UNCHANGED <<req, tx, receipt>>
        /\ \E k \in {"error", "failed", "not_found"} :
             answer' = [answer EXCEPT ![c] = Told(k)]
    BY <1>2 DEF VerificationNotFound, LookupThrows, CreateThrows,
       ReleaseAfterFailure, ReleaseSwallowed, Return, chainVars
  <2>2. \A k \in {"error", "failed", "not_found"} :
          Told(k) \in Answers /\ Told(k).kind # "confirmed"
    BY AnswerTypes DEF Told
  <2>3. QED
    BY <2>1, <2>2, AnswerSilent
<1>3. ASSUME NEW c \in Calls, CheckExisting(c)
      PROVE  [Contract!Next]_contractVars
  BY <1>3, CheckTells
<1>4. ASSUME NEW c \in Calls, AcquireLock(c)
      PROVE  [Contract!Next]_contractVars
  <2>1. UNCHANGED <<req, tx, receipt>> /\ pc[c] # "done"
    BY <1>4 DEF AcquireLock, chainVars
  <2>2. CASE UNCHANGED answer
    BY <2>1, <2>2, Stutter
  <2>3. CASE Return(c, Told("pending"))
    BY <2>1, <2>3, AnswerSilent, AnswerTypes DEF Return, Told
  <2>4. QED
    BY <1>4, <2>2, <2>3 DEF AcquireLock
<1>5. ASSUME NEW c \in Calls,
             CreateSettlement(c) \/ StartSubmit(c) \/ PrepareFails(c)
               \/ ReleaseLockFails(c) \/ MarkFailed(c)
               \/ MarkFailedSwallowed(c) \/ Crash(c)
      PROVE  [Contract!Next]_contractVars
  <2>1. UNCHANGED <<req, tx, receipt, answer>>
    BY <1>5 DEF CreateSettlement, StartSubmit, PrepareFails, ReleaseLockFails,
       MarkFailed, MarkFailedSwallowed, Crash, chainVars
  <2>2. QED
    BY <2>1, Stutter
<1>6. ASSUME NEW c \in Calls, Persist(c) \/ PersistFails(c)
      PROVE  [Contract!Next]_contractVars
  <2>1. pc[c] = "submit" /\ leg[c] = "ok" /\ UNCHANGED <<req, tx, answer>>
    BY <1>6 DEF Persist, PersistFails, chainVars
  <2>2. CommitConfirmed(c) \/ UNCHANGED receipt
    BY <1>6 DEF Persist, PersistFails
  <2>3. QED
    BY <2>1, <2>2, CommitIssues, Stutter
<1>7. ASSUME NEW c \in Calls, ReleaseLock(c)
      PROVE  [Contract!Next]_contractVars
  BY <1>7, ReleaseTells
<1>8. ASSUME NEW c \in Calls, SubmitProgress(c)
      PROVE  [Contract!Next]_contractVars
  BY <1>8, SubmitStutters
<1>9. ASSUME NEW c \in Calls, NEW i \in Attempts, ChainMines(c, i)
      PROVE  [Contract!Next]_contractVars
  BY <1>9, MineMoves
<1>10. ASSUME NEW r \in Requests, LockExpires(r)
       PROVE  [Contract!Next]_contractVars
  BY <1>10, Stutter DEF LockExpires, chainVars
<1>11. CASE UNCHANGED vars
  BY <1>11, Stutter DEF vars, chainVars, serviceVars
<1>12. QED
  BY <1>1, <1>2, <1>3, <1>4, <1>5, <1>6, <1>7, <1>8, <1>9, <1>10, <1>11
     DEF Next, Handler, FaultStep

\* runSettle implements the settlement contract: whatever its calls, crashes,
\* storage errors and lock expiries do, the funds of a request move at most
\* once, its receipt is issued at most once and for moved funds, and every
\* confirmed answer names that receipt's settlement.
THEOREM ContractImplemented == Spec => ImplementsContract
<1>1. IInv /\ [Next]_vars => [Contract!Next]_(Contract!vars)
  BY ContractStep DEF contractVars, Contract!vars, Moved, ToldMap
<1>2. QED
  BY <1>1, ContractInit, Invariant, PTL
     DEF Spec, ImplementsContract, Contract!Spec
=============================================================================
