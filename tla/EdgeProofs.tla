------------------------------- MODULE EdgeProofs -------------------------------
(***************************************************************************)
(* Proofs about the two edges of the facilitator: PaymentFlow, where       *)
(* clients present proofs to it, and RpcClient, through which it calls     *)
(* chains; for any presenters, calls, retries, faults and thresholds.      *)
(* What PaymentFlow needs of POST /settle is what SettleServiceProofs      *)
(* proves of it: every step of the flow is a step of SettleService.        *)
(***************************************************************************)
EXTENDS PaymentFlow, SettleServiceProofs, RpcClient

-----------------------------------------------------------------------------
(* PaymentFlow: what is known of clients, calls and answers. *)

Negative == (VerifyAnswers \cup SettleAnswers) \ {"accepted", "confirmed"}

\* A client pays only after it was accepted, and has heard what it acts on.
ClientState(p) ==
  /\ step[p] \in {"idle", "verify"} =>
       \A c \in CallIds : c.p = p => posted[c] = "unsent"
  /\ \A c \in CallIds : c.p = p /\ posted[c] # "unsent" => posted[Current(p)] # "unsent"
  /\ step[p] = "settle" => posted[Current(p)] # "unsent"
  /\ step[p] = "refused" => Reply(p) \in Negative
  /\ step[p] = "served" =>
       /\ stored # NoCall /\ stored.p = p
       /\ kind[p] # "verifyOnly" => answer[Current(p)].kind = "confirmed"

\* runSettle works for the accepted request of the caller alone.
SettleState(c) ==
  /\ pc[c] # "idle" =>
       /\ posted[c] = "sent" /\ kind[c.p] \in {"middleware", "app"}
       /\ stored # NoCall /\ req[c] = stored /\ stored.p = c.p
  /\ posted[c] = "invalid" => kind[c.p] \in {"client", "agent"}

\* An answer is final, and a fault is needed for a 500.
ToldState(c) ==
  /\ answer[c].kind # "none" => pc[c] = "done"
  /\ answer[c].kind # "not_found"
  /\ faults = 0 => answer[c].kind # "error"

\* Without a fault only a transaction that was given up belongs to a failed row.
GivenUp(c) ==
  faults = 0 /\ Submitted(c) /\ (row[c] = "failed" \/ pc[c] \in {"catch", "catchUnlock"})
  => leg[c] = "threw"

AcceptedStored == \A k \in CallIds : verified[k] = "accepted" => stored = k

FlowInv ==
  /\ FlowTypeOK
  /\ AcceptedStored
  /\ \A p \in Presenters : ClientState(p)
  /\ \A c \in CallIds : SettleState(c) /\ ToldState(c) /\ GivenUp(c)

-----------------------------------------------------------------------------
(* The flow drives the settle service. *)

\* A step of the flow is a step of SettleService or leaves it alone.
LEMMA FlowDrives == [FlowNext]_allVars => [Next]_vars
<1> SUFFICES ASSUME [FlowNext]_allVars PROVE [Next]_vars
  OBVIOUS
<1>1. ASSUME NEW c \in CallIds, SettleArrives(c)
      PROVE  Next
  BY <1>1, CallsAssumption DEF SettleArrives, Next
<1>2. ASSUME SettleGoesOn
      PROVE  Next
  BY <1>2 DEF SettleGoesOn, Next
<1>3. ASSUME NEW p \in Presenters, ClientStep(p)
      PROVE  UNCHANGED vars
  BY <1>3 DEF ClientStep, Present, Accepted, ServedUnsettled, Served, Refused,
     SettleAgain, NetworkError, Timeout
<1>4. ASSUME NEW k \in CallIds, VerifyStep(k) \/ SettleRefusesBody(k)
      PROVE  UNCHANGED vars
  BY <1>4 DEF VerifyStep, SettleRefusesBody, VerifyRejects, VerifyClaims,
     ClaimThrows, VerifyFindsStored, VerifyAccepts, VerifyUnsaved, VerifyThrows,
     VerifyDies
<1>5. QED
  BY <1>1, <1>2, <1>3, <1>4 DEF FlowNext, allVars

\* What holds of SettleService holds in the flow.
LEMMA FlowSettles == FlowSpec => [](IInv /\ FailureOnRecord)
<1>1. FlowInit => Init
  BY DEF FlowInit
<1>2. FlowSpec => Spec
  BY <1>1, FlowDrives, PTL DEF FlowSpec, Spec
<1>3. QED
  BY <1>2, Invariant, FailureRecorded, PTL

-----------------------------------------------------------------------------
(* Calls. *)

LEMMA CallFields ==
  ASSUME NEW p \in Presenters, NEW i \in 1..(Retries + 1)
  PROVE  Call(p, i) \in CallIds /\ Call(p, i).p = p /\ Call(p, i).try = i
BY DEF Call, CallIds

LEMMA CurrentCall ==
  ASSUME FlowTypeOK, NEW p \in Presenters
  PROVE  Current(p) \in CallIds /\ Current(p).p = p
BY CallFields DEF FlowTypeOK, Current

-----------------------------------------------------------------------------
(* The types. *)

LEMMA FlowTypes ==
  ASSUME FlowTypeOK, [FlowNext]_allVars
  PROVE  FlowTypeOK'
<1> USE DEF FlowTypeOK
<1>1. CASE UNCHANGED flowVars
  BY <1>1 DEF flowVars
<1>2. ASSUME NEW p \in Presenters, NEW i \in 1..(Retries + 1),
             SendVerify(p, i) \/ SendSettle(p, i)
      PROVE  /\ step' \in [Presenters -> {"idle", "verify", "settle"} \cup Ended]
             /\ try' \in [Presenters -> 1..(Retries + 1)]
             /\ verified' \in [CallIds -> {"unsent", "sent", "claimed", "dead"} \cup VerifyAnswers]
             /\ posted' \in [CallIds -> {"unsent", "sent", "invalid"}]
  <2>1. Call(p, i) \in CallIds
    BY CallFields
  <2>2. CASE SendVerify(p, i)
    BY <2>1, <2>2 DEF SendVerify
  <2>3. CASE SendSettle(p, i)
    BY <2>1, <2>3 DEF SendSettle
  <2>4. QED
    BY <1>2, <2>2, <2>3
<1>3. ASSUME NEW p \in Presenters, NEW o \in Ended, End(p, o)
      PROVE  /\ step' \in [Presenters -> {"idle", "verify", "settle"} \cup Ended]
             /\ try' \in [Presenters -> 1..(Retries + 1)]
             /\ verified' \in [CallIds -> {"unsent", "sent", "claimed", "dead"} \cup VerifyAnswers]
             /\ posted' \in [CallIds -> {"unsent", "sent", "invalid"}]
  BY <1>3 DEF End
<1>4. ASSUME NEW p \in Presenters, try[p] <= Retries
      PROVE  try[p] + 1 \in 1..(Retries + 1)
  BY <1>4, RetriesAssumption
<1>5. 1 \in 1..(Retries + 1)
  BY RetriesAssumption
<1>6. \A p \in Presenters : Loss => losses' \in 0..MaxLosses
  BY RetriesAssumption DEF Loss
<1>7. "served" \in Ended /\ "refused" \in Ended /\ "threw" \in Ended
  BY DEF Ended
<1>8. ASSUME NEW p \in Presenters, ClientStep(p)
      PROVE  FlowTypeOK'
  <2>1. CASE Present(p) \/ Accepted(p)
    BY <1>2, <1>5, <2>1 DEF Present, Accepted
  <2>2. CASE ServedUnsettled(p) \/ Served(p)
    BY <1>3, <1>7, <2>2 DEF ServedUnsettled, Served
  <2>3. CASE Refused(p)
    BY <1>2, <1>3, <1>4, <1>7, <2>3 DEF Refused, MayRetry, Repeat
  <2>4. CASE SettleAgain(p)
    BY <1>2, <1>4, <2>4 DEF SettleAgain
  <2>5. CASE NetworkError(p)
    BY <1>2, <1>3, <1>4, <1>6, <1>7, <2>5 DEF NetworkError, MayRetry, Repeat
  <2>6. CASE Timeout(p)
    BY <1>3, <1>6, <1>7, <2>6 DEF Timeout
  <2>7. QED
    BY <1>8, <2>1, <2>2, <2>3, <2>4, <2>5, <2>6 DEF ClientStep
<1>9. ASSUME NEW k \in CallIds, VerifyStep(k)
      PROVE  FlowTypeOK'
  <2>1. \A a \in VerifyAnswers \cup {"claimed", "dead"} : VerifyAnswer(k, a) =>
          verified' \in [CallIds -> {"unsent", "sent", "claimed", "dead"} \cup VerifyAnswers]
    BY DEF VerifyAnswer
  <2>2. {"accepted", "duplicate_payment", "rejected", "error"} = VerifyAnswers
    BY DEF VerifyAnswers
  <2>3. CASE VerifyRejects(k) \/ VerifyClaims(k) \/ VerifyFindsStored(k) \/ VerifyAccepts(k)
    BY <2>1, <2>2, <2>3 DEF VerifyRejects, VerifyClaims, VerifyFindsStored, VerifyAccepts
  <2>4. CASE ClaimThrows(k) \/ VerifyUnsaved(k) \/ VerifyThrows(k) \/ VerifyDies(k)
    BY <1>6, <2>1, <2>2, <2>4, RetriesAssumption
    DEF ClaimThrows, VerifyUnsaved, VerifyThrows, VerifyDies, Loss
  <2>5. QED
    BY <1>9, <2>3, <2>4 DEF VerifyStep
<1>10. ASSUME NEW k \in CallIds, SettleRefusesBody(k)
       PROVE  FlowTypeOK'
  BY <1>10 DEF SettleRefusesBody
<1>11. QED
  BY <1>1, <1>8, <1>9, <1>10
  DEF FlowNext, allVars, SettleArrives, SettleGoesOn


-----------------------------------------------------------------------------
(* The steps of POST /settle. *)

\* An idle call goes on only when it arrives.
LEMMA IdleStays ==
  ASSUME TypeOK, SettleGoesOn, NEW c \in Calls, pc[c] = "idle"
  PROVE  pc'[c] = "idle"
<1> USE DEF TypeOK, chainVars, serviceVars, Goto, Return
<1>1. ASSUME NEW d \in Calls, Handler(d) \/ FaultStep(d)
      PROVE  d # c /\ (UNCHANGED pc \/ \E s \in Steps : pc' = [pc EXCEPT ![d] = s])
  <2>1. d # c
    BY <1>1 DEF Handler, FaultStep, CheckExisting, AcquireLock, LookupThrows,
       CreateSettlement, CreateThrows, StartSubmit, PrepareFails, Persist,
       PersistFails, SubmitProgress, ReleaseLock, ReleaseLockFails, MarkFailed,
       MarkFailedSwallowed, ReleaseAfterFailure, ReleaseSwallowed, Crash, Failing
  <2>2. UNCHANGED pc \/ \E s \in Steps : pc' = [pc EXCEPT ![d] = s]
    BY <1>1 DEF Handler, FaultStep, CheckExisting, AcquireLock, LookupThrows,
       CreateSettlement, CreateThrows, StartSubmit, PrepareFails, Persist,
       PersistFails, SubmitProgress, ReleaseLock, ReleaseLockFails, MarkFailed,
       MarkFailedSwallowed, ReleaseAfterFailure, ReleaseSwallowed, Crash, Steps
  <2>3. QED
    BY <2>1, <2>2
<1>2. ASSUME ~\E d \in Calls : Handler(d) \/ FaultStep(d)
      PROVE  UNCHANGED pc
  BY <1>2 DEF SettleGoesOn, ChainMines, LockExpires
<1>3. QED
  BY <1>1, <1>2

\* An answer is given once, as the call ends.
LEMMA AnswersFinal ==
  ASSUME TypeOK, [Next]_vars, NEW c \in Calls
  PROVE  /\ pc[c] = "done" => answer'[c] = answer[c]
         /\ answer'[c] # answer[c] => pc'[c] = "done"
<1> USE DEF TypeOK, chainVars, serviceVars, Goto
<1>1. ASSUME NEW d \in Calls, NEW a, Return(d, a), pc[d] # "done"
      PROVE  /\ pc[c] = "done" => answer'[c] = answer[c]
             /\ answer'[c] # answer[c] => pc'[c] = "done"
  BY <1>1 DEF Return
<1>2. ASSUME NEW d \in Calls,
             \/ VerificationNotFound(d) \/ AcquireLock(d)
             \/ LookupThrows(d) \/ CreateThrows(d) \/ ReleaseLock(d)
             \/ ReleaseAfterFailure(d) \/ ReleaseSwallowed(d)
      PROVE  /\ pc[d] # "done"
             /\ UNCHANGED answer \/ \E a : Return(d, a)
  BY <1>2 DEF VerificationNotFound, AcquireLock, LookupThrows, CreateThrows,
     ReleaseLock, ReleaseAfterFailure, ReleaseSwallowed
<1>3. ASSUME NEW d \in Calls, CheckExisting(d)
      PROVE  /\ pc[d] # "done"
             /\ UNCHANGED answer \/ \E a : Return(d, a)
  BY <1>3 DEF CheckExisting
<1>4. ASSUME ~\E d \in Calls :
                \/ VerificationNotFound(d) \/ CheckExisting(d) \/ AcquireLock(d)
                \/ LookupThrows(d) \/ CreateThrows(d) \/ ReleaseLock(d)
                \/ ReleaseAfterFailure(d) \/ ReleaseSwallowed(d)
      PROVE  UNCHANGED answer
  BY <1>4 DEF Next, Handler, FaultStep, vars, FindVerification,
     CreateSettlement, StartSubmit, PrepareFails, Persist, PersistFails,
     SubmitProgress, ReleaseLockFails, MarkFailed, MarkFailedSwallowed,
     ChainMines, Crash, LockExpires
<1>5. QED
  BY <1>1, <1>2, <1>3, <1>4

\* runSettle answers 500 only when a fault strikes, and never not_found to who
\* asks for an accepted verification.
LEMMA AnswerKinds ==
  ASSUME TypeOK, [Next]_vars, ~\E d \in Calls : VerificationNotFound(d),
         NEW c \in Calls, ToldState(c), faults' = 0 => faults = 0
  PROVE  ToldState(c)'
<1> USE DEF TypeOK
<1>1. answer'[c].kind # "none" => pc'[c] = "done"
  <2>1. CASE answer'[c] = answer[c]
    BY <2>1, DoneKept DEF ToldState
  <2>2. CASE answer'[c] # answer[c]
    BY <2>2, AnswersFinal
  <2>3. QED
    BY <2>1, <2>2
<1>2. ASSUME answer'[c] # answer[c]
      PROVE  /\ answer'[c].kind # "not_found"
             /\ faults' = 0 => answer'[c].kind # "error"
  <2>1. PICK d \in Calls :
               \/ CheckExisting(d) \/ AcquireLock(d) \/ LookupThrows(d)
               \/ CreateThrows(d) \/ ReleaseLock(d) \/ ReleaseAfterFailure(d)
               \/ ReleaseSwallowed(d)
    BY <1>2 DEF Next, Handler, FaultStep, vars, serviceVars, FindVerification,
       CreateSettlement, StartSubmit, PrepareFails, Persist, PersistFails,
       SubmitProgress, ReleaseLockFails, MarkFailed, MarkFailedSwallowed,
       ChainMines, Crash, LockExpires
  <2>2. CASE LookupThrows(d) \/ CreateThrows(d)
    <3>1. faults' # 0
      BY <2>2, MaxFaultsAssumption DEF LookupThrows, CreateThrows, Fault
    <3>2. Return(d, Told("error"))
      BY <2>2 DEF LookupThrows, CreateThrows
    <3>3. QED
      BY <1>2, <3>1, <3>2 DEF Return, Told
  <2>3. CASE CheckExisting(d)
    <3>1. PICK s \in Rows(req[d]) : Return(d, ExistingAnswer(s))
      BY <1>2, <2>3 DEF CheckExisting
    <3>2. answer'[c] = ExistingAnswer(s)
      BY <1>2, <3>1 DEF Return
    <3>3. QED
      BY <3>2 DEF ExistingAnswer, Told, Confirmed
  <2>4. CASE \/ AcquireLock(d) \/ ReleaseLock(d) \/ ReleaseAfterFailure(d)
             \/ ReleaseSwallowed(d)
    BY <1>2, <2>4 DEF AcquireLock, ReleaseLock, ReleaseAfterFailure,
       ReleaseSwallowed, Return, Told, Confirmed
  <2>5. QED
    BY <2>1, <2>2, <2>3, <2>4
<1>3. QED
  BY <1>1, <1>2 DEF ToldState

\* A row fails after its transaction was given up, or before there was one.
LEMMA GivenUpStep ==
  ASSUME IInv, [Next]_vars, NEW c \in Calls, GivenUp(c)
  PROVE  GivenUp(c)'
<1> USE DEF IInv, TypeOK, ChainTypeOK
<1>0. /\ c \in Calls /\ CallState(c) /\ Untried(c)
  OBVIOUS
<1> SUFFICES ASSUME faults' = 0, Submitted(c)',
                    row'[c] = "failed" \/ pc'[c] \in {"catch", "catchUnlock"}
             PROVE  leg'[c] = "threw"
  BY DEF GivenUp
<1>1. faults = 0
  BY FaultsGrow
<1>2. CASE row[c] = "failed" \/ pc[c] \in {"catch", "catchUnlock"}
  <2>1. pc[c] \notin {"prepare", "submit", "idle"}
    BY <1>0, <1>2 DEF CallState, Before
  <2>2. leg'[c] = leg[c] /\ (Submitted(c)' => Submitted(c))
    <3>1. UNCHANGED <<leg, tx>> \/ \E d \in Calls : StartSubmit(d) \/ SubmitProgress(d) \/ Crash(d) \/ \E i \in Attempts : ChainMines(d, i)
      BY DEF Next, Handler, FaultStep, vars, chainVars, FindVerification,
         VerificationNotFound, CheckExisting, AcquireLock, LookupThrows,
         CreateSettlement, CreateThrows, PrepareFails, Persist, PersistFails,
         ReleaseLock, ReleaseLockFails, MarkFailed, MarkFailedSwallowed,
         ReleaseAfterFailure, ReleaseSwallowed, LockExpires
    <3>2. CASE UNCHANGED <<leg, tx>>
      BY <3>2 DEF Submitted
    <3>3. ASSUME NEW d \in Calls, StartSubmit(d)
          PROVE  leg'[c] = leg[c] /\ UNCHANGED tx
      BY <2>1, <3>3 DEF StartSubmit
    <3>4. ASSUME NEW d \in Calls, SubmitProgress(d)
          PROVE  leg'[c] = leg[c] /\ tx'[c] = tx[c]
      BY <2>1, <3>4 DEF SubmitProgress, SubmitStep, WriteOk, WriteFails,
         ReceiptOk, ReceiptFails, NextRpc, Broadcast
    <3>5. ASSUME NEW d \in Calls, Crash(d)
          PROVE  FALSE
      BY <1>1, <3>5 DEF Crash, Fault
    <3>6. ASSUME NEW d \in Calls, NEW i \in Attempts, ChainMines(d, i)
          PROVE  leg'[c] = leg[c] /\ (Submitted(c)' => Submitted(c))
      BY <3>6 DEF ChainMines, Mine, Submitted
    <3>7. QED
      BY <3>1, <3>2, <3>3, <3>4, <3>5, <3>6 DEF Submitted
  <2>3. QED
    BY <1>1, <1>2, <2>2 DEF GivenUp
<1>3. CASE row[c] # "failed" /\ pc[c] \notin {"catch", "catchUnlock"}
  <2>1. \/ MarkFailed(c) \/ PrepareFails(c)
    <3>1. row'[c] # row[c] \/ pc'[c] # pc[c]
      BY <1>3
    <3>2. ASSUME NEW d \in Calls, MarkFailed(d) \/ PrepareFails(d)
          PROVE  d = c
      BY <1>3, <3>2 DEF MarkFailed, PrepareFails, Goto
    <3>3. ASSUME NEW d \in Calls,
                 \/ LookupThrows(d) \/ CreateThrows(d) \/ PersistFails(d)
                 \/ ReleaseLockFails(d) \/ MarkFailedSwallowed(d)
                 \/ ReleaseSwallowed(d) \/ Crash(d)
          PROVE  FALSE
      BY <1>1, <3>3 DEF LookupThrows, CreateThrows, PersistFails,
         ReleaseLockFails, MarkFailedSwallowed, ReleaseSwallowed, Crash, Fault
    <3>4. ASSUME NEW d \in Calls,
                 \/ \E r \in Requests : FindVerification(d, r)
                 \/ VerificationNotFound(d) \/ CheckExisting(d) \/ AcquireLock(d)
                 \/ CreateSettlement(d) \/ StartSubmit(d) \/ SubmitProgress(d)
                 \/ Persist(d) \/ ReleaseLock(d) \/ ReleaseAfterFailure(d)
                 \/ \E i \in Attempts : ChainMines(d, i)
          PROVE  FALSE
      BY <1>3, <3>4 DEF FindVerification, VerificationNotFound, CheckExisting,
         AcquireLock, CreateSettlement, StartSubmit, SubmitProgress, Persist,
         ReleaseLock, ReleaseAfterFailure, ChainMines, Goto, Return,
         CommitConfirmed, serviceVars
    <3>5. ASSUME NEW r \in Requests, LockExpires(r)
          PROVE  FALSE
      BY <1>3, <3>5 DEF LockExpires
    <3>6. QED
      BY <3>1, <3>2, <3>3, <3>4, <3>5
      DEF Next, Handler, FaultStep, vars, serviceVars
  <2>2. CASE MarkFailed(c)
    BY <1>3, <2>2 DEF MarkFailed, Failing, chainVars
  <2>3. CASE PrepareFails(c)
    BY <1>0, <2>3 DEF PrepareFails, Untried, chainVars, Submitted
  <2>4. QED
    BY <2>1, <2>2, <2>3
<1>4. QED
  BY <1>2, <1>3

-----------------------------------------------------------------------------
(* The invariant, one side of the flow at a time. *)

\* The accepted verification stays, and a call is accepted by being stored.
LEMMA AcceptedStep ==
  ASSUME FlowInv, [FlowNext]_allVars
  PROVE  /\ AcceptedStored'
         /\ stored # NoCall => stored' = stored
<1> USE DEF FlowInv, FlowTypeOK, AcceptedStored
<1>1. CASE UNCHANGED <<verified, stored>>
  BY <1>1
<1>2. ASSUME NEW p \in Presenters, ClientStep(p)
      PROVE  /\ UNCHANGED stored
             /\ \A k \in CallIds : verified'[k] = "accepted" => verified[k] = "accepted"
  BY <1>2 DEF ClientStep, Present, Accepted, ServedUnsettled, Served, Refused,
     SettleAgain, NetworkError, Timeout, Repeat, End, SendVerify, SendSettle
<1>3. ASSUME NEW k \in CallIds, VerifyStep(k)
      PROVE  AcceptedStored' /\ (stored # NoCall => stored' = stored)
  <2>1. CASE VerifyAccepts(k)
    BY <2>1, NoCallAssumption, CallsAssumption DEF VerifyAccepts, VerifyAnswer
  <2>2. CASE VerifyUnsaved(k) \/ VerifyThrows(k)
    BY <2>2, NoCallAssumption, CallsAssumption DEF VerifyUnsaved, VerifyThrows, VerifyAnswer
  <2>3. CASE \/ VerifyRejects(k) \/ VerifyClaims(k) \/ ClaimThrows(k)
             \/ VerifyFindsStored(k) \/ VerifyDies(k)
    BY <2>3 DEF VerifyRejects, VerifyClaims, ClaimThrows, VerifyFindsStored,
       VerifyDies, VerifyAnswer
  <2>4. QED
    BY <1>3, <2>1, <2>2, <2>3 DEF VerifyStep
<1>4. ASSUME NEW k \in CallIds, SettleRefusesBody(k) \/ SettleArrives(k) \/ SettleGoesOn
      PROVE  UNCHANGED <<verified, stored>>
  BY <1>4 DEF SettleRefusesBody, SettleArrives, SettleGoesOn, flowVars
<1>5. SettleGoesOn => UNCHANGED <<verified, stored>>
  BY DEF SettleGoesOn, flowVars
<1>6. [FlowNext]_allVars /\ ~UNCHANGED <<verified, stored>> =>
        \/ \E p \in Presenters : ClientStep(p)
        \/ \E k \in CallIds : VerifyStep(k)
  BY <1>4, <1>5 DEF FlowNext, allVars, flowVars
<1>7. QED
  BY <1>1, <1>2, <1>3, <1>6

\* What p's step leaves of the other clients, and of its own calls.
LEMMA ClientKeeps ==
  ASSUME FlowTypeOK, NEW p \in Presenters, ClientStep(p)
  PROVE  /\ UNCHANGED <<vars, kind, stored>>
         /\ \A q \in Presenters : q # p => step'[q] = step[q] /\ try'[q] = try[q]
         /\ \A c \in CallIds : c.p # p =>
              verified'[c] = verified[c] /\ posted'[c] = posted[c]
         /\ \A c \in CallIds : posted[c] # "unsent" => posted'[c] # "unsent"
         /\ \A c \in CallIds : posted'[c] # posted[c] => posted'[c] = "sent"
<1> USE DEF FlowTypeOK
<1>1. UNCHANGED <<vars, kind, stored>>
  BY DEF ClientStep, Present, Accepted, ServedUnsettled, Served, Refused,
     SettleAgain, NetworkError, Timeout
<1>2. \/ \E o \in Ended : End(p, o)
      \/ \E i \in 1..(Retries + 1) : SendVerify(p, i) \/ SendSettle(p, i)
  <2>1. try[p] <= Retries => try[p] + 1 \in 1..(Retries + 1)
    BY RetriesAssumption
  <2>2. 1 \in 1..(Retries + 1)
    BY RetriesAssumption
  <2>3. QED
    BY <2>1, <2>2 DEF ClientStep, Present, Accepted, ServedUnsettled, Served,
       Refused, SettleAgain, NetworkError, Timeout, Repeat, MayRetry, Ended
<1>3. CASE \E o \in Ended : End(p, o)
  BY <1>1, <1>3 DEF End
<1>4. ASSUME NEW i \in 1..(Retries + 1), SendVerify(p, i) \/ SendSettle(p, i)
      PROVE  /\ \A q \in Presenters : q # p => step'[q] = step[q] /\ try'[q] = try[q]
             /\ \A c \in CallIds : c.p # p =>
                  verified'[c] = verified[c] /\ posted'[c] = posted[c]
             /\ \A c \in CallIds : posted[c] # "unsent" => posted'[c] # "unsent"
             /\ \A c \in CallIds : posted'[c] # posted[c] => posted'[c] = "sent"
  <2>1. Call(p, i) \in CallIds /\ Call(p, i).p = p
    BY CallFields
  <2>2. CASE SendVerify(p, i)
    BY <2>1, <2>2 DEF SendVerify
  <2>3. CASE SendSettle(p, i)
    BY <2>1, <2>3 DEF SendSettle
  <2>4. QED
    BY <1>4, <2>2, <2>3
<1>5. QED
  BY <1>1, <1>2, <1>3, <1>4

\* The reply to a client changes only as it calls, or as a call is answered.
LEMMA ReplySame ==
  ASSUME FlowTypeOK, NEW p \in Presenters, try'[p] = try[p],
         verified'[Current(p)] = verified[Current(p)],
         posted'[Current(p)] = posted[Current(p)],
         answer'[Current(p)] = answer[Current(p)]
  PROVE  Current(p)' = Current(p) /\ Reply(p)' = Reply(p)
BY DEF Current, Call, Reply

\* The own step of a client.
LEMMA OwnStep ==
  ASSUME FlowInv, IInv, NEW p \in Presenters, ClientStep(p)
  PROVE  ClientState(p)'
<1> USE DEF FlowInv
<1>0. FlowTypeOK /\ ClientState(p) /\ Current(p) \in CallIds /\ Current(p).p = p
  BY CurrentCall
<1>1. UNCHANGED <<vars, kind, stored>>
  BY ClientKeeps
<1>2. ASSUME NEW i \in 1..(Retries + 1), SendVerify(p, i),
             step[p] \in {"idle", "verify"}
      PROVE  ClientState(p)'
  <2>1. step'[p] = "verify" /\ UNCHANGED posted
    BY <1>2 DEF SendVerify, FlowTypeOK
  <2>2. QED
    BY <1>0, <1>2, <2>1 DEF ClientState
<1>3. ASSUME NEW i \in 1..(Retries + 1), SendSettle(p, i)
      PROVE  ClientState(p)'
  <2>1. step'[p] = "settle" /\ try'[p] = i /\ Call(p, i) \in CallIds
    BY <1>3, CallFields DEF SendSettle, FlowTypeOK
  <2>2. posted'[Call(p, i)] = "sent" /\ Current(p)' = Call(p, i)
    BY <1>3, <2>1 DEF SendSettle, FlowTypeOK, Current, Call
  <2>3. QED
    BY <2>1, <2>2 DEF ClientState
<1>4. ASSUME End(p, "threw"), Waiting(p)
      PROVE  ClientState(p)'
  <2>1. step'[p] = "threw" /\ UNCHANGED <<posted, try>> /\ Current(p)' = Current(p)
    BY <1>4 DEF End, FlowTypeOK, Current, Call
  <2>2. QED
    BY <1>0, <2>1 DEF ClientState
<1>5. ASSUME End(p, "refused"), Reply(p) \in Negative
      PROVE  ClientState(p)'
  <2>1. step'[p] = "refused" /\ UNCHANGED <<posted, try, verified, answer>>
    BY <1>1, <1>5 DEF End, FlowTypeOK, vars, serviceVars
  <2>2. Current(p)' = Current(p) /\ Reply(p)' = Reply(p)
    BY <1>0, <2>1, ReplySame
  <2>3. QED
    BY <1>0, <1>5, <2>1, <2>2 DEF ClientState
<1>6. ASSUME End(p, "served"), stored # NoCall, stored.p = p,
             kind[p] # "verifyOnly" => answer[Current(p)].kind = "confirmed"
      PROVE  ClientState(p)'
  <2>1. step'[p] = "served" /\ UNCHANGED <<posted, try, answer, stored, kind>> /\ Current(p)' = Current(p)
    BY <1>1, <1>6 DEF End, FlowTypeOK, Current, Call, vars, serviceVars
  <2>2. QED
    BY <1>0, <1>6, <2>1 DEF ClientState
<1>7. 1 \in 1..(Retries + 1) /\ (try[p] <= Retries => try[p] + 1 \in 1..(Retries + 1))
  BY <1>0, RetriesAssumption DEF FlowTypeOK
<1>8. ASSUME Repeat(p), try[p] <= Retries
      PROVE  ClientState(p)'
  BY <1>2, <1>3, <1>7, <1>8 DEF Repeat
<1>9. CASE Present(p)
  BY <1>2, <1>7, <1>9 DEF Present
<1>10. CASE Accepted(p) \/ SettleAgain(p)
  BY <1>3, <1>7, <1>10 DEF Accepted, SettleAgain
<1>11. CASE ServedUnsettled(p)
  <2>1. verified[Current(p)] = "accepted"
    BY <1>0, <1>11 DEF ServedUnsettled, Reply, ClientState
  <2>2. stored = Current(p)
    BY <1>0, <2>1 DEF AcceptedStored
  <2>3. stored # NoCall
    BY <1>0, <2>2, NoCallAssumption, CallsAssumption
  <2>4. QED
    BY <1>0, <1>6, <1>11, <2>2, <2>3 DEF ServedUnsettled
<1>12. CASE Served(p)
  <2>1. answer[Current(p)].kind = "confirmed"
    BY <1>0, <1>12 DEF Served, Reply, ClientState
  <2>2. pc[Current(p)] # "idle"
    BY <1>0, <2>1 DEF ToldState
  <2>3. stored # NoCall /\ stored.p = p
    BY <1>0, <2>2 DEF SettleState
  <2>4. QED
    BY <1>6, <1>12, <2>1, <2>3 DEF Served
<1>13. CASE Refused(p)
  <2>1. Reply(p) \in Negative
    BY <1>13 DEF Refused, Negative
  <2>2. (Repeat(p) /\ try[p] <= Retries) \/ End(p, "refused")
    BY <1>13 DEF Refused, MayRetry
  <2>3. QED
    BY <1>5, <1>8, <2>1, <2>2
<1>14. CASE NetworkError(p)
  BY <1>4, <1>8, <1>14 DEF NetworkError, MayRetry
<1>15. CASE Timeout(p)
  BY <1>4, <1>15 DEF Timeout
<1>16. QED
  BY <1>9, <1>10, <1>11, <1>12, <1>13, <1>14, <1>15 DEF ClientStep

\* Nobody in the flow asks for a verification that is not there.
LEMMA FlowCallsFind ==
  ASSUME FlowInv, TypeOK, [FlowNext]_allVars, NEW d \in Calls
  PROVE  ~VerificationNotFound(d)
<1> SUFFICES ASSUME VerificationNotFound(d) PROVE FALSE
  OBVIOUS
<1> USE DEF TypeOK
<1>1. pc[d] = "idle" /\ pc'[d] = "done" /\ answer'[d] = Told("not_found") /\ UNCHANGED req
  BY DEF VerificationNotFound, Return, Goto, chainVars
<1>2. ~UNCHANGED vars
  BY <1>1 DEF vars, serviceVars
<1>3. ~SettleGoesOn
  BY <1>1, IdleStays
<1>4. ASSUME NEW k \in CallIds, SettleArrives(k)
      PROVE  FALSE
  BY <1>1, <1>4 DEF SettleArrives, FindVerification, Goto
<1>5. ASSUME NEW p \in Presenters, ClientStep(p)
      PROVE  FALSE
  BY <1>2, <1>5, ClientKeeps DEF FlowInv
<1>6. ASSUME NEW k \in CallIds, VerifyStep(k) \/ SettleRefusesBody(k)
      PROVE  FALSE
  BY <1>2, <1>6 DEF VerifyStep, SettleRefusesBody, VerifyRejects, VerifyClaims,
     ClaimThrows, VerifyFindsStored, VerifyAccepts, VerifyUnsaved, VerifyThrows,
     VerifyDies
<1>7. QED
  BY <1>2, <1>3, <1>4, <1>5, <1>6 DEF FlowNext, allVars

\* A client that does nothing keeps its state, whatever the server does.
LEMMA ClientStays ==
  ASSUME FlowInv, IInv, [FlowNext]_allVars, NEW p \in Presenters,
         step'[p] = step[p], try'[p] = try[p], kind'[p] = kind[p],
         \A c \in CallIds : c.p = p =>
            /\ posted'[c] = "unsent" <=> posted[c] = "unsent"
            /\ posted'[c] = "invalid" => posted[c] = "invalid" \/ pc[c] = "idle"
            /\ posted[c] = "invalid" => posted'[c] = "invalid"
            /\ verified[c] \in VerifyAnswers => verified'[c] = verified[c]
  PROVE  ClientState(p)'
<1> USE DEF FlowInv
<1>0. /\ ClientState(p) /\ Current(p) \in CallIds /\ Current(p).p = p
      /\ SettleState(Current(p)) /\ ToldState(Current(p))
  BY CurrentCall
<1>1. Current(p)' = Current(p)
  BY DEF Current, Call
<1>2. answer[Current(p)].kind # "none" => answer'[Current(p)] = answer[Current(p)]
  <2>1. [Next]_vars /\ TypeOK
    BY FlowDrives DEF IInv
  <2>2. Current(p) \in Calls
    BY <1>0, CallsAssumption
  <2>3. QED
    BY <1>0, <2>1, <2>2, AnswersFinal DEF ToldState
<1>3. stored # NoCall => stored' = stored
  BY AcceptedStep
<1>4. ASSUME step[p] = "refused"
      PROVE  Reply(p)' = Reply(p)
  <2>1. Reply(p) \in Negative
    BY <1>0, <1>4 DEF ClientState
  <2>2. CASE posted[Current(p)] = "unsent"
    <3>1. verified[Current(p)] \in VerifyAnswers
      BY <1>0, <2>1, <2>2 DEF Reply, Negative, VerifyAnswers, SettleAnswers, FlowTypeOK
    <3>2. QED
      BY <1>0, <1>1, <2>2, <3>1 DEF Reply
  <2>3. CASE posted[Current(p)] = "invalid"
    BY <1>0, <1>1, <2>3 DEF Reply
  <2>4. CASE posted[Current(p)] = "sent"
    <3>1. answer[Current(p)].kind \in Negative
      BY <2>1, <2>4 DEF Reply
    <3>2. answer[Current(p)].kind # "none"
      BY <3>1 DEF Negative, VerifyAnswers, SettleAnswers
    <3>3. pc[Current(p)] # "idle"
      BY <1>0, <3>2 DEF ToldState
    <3>4. posted'[Current(p)] # "unsent" /\ posted'[Current(p)] # "invalid"
      BY <1>0, <2>4, <3>3
    <3>5. QED
      BY <1>1, <1>2, <2>4, <3>2, <3>4 DEF Reply
  <2>5. QED
    BY <1>0, <2>2, <2>3, <2>4 DEF FlowTypeOK
<1>5. ASSUME step[p] = "served"
      PROVE  /\ stored' # NoCall /\ stored'.p = p
             /\ kind'[p] # "verifyOnly" => answer'[Current(p)].kind = "confirmed"
  <2>1. /\ stored # NoCall /\ stored.p = p
        /\ kind[p] # "verifyOnly" => answer[Current(p)].kind = "confirmed"
    BY <1>0, <1>5 DEF ClientState
  <2>2. QED
    BY <1>2, <1>3, <2>1
<1>6. QED
  BY <1>0, <1>1, <1>4, <1>5 DEF ClientState

\* Every client keeps its state, in every step.
LEMMA ClientsStep ==
  ASSUME FlowInv, IInv, [FlowNext]_allVars, NEW p \in Presenters
  PROVE  ClientState(p)'
<1> USE DEF FlowInv
<1>1. CASE ClientStep(p)
  BY <1>1, OwnStep
<1>2. ASSUME NEW q \in Presenters, q # p, ClientStep(q)
      PROVE  ClientState(p)'
  <2>1. /\ UNCHANGED <<vars, kind, stored>> /\ step'[p] = step[p] /\ try'[p] = try[p]
        /\ \A c \in CallIds : c.p # q => verified'[c] = verified[c] /\ posted'[c] = posted[c]
    BY <1>2, ClientKeeps
  <2>2. QED
    BY <1>2, <2>1, ClientStays
<1>3. ASSUME NEW k \in CallIds, VerifyStep(k)
      PROVE  ClientState(p)'
  <2>1. UNCHANGED <<kind, step, try, posted>>
    BY <1>3 DEF VerifyStep, VerifyRejects, VerifyClaims, ClaimThrows,
       VerifyFindsStored, VerifyAccepts, VerifyUnsaved, VerifyThrows, VerifyDies
  <2>2. verified[k] \in {"sent", "claimed"}
    BY <1>3 DEF VerifyStep, VerifyRejects, VerifyClaims, ClaimThrows,
       VerifyFindsStored, VerifyAccepts, VerifyUnsaved, VerifyThrows, VerifyDies
  <2>3. \A c \in CallIds : c # k => verified'[c] = verified[c]
    BY <1>3 DEF VerifyStep, VerifyRejects, VerifyClaims, ClaimThrows,
       VerifyFindsStored, VerifyAccepts, VerifyUnsaved, VerifyThrows, VerifyDies,
       VerifyAnswer, FlowTypeOK
  <2>4. \A c \in CallIds : verified[c] \in VerifyAnswers => verified'[c] = verified[c]
    BY <2>2, <2>3 DEF VerifyAnswers
  <2>5. QED
    BY <2>1, <2>4, ClientStays
<1>4. ASSUME NEW k \in CallIds, SettleRefusesBody(k)
      PROVE  ClientState(p)'
  <2>1. /\ UNCHANGED <<kind, step, try, verified>>
        /\ posted[k] = "sent" /\ kind[k.p] \in {"client", "agent"}
        /\ posted' = [posted EXCEPT ![k] = "invalid"]
    BY <1>4 DEF SettleRefusesBody
  <2>2. pc[k] = "idle"
    BY <2>1 DEF SettleState
  <2>3. \A c \in CallIds : /\ posted'[c] = "unsent" <=> posted[c] = "unsent"
                           /\ posted'[c] = "invalid" => posted[c] = "invalid" \/ pc[c] = "idle"
                           /\ posted[c] = "invalid" => posted'[c] = "invalid"
    BY <2>1, <2>2 DEF FlowTypeOK
  <2>4. QED
    BY <2>1, <2>3, ClientStays
<1>5. ASSUME UNCHANGED flowVars
      PROVE  ClientState(p)'
  BY <1>5, ClientStays DEF flowVars
<1>6. QED
  BY <1>1, <1>2, <1>3, <1>4, <1>5
  DEF FlowNext, allVars, SettleArrives, SettleGoesOn

\* runSettle stays with the accepted request of its caller.
LEMMA SettleStays ==
  ASSUME FlowInv, IInv, [FlowNext]_allVars, NEW c \in CallIds
  PROVE  SettleState(c)'
<1> USE DEF FlowInv
<1>0. /\ SettleState(c) /\ c \in Calls /\ TypeOK /\ [Next]_vars
      /\ c.p \in Presenters
  BY FlowDrives, CallsAssumption DEF IInv, CallIds
<1>1. stored # NoCall => stored' = stored
  BY AcceptedStep
<1>2. pc[c] # "idle" => req'[c] = req[c]
  BY <1>0, DoneKept
<1>3. ASSUME pc'[c] # "idle" => pc[c] # "idle", UNCHANGED kind,
             posted'[c] # posted[c] => posted'[c] = "sent"
      PROVE  SettleState(c)'
  BY <1>0, <1>1, <1>2, <1>3 DEF SettleState
<1>4. ASSUME NEW p \in Presenters, ClientStep(p)
      PROVE  SettleState(c)'
  BY <1>3, <1>4, ClientKeeps DEF vars, serviceVars
<1>5. ASSUME NEW k \in CallIds, VerifyStep(k)
      PROVE  SettleState(c)'
  <2>1. UNCHANGED <<vars, kind, posted>>
    BY <1>5 DEF VerifyStep, VerifyRejects, VerifyClaims, ClaimThrows,
       VerifyFindsStored, VerifyAccepts, VerifyUnsaved, VerifyThrows, VerifyDies
  <2>2. QED
    BY <1>3, <2>1 DEF vars, serviceVars
<1>6. ASSUME NEW k \in CallIds, SettleRefusesBody(k)
      PROVE  SettleState(c)'
  <2>1. /\ UNCHANGED <<vars, kind, stored>> /\ kind[k.p] \in {"client", "agent"}
        /\ posted' = [posted EXCEPT ![k] = "invalid"]
    BY <1>6 DEF SettleRefusesBody
  <2>2. pc[k] = "idle"
    <3>1. SettleState(k)
      OBVIOUS
    <3>2. QED
      BY <2>1, <3>1 DEF SettleState
  <2>3. UNCHANGED <<pc, kind, stored>>
    BY <2>1 DEF vars, serviceVars
  <2>4. CASE c = k
    BY <1>0, <2>1, <2>2, <2>3, <2>4 DEF SettleState
  <2>5. CASE c # k
    <3>1. posted'[c] = posted[c]
      BY <2>1, <2>5
    <3>2. QED
      BY <1>3, <2>3, <3>1
  <2>6. QED
    BY <2>4, <2>5
<1>7. ASSUME NEW k \in CallIds, SettleArrives(k)
      PROVE  SettleState(c)'
  <2>1. PICK r \in Requests : /\ r.p = k.p /\ verified[r] = "accepted"
                              /\ FindVerification(k, r)
    BY <1>7 DEF SettleArrives
  <2>2. stored = r /\ stored # NoCall /\ stored.p = k.p
    BY <2>1, NoCallAssumption, CallsAssumption DEF AcceptedStored
  <2>3. UNCHANGED flowVars /\ posted[k] = "sent" /\ kind[k.p] \in {"middleware", "app"}
    BY <1>7 DEF SettleArrives
  <2>4. CASE c = k
    BY <1>0, <2>1, <2>2, <2>3, <2>4
    DEF SettleState, FindVerification, flowVars, TypeOK, ChainTypeOK
  <2>5. CASE c # k
    BY <1>3, <2>1, <2>3, <2>5 DEF FindVerification, Goto, flowVars
  <2>6. QED
    BY <2>4, <2>5
<1>8. ASSUME SettleGoesOn
      PROVE  SettleState(c)'
  <2>1. UNCHANGED flowVars
    BY <1>8 DEF SettleGoesOn
  <2>2. QED
    BY <1>0, <1>3, <1>8, <2>1, IdleStays DEF flowVars
<1>9. ASSUME UNCHANGED allVars
      PROVE  SettleState(c)'
  BY <1>3, <1>9 DEF allVars, vars, serviceVars, flowVars
<1>10. QED
  BY <1>4, <1>5, <1>6, <1>7, <1>8, <1>9 DEF FlowNext

LEMMA FlowStarts == FlowInit => FlowInv
<1> SUFFICES ASSUME FlowInit PROVE FlowInv
  OBVIOUS
<1>1. FlowTypeOK
  BY RetriesAssumption DEF FlowInit, FlowTypeOK
<1>2. \A p \in Presenters : Current(p) \in CallIds
  BY <1>1, CurrentCall
<1>3. ASSUME NEW p \in Presenters
      PROVE  ClientState(p)
  BY <1>2 DEF FlowInit, ClientState
<1>4. ASSUME NEW c \in CallIds
      PROVE  SettleState(c) /\ ToldState(c) /\ GivenUp(c)
  BY CallsAssumption DEF FlowInit, Init, ChainInit, SettleState, ToldState,
     GivenUp, Submitted, Told
<1>5. AcceptedStored
  BY DEF FlowInit, AcceptedStored
<1>6. QED
  BY <1>1, <1>3, <1>4, <1>5 DEF FlowInv

LEMMA FlowStep ==
  ASSUME FlowInv, IInv, [FlowNext]_allVars
  PROVE  FlowInv'
<1>1. FlowTypeOK' /\ AcceptedStored'
  BY FlowTypes, AcceptedStep DEF FlowInv
<1>2. \A p \in Presenters : ClientState(p)'
  BY ClientsStep
<1>3. ASSUME NEW c \in CallIds
      PROVE  SettleState(c)' /\ ToldState(c)' /\ GivenUp(c)'
  <2>1. c \in Calls /\ [Next]_vars /\ TypeOK
    BY FlowDrives, CallsAssumption DEF IInv
  <2>2. ASSUME NEW d \in Calls, VerificationNotFound(d)
        PROVE  FALSE
    BY <2>1, <2>2, FlowCallsFind
  <2>3. faults' = 0 => faults = 0
    BY <2>1, FaultsGrow
  <2>4. ToldState(c)'
    BY <2>1, <2>2, <2>3, AnswerKinds DEF FlowInv
  <2>5. GivenUp(c)'
    BY <2>1, GivenUpStep DEF FlowInv
  <2>6. SettleState(c)'
    BY SettleStays
  <2>7. QED
    BY <2>4, <2>5, <2>6
<1>4. QED
  BY <1>1, <1>2, <1>3 DEF FlowInv

LEMMA FlowHolds == FlowSpec => [](FlowInv /\ IInv /\ FailureOnRecord)
BY FlowStarts, FlowStep, FlowSettles, PTL DEF FlowSpec

-----------------------------------------------------------------------------
(* The properties. *)

\* The resource is served to at most one presenter, the one whose verification
\* was accepted, and only against a receipt and moved funds unless the seller
\* turned autoSettle off; for any presenters, retries, losses and faults.
THEOREM ServedByOne == FlowSpec => []ServedOnce
<1>1. ASSUME FlowInv, IInv
      PROVE  ServedOnce
  <2> USE <1>1 DEF FlowInv
  <2>1. ASSUME NEW p \in Presenters, step[p] = "served"
        PROVE  /\ stored # NoCall /\ stored.p = p
               /\ kind[p] # "verifyOnly" => answer[Current(p)].kind = "confirmed"
    <3>1. ClientState(p)
      OBVIOUS
    <3>2. QED
      BY <2>1, <3>1 DEF ClientState
  <2>2. ASSUME NEW p \in Presenters, step[p] = "served", kind[p] # "verifyOnly"
        PROVE  receipt[stored] # NoCall /\ Transferred(stored)
    <3>1. /\ Current(p) \in CallIds /\ SettleState(Current(p)) /\ ToldState(Current(p))
      BY CurrentCall
    <3>2. AnswerState(Current(p))
      BY <3>1, CallsAssumption DEF IInv
    <3>3. answer[Current(p)].kind = "confirmed"
      BY <2>1, <2>2
    <3>4. req[Current(p)] = stored /\ stored \in Requests
      BY <3>1, <3>2, <3>3 DEF SettleState, AnswerState
    <3>5. receipt[stored] # NoCall
      BY <3>2, <3>3, <3>4 DEF AnswerState
    <3>6. ReceiptState(stored) /\ receipt[stored] \in Calls
      BY <3>4, <3>5 DEF IInv, TypeOK
    <3>7. QED
      BY <3>5, <3>6 DEF ReceiptState, Transferred
  <2>3. QED
    BY <2>1, <2>2 DEF ServedOnce
<1>2. QED
  BY <1>1, FlowHolds, PTL

\* Without a fault of POST /settle, who is refused though the funds moved has a
\* call still at work, a transaction given up that was mined all the same, or a
\* second settlement its repeated call raced into.
THEOREM PaidServed == FlowSpec => []PaidIsServed
<1>1. ASSUME FlowInv, IInv, FailureOnRecord
      PROVE  PaidIsServed
  <2> USE <1>1 DEF FlowInv
  <2> SUFFICES ASSUME faults = 0, NEW p \in Presenters, step[p] = "refused",
                      stored # NoCall, stored.p = p, Transferred(stored),
                      Reply(p) # "pending"
               PROVE  \E c \in Rows(stored) :
                        row[c] = "failed" /\ (leg[c] = "threw" \/ Rows(stored) # {c})
    BY DEF PaidIsServed
  <2>1. PICK c \in Calls, i \in Attempts : req[c] = stored /\ tx[c][i] = "success"
    BY DEF Transferred
  <2>2. Submitted(c) /\ row[c] # "none" /\ c \in CallIds
    <3>1. CallState(c)
      BY DEF IInv
    <3>2. QED
      BY <2>1, <3>1, CallsAssumption DEF Submitted, CallState
  <2>3. pc[c] # "idle"
    <3>1. CallState(c)
      BY DEF IInv
    <3>2. QED
      BY <2>2, <3>1 DEF CallState, Before
  <2>4. posted[c] = "sent" /\ c.p = p /\ kind[p] \in {"middleware", "app"}
    <3>1. SettleState(c)
      BY <2>2
    <3>2. QED
      BY <2>1, <2>3, <3>1 DEF SettleState
  <2> DEFINE k == Current(p)
  <2>5. k \in CallIds /\ k.p = p /\ k \in Calls
    BY CurrentCall, CallsAssumption
  <2>6. posted[k] = "sent"
    <3>1. posted[k] # "unsent"
      <4>1. ClientState(p)
        OBVIOUS
      <4>2. QED
        BY <2>2, <2>4, <4>1 DEF ClientState
    <3>2. posted[k] # "invalid"
      <4>1. SettleState(k)
        BY <2>5
      <4>2. QED
        BY <2>4, <2>5, <4>1 DEF SettleState
    <3>3. QED
      BY <2>5, <3>1, <3>2 DEF FlowTypeOK
  <2>7. answer[k].kind = "failed"
    <3>1. Reply(p) = answer[k].kind
      BY <2>6 DEF Reply
    <3>2. Reply(p) \in Negative
      <4>1. ClientState(p)
        OBVIOUS
      <4>2. QED
        BY <4>1 DEF ClientState
    <3>3. answer[k].kind \in {"none", "confirmed", "failed", "pending", "not_found", "error"}
      BY <2>5 DEF IInv, TypeOK, Answers
    <3>4. answer[k].kind # "not_found" /\ answer[k].kind # "error"
      BY <2>5 DEF ToldState
    <3>5. QED
      BY <3>1, <3>2, <3>3, <3>4 DEF Negative, VerifyAnswers, SettleAnswers
  <2>8. req[k] = stored
    BY <2>5, <2>7 DEF ToldState, SettleState
  <2>9. PICK x \in Rows(stored) : row[x] = "failed"
    BY <2>5, <2>7, <2>8 DEF FailureOnRecord
  <2>10. c \in Rows(stored)
    BY <2>1, <2>2 DEF Rows
  <2>11. CASE x = c
    BY <2>2, <2>9, <2>11 DEF GivenUp
  <2>12. CASE x # c
    BY <2>9, <2>10, <2>12
  <2>13. QED
    BY <2>9, <2>11, <2>12
<1>2. QED
  BY <1>1, FlowHolds, PTL

-----------------------------------------------------------------------------
(* RpcClient: breakers and calls. *)

\* A breaker holds fewer failures than trip it.
BreakerType == [state : {"CLOSED", "OPEN", "HALF_OPEN"}, failures : 0..(FailureThreshold - 1),
                successes : 0..SuccessThreshold, wait : 0..ResetTicks]

\* A call has attempts left.
CallType == [pc : {"idle", "ask", "flight", "backoff"}, at : Providers, left : 0..MaxRetries]

\* The types.
RpcTyped ==
  /\ stack \in {"ResilientRpcClient", "RpcFailoverClient"}
  /\ breaker \in [Providers -> BreakerType]
  /\ call \in [Slots -> CallType]
  /\ lost \in [Providers -> 0..FailureThreshold]
  /\ overdue \in [Providers -> [Slots -> Nat]]

\* A closed breaker has counted every failure since the last success.
Counts(p) == breaker[p].state = "CLOSED" => lost[p] <= breaker[p].failures

\* The attempts a call has left on a provider without asking its breaker again.
Blind(c, p) ==
  CASE call[c].at = p /\ call[c].pc = "flight" -> call[c].left - 1
    [] call[c].at = p /\ call[c].pc = "backoff" -> call[c].left
    [] OTHER -> 0

\* What a call began on an OPEN breaker and what it may still begin is less than MaxRetries.
Late(c, p) ==
  /\ call[c].pc \in {"flight", "backoff"} => call[c].left >= 1
  /\ stack = "ResilientRpcClient" => /\ call[c].pc # "backoff" /\ overdue[p][c] = 0
                                     /\ call[c].pc = "flight" => call[c].left = 1
  /\ overdue[p][c] + Blind(c, p) <= MaxRetries - 1

\* The inductive invariant.
RpcInv == RpcTyped /\ (\A p \in Providers : Counts(p)) /\ \A c \in Slots, p \in Providers : Late(c, p)

\* What the breaker of the ResilientRpcClient does with its fields.
LEMMA CircuitBreakerSteps ==
  ASSUME NEW b \in BreakerType
  PROVE  /\ CB!New \in BreakerType /\ CB!New.state = "CLOSED"
         /\ CB!Asked(b) \in BreakerType
         /\ CB!Asked(b).state = "CLOSED" => CB!Asked(b) = b
         /\ CB!OnSuccess(b) \in BreakerType
         /\ CB!OnFailure(b) \in BreakerType
         /\ CB!OnFailure(b).state = "CLOSED" =>
              b.state = "CLOSED" /\ CB!OnFailure(b).failures = b.failures + 1
         /\ CB!Pass(b) \in BreakerType
         /\ CB!Pass(b).state = b.state /\ CB!Pass(b).failures = b.failures
<1> USE RpcAssumption DEF BreakerType
<1>1. CB!New \in BreakerType /\ CB!New.state = "CLOSED"
  BY DEF CB!New
<1>2. CB!Asked(b) \in BreakerType /\ (CB!Asked(b).state = "CLOSED" => CB!Asked(b) = b)
  BY DEF CB!Asked, CB!ToHalfOpen
<1>3. CB!OnSuccess(b) \in BreakerType
  <2>1. CASE b.state # "HALF_OPEN"
    BY <2>1 DEF CB!OnSuccess
  <2>2. CASE b.state = "HALF_OPEN" /\ b.successes + 1 >= SuccessThreshold
    BY <1>1, <2>2 DEF CB!OnSuccess
  <2>3. CASE b.state = "HALF_OPEN" /\ ~(b.successes + 1 >= SuccessThreshold)
    <3>1. CB!OnSuccess(b) = [b EXCEPT !.successes = @ + 1]
      BY <2>3 DEF CB!OnSuccess
    <3>2. b.successes + 1 \in 0..SuccessThreshold
      BY <2>3
    <3>3. QED
      BY <3>1, <3>2
  <2>4. QED
    BY <2>1, <2>2, <2>3
<1>4. /\ CB!OnFailure(b) \in BreakerType
      /\ CB!OnFailure(b).state = "CLOSED" =>
           b.state = "CLOSED" /\ CB!OnFailure(b).failures = b.failures + 1
  BY DEF CB!OnFailure, CB!ToOpen
<1>5. /\ CB!Pass(b) \in BreakerType
      /\ CB!Pass(b).state = b.state /\ CB!Pass(b).failures = b.failures
  BY DEF CB!Pass
<1>6. QED
  BY <1>1, <1>2, <1>3, <1>4, <1>5

\* What the breaker of the RpcFailoverClient does with them.
LEMMA RpcCircuitBreakerSteps ==
  ASSUME NEW b \in BreakerType
  PROVE  /\ RCB!maybeTransitionFromOpen(b) = CB!Asked(b)
         /\ RCB!OnSuccess(b) \in BreakerType
         /\ RCB!OnFailure(b) \in BreakerType
         /\ RCB!OnFailure(b).state = "CLOSED" =>
              b.state = "CLOSED" /\ RCB!OnFailure(b).failures = b.failures + 1
         /\ RCB!Attempts(b) \in 1..MaxRetries
<1> USE RpcAssumption DEF BreakerType
<1>1. RCB!maybeTransitionFromOpen(b) = CB!Asked(b)
  BY DEF RCB!maybeTransitionFromOpen, CB!Asked, CB!ToHalfOpen
<1>2. RCB!OnSuccess(b) \in BreakerType
  <2>1. CASE b.state # "HALF_OPEN"
    BY <2>1 DEF RCB!OnSuccess
  <2>2. CASE b.state = "HALF_OPEN" /\ b.successes + 1 >= SuccessThreshold
    BY <2>2 DEF RCB!OnSuccess, RCB!reset
  <2>3. CASE b.state = "HALF_OPEN" /\ ~(b.successes + 1 >= SuccessThreshold)
    <3>1. RCB!OnSuccess(b) = [b EXCEPT !.successes = @ + 1]
      BY <2>3 DEF RCB!OnSuccess
    <3>2. b.successes + 1 \in 0..SuccessThreshold
      BY <2>3
    <3>3. QED
      BY <3>1, <3>2
  <2>4. QED
    BY <2>1, <2>2, <2>3
<1>3. /\ RCB!OnFailure(b) \in BreakerType
      /\ RCB!OnFailure(b).state = "CLOSED" =>
           b.state = "CLOSED" /\ RCB!OnFailure(b).failures = b.failures + 1
  BY DEF RCB!OnFailure, RCB!trip
<1>4. RCB!Attempts(b) \in 1..MaxRetries
  BY DEF RCB!Attempts
<1>5. QED
  BY <1>1, <1>2, <1>3, <1>4

\* Nothing is counted and nothing under way at first.
LEMMA RpcStarts == RpcInit => RpcInv
<1> SUFFICES ASSUME RpcInit PROVE RpcInv
  OBVIOUS
<1>1. CB!New \in BreakerType /\ CB!New.failures = 0
  BY RpcAssumption DEF CB!New, BreakerType
<1>2. RpcTyped
  BY <1>1, RpcAssumption DEF RpcInit, RpcTyped, CallType, Idle, NoneLate, Providers
<1>3. ASSUME NEW p \in Providers
      PROVE  Counts(p)
  BY <1>1 DEF RpcInit, Counts
<1>4. ASSUME NEW c \in Slots, NEW p \in Providers
      PROVE  Late(c, p)
  BY RpcAssumption DEF RpcInit, Late, Blind, Idle, NoneLate
<1>5. QED
  BY <1>2, <1>3, <1>4 DEF RpcInv

\* The call that the caller gets an error for, or that asks the fallback.
LEMMA GoesOn ==
  ASSUME RpcTyped, NEW c \in Slots
  PROVE  NextProvider(c) \in CallType /\ NextProvider(c).pc \in {"idle", "ask"}
BY RpcAssumption DEF NextProvider, Idle, CallType, Providers

\* Every step changes one call at most, and counts at most on its provider.
LEMMA OverdueKept ==
  ASSUME RpcInv, NEW c \in Slots, UNCHANGED <<stack, overdue>>,
         \A d \in Slots : d # c => call'[d] = call[d],
         call'[c].pc \in {"idle", "ask"}
  PROVE  \A d \in Slots, p \in Providers : Late(d, p)'
<1> TAKE d \in Slots, p \in Providers
<1>1. Late(d, p) /\ overdue[p][d] \in Nat /\ call[d] \in CallType
  BY DEF RpcInv, RpcTyped
<1>2. CASE d # c
  BY <1>1, <1>2 DEF Late, Blind
<1>3. CASE d = c
  <2>1. overdue[p][d] + 0 <= MaxRetries - 1
    <3>1. Blind(d, p) \in Nat
      BY <1>1 DEF Blind, Late, CallType
    <3>2. QED
      BY <1>1, <3>1, RpcAssumption DEF Late
  <2>2. Blind(d, p)' = 0
    BY <1>3 DEF Blind
  <2>3. QED
    BY <1>1, <1>3, <2>1, <2>2 DEF Late
<1>4. QED
  BY <1>2, <1>3

\* Every step keeps the types.
LEMMA RpcTypes ==
  ASSUME RpcInv, RpcNext
  PROVE  RpcTyped'
<1> USE RpcAssumption DEF RpcTyped
<1>0. RpcTyped /\ \A c \in Slots : call[c] \in CallType /\ call[c].at \in Providers
  BY DEF RpcInv, CallType
<1>1. ASSUME NEW c \in Slots, Arrive(c)
      PROVE  RpcTyped'
  <2>1. [pc |-> "ask", at |-> "primary", left |-> 0] \in CallType
    BY DEF CallType, Providers
  <2>2. QED
    BY <1>0, <1>1, <2>1 DEF Arrive
<1>2. ASSUME NEW c \in Slots, Refuse(c) \/ Reverted(c)
      PROVE  RpcTyped'
  BY <1>0, <1>2, GoesOn DEF Refuse, Reverted
<1>3. ASSUME NEW c \in Slots, Begin(c)
      PROVE  RpcTyped'
  <2> DEFINE p == call[c].at
             b == IF stack = "ResilientRpcClient" THEN CB!Asked(breaker[p])
                  ELSE RCB!maybeTransitionFromOpen(breaker[p])
             n == IF stack = "ResilientRpcClient" THEN 1 ELSE RCB!Attempts(b)
  <2>1. b \in BreakerType
    BY <1>0, CircuitBreakerSteps, RpcCircuitBreakerSteps
  <2>2. n \in 0..MaxRetries
    BY <2>1, RpcCircuitBreakerSteps
  <2>3. /\ breaker' = [breaker EXCEPT ![p] = b]
        /\ call' = [call EXCEPT ![c] = [pc |-> "flight", at |-> p, left |-> n]]
        /\ overdue' = [overdue EXCEPT ![p][c] = @ + 1] \/ overdue' = [overdue EXCEPT ![p] = NoneLate]
        /\ UNCHANGED <<stack, lost>>
    BY <1>3 DEF Begin
  <2> HIDE DEF b, n
  <2>4. [pc |-> "flight", at |-> p, left |-> n] \in CallType
    BY <1>0, <2>2 DEF CallType
  <2>5. overdue' \in [Providers -> [Slots -> Nat]]
    <3>1. CASE overdue' = [overdue EXCEPT ![p][c] = @ + 1]
      BY <1>0, <3>1
    <3>2. CASE overdue' = [overdue EXCEPT ![p] = NoneLate]
      <4>1. NoneLate \in [Slots -> Nat]
        BY DEF NoneLate
      <4>2. QED
        BY <1>0, <3>2, <4>1
    <3>3. QED
      BY <2>3, <3>1, <3>2
  <2>6. QED
    BY <1>0, <2>1, <2>3, <2>4, <2>5
<1>4. ASSUME NEW c \in Slots, Answered(c)
      PROVE  RpcTyped'
  <2> DEFINE p == call[c].at
  <2>1. /\ breaker' \in [Providers -> BreakerType]
        /\ Idle \in CallType
    BY <1>0, <1>4, CircuitBreakerSteps, RpcCircuitBreakerSteps DEF Answered, Idle,
         CallType, Providers
  <2>2. QED
    BY <1>0, <1>4, <2>1 DEF Answered
<1>5. ASSUME NEW c \in Slots, Failed(c)
      PROVE  RpcTyped'
  <2>1. breaker' \in [Providers -> BreakerType]
    BY <1>0, <1>5, CircuitBreakerSteps, RpcCircuitBreakerSteps DEF Failed
  <2>2. lost' \in [Providers -> 0..FailureThreshold]
    BY <1>0, <1>5 DEF Failed
  <2>3. call' \in [Slots -> CallType]
    <3>1. CASE RetriesAgain(c)
      <4>1. [pc |-> "backoff", at |-> call[c].at, left |-> call[c].left - 1] \in CallType
        BY <1>0, <3>1 DEF RetriesAgain, CallType
      <4>2. QED
        BY <1>0, <1>5, <3>1, <4>1 DEF Failed
    <3>2. CASE ~RetriesAgain(c)
      BY <1>0, <1>5, <3>2, GoesOn DEF Failed
    <3>3. QED
      BY <3>1, <3>2
  <2>4. QED
    BY <1>0, <1>5, <2>1, <2>2, <2>3 DEF Failed
<1>6. ASSUME NEW c \in Slots, Retry(c)
      PROVE  RpcTyped'
  <2>1. [call[c] EXCEPT !.pc = "flight"] \in CallType
    BY <1>0 DEF CallType
  <2>2. call' \in [Slots -> CallType]
    BY <1>0, <1>6, <2>1 DEF Retry
  <2>3. overdue' \in [Providers -> [Slots -> Nat]]
    BY <1>0, <1>6 DEF Retry
  <2>4. QED
    BY <1>0, <1>6, <2>2, <2>3 DEF Retry
<1>7. CASE Tick
  BY <1>0, <1>7, CircuitBreakerSteps DEF Tick
<1>8. CASE ResetCircuits
  <2>1. CB!New \in BreakerType
    BY DEF CB!New, BreakerType
  <2>2. QED
    BY <1>0, <1>8, <2>1 DEF ResetCircuits, NoneLate
<1>9. ASSUME NEW p \in Providers, Outage(Endpoint(p))
      PROVE  RpcTyped'
  BY <1>0, <1>9 DEF Outage
<1>10. QED
  BY <1>1, <1>2, <1>3, <1>4, <1>5, <1>6, <1>7, <1>8, <1>9 DEF RpcNext, Step

\* Every failure since the last success is counted while a breaker is closed.
LEMMA CountsStep ==
  ASSUME RpcInv, RpcNext, NEW p \in Providers
  PROVE  Counts(p)'
<1> USE RpcAssumption
<1>0. /\ RpcTyped /\ Counts(p)
      /\ breaker[p] \in BreakerType /\ lost[p] \in 0..FailureThreshold
      /\ breaker[p].failures \in Nat
  BY DEF RpcInv, RpcTyped, BreakerType
<1>1. CASE UNCHANGED <<breaker, lost>>
  BY <1>0, <1>1 DEF Counts
<1>2. ASSUME NEW c \in Slots, Begin(c)
      PROVE  Counts(p)'
  <2>1. breaker'[p] = breaker[p] \/ breaker'[p] = CB!Asked(breaker[p])
    BY <1>0, <1>2, RpcCircuitBreakerSteps DEF Begin, RpcTyped
  <2>2. UNCHANGED lost
    BY <1>2 DEF Begin
  <2>3. QED
    BY <1>0, <2>1, <2>2, CircuitBreakerSteps DEF Counts
<1>3. ASSUME NEW c \in Slots, Answered(c)
      PROVE  Counts(p)'
  <2>1. RpcTyped'
    BY <1>3, RpcTypes DEF RpcNext, Step
  <2>2. breaker'[p].failures \in Nat
    BY <2>1 DEF RpcTyped, BreakerType
  <2>3. CASE p = call[c].at
    <3>1. lost'[p] = 0
      BY <1>0, <1>3, <2>3 DEF Answered, RpcTyped
    <3>2. QED
      BY <2>2, <3>1 DEF Counts
  <2>4. CASE p # call[c].at
    BY <1>0, <1>3, <2>4 DEF Answered, RpcTyped, Counts
  <2>5. QED
    BY <2>3, <2>4
<1>4. ASSUME NEW c \in Slots, Failed(c)
      PROVE  Counts(p)'
  <2>1. CASE p = call[c].at
    <3>1. /\ breaker'[p] = CB!OnFailure(breaker[p]) \/ breaker'[p] = RCB!OnFailure(breaker[p])
          /\ lost'[p] <= lost[p] + 1 /\ lost'[p] \in Nat
      BY <1>0, <1>4, <2>1 DEF Failed, RpcTyped
    <3>2. breaker'[p].state = "CLOSED" =>
            breaker[p].state = "CLOSED" /\ breaker'[p].failures = breaker[p].failures + 1
      BY <1>0, <3>1, CircuitBreakerSteps, RpcCircuitBreakerSteps
    <3>3. QED
      BY <1>0, <3>1, <3>2 DEF Counts
  <2>2. CASE p # call[c].at
    BY <1>0, <1>4, <2>2 DEF Failed, RpcTyped, Counts
  <2>3. QED
    BY <2>1, <2>2
<1>5. CASE Tick
  <2>1. breaker'[p] = CB!Pass(breaker[p]) /\ UNCHANGED lost
    BY <1>5 DEF Tick
  <2>2. QED
    BY <1>0, <2>1, CircuitBreakerSteps DEF Counts
<1>6. CASE ResetCircuits
  BY <1>6 DEF ResetCircuits, CB!New, Counts
<1>7. QED
  BY <1>1, <1>2, <1>3, <1>4, <1>5, <1>6
     DEF RpcNext, Step, Arrive, Refuse, Reverted, Retry, Outage

\* An overdue attempt is one that the call still had left.
LEMMA OverdueStep ==
  ASSUME RpcInv, RpcNext
  PROVE  \A d \in Slots, p \in Providers : Late(d, p)'
<1> USE RpcAssumption
<1>0. RpcTyped /\ \A c \in Slots : call[c] \in CallType /\ call[c].at \in Providers
  BY DEF RpcInv, RpcTyped, CallType
<1>1. CASE UNCHANGED <<stack, call, overdue>>
  BY <1>1 DEF RpcInv, Late, Blind
<1>2. ASSUME NEW c \in Slots, Arrive(c)
      PROVE  \A d \in Slots, p \in Providers : Late(d, p)'
  BY <1>0, <1>2, OverdueKept DEF Arrive, RpcTyped
<1>3. ASSUME NEW c \in Slots, Refuse(c) \/ Reverted(c)
      PROVE  \A d \in Slots, p \in Providers : Late(d, p)'
  BY <1>0, <1>3, GoesOn, OverdueKept DEF Refuse, Reverted, RpcTyped
<1>4. ASSUME NEW c \in Slots, Answered(c)
      PROVE  \A d \in Slots, p \in Providers : Late(d, p)'
  BY <1>0, <1>4, OverdueKept DEF Answered, Idle, RpcTyped
<1>5. ASSUME NEW c \in Slots, Begin(c)
      PROVE  \A d \in Slots, p \in Providers : Late(d, p)'
  <2> DEFINE q == call[c].at
  <2>1. /\ \A d \in Slots : d # c => call'[d] = call[d]
        /\ call'[c].pc = "flight" /\ call'[c].at = q
        /\ call'[c].left \in 1..MaxRetries /\ (stack = "ResilientRpcClient" => call'[c].left = 1)
        /\ call[c].pc = "ask" /\ UNCHANGED stack
    <3>1. RCB!Attempts(RCB!maybeTransitionFromOpen(breaker[q])) \in 1..MaxRetries
      BY <1>0, CircuitBreakerSteps, RpcCircuitBreakerSteps DEF RpcTyped
    <3>2. QED
      BY <1>0, <1>5, <3>1 DEF Begin, RpcTyped
  <2>2. overdue' = [overdue EXCEPT ![q] = NoneLate]
    <3>1. CB!Asked(breaker[q]).state # "OPEN"
      BY <1>5 DEF Begin, Refuses, CB!Blocks
    <3>2. RCB!maybeTransitionFromOpen(breaker[q]) = CB!Asked(breaker[q])
      BY <1>0, RpcCircuitBreakerSteps DEF RpcTyped
    <3>3. QED
      BY <1>5, <3>1, <3>2 DEF Begin
  <2>3. ASSUME NEW d \in Slots, NEW p \in Providers
        PROVE  Late(d, p)'
    <3>1. Late(d, p) /\ overdue[p][d] \in Nat /\ call[d] \in CallType
      BY <1>0 DEF RpcInv, RpcTyped
    <3>2. overdue'[p][d] = IF p = q THEN 0 ELSE overdue[p][d]
      BY <1>0, <2>2 DEF RpcTyped, NoneLate
    <3>3. CASE d # c
      <4>1. Blind(d, p)' = Blind(d, p) /\ Blind(d, p) <= MaxRetries - 1 /\ Blind(d, p) \in Nat
        BY <2>1, <3>1, <3>3 DEF Blind, Late, CallType
      <4>2. overdue'[p][d] + Blind(d, p)' <= MaxRetries - 1
        BY <3>1, <3>2, <4>1 DEF Late
      <4>3. QED
        BY <2>1, <3>1, <3>2, <3>3, <4>2 DEF Late
    <3>4. CASE d = c
      <4>1. Blind(c, p) = 0
        BY <2>1 DEF Blind
      <4>2. Blind(c, p)' = IF p = q THEN call'[c].left - 1 ELSE 0
        BY <2>1 DEF Blind
      <4>3. overdue'[p][c] + Blind(c, p)' <= MaxRetries - 1
        BY <2>1, <3>1, <3>2, <3>4, <4>1, <4>2 DEF Late
      <4>4. QED
        BY <2>1, <3>1, <3>2, <3>4, <4>3 DEF Late
    <3>5. QED
      BY <3>3, <3>4
  <2>4. QED
    BY <2>3
<1>6. ASSUME NEW c \in Slots, Failed(c)
      PROVE  \A d \in Slots, p \in Providers : Late(d, p)'
  <2>1. UNCHANGED <<stack, overdue>> /\ \A d \in Slots : d # c => call'[d] = call[d]
    BY <1>0, <1>6 DEF Failed, RpcTyped
  <2>2. CASE ~RetriesAgain(c)
    BY <1>0, <1>6, <2>1, <2>2, GoesOn, OverdueKept DEF Failed, RpcTyped
  <2>3. CASE RetriesAgain(c)
    <3>1. /\ call[c].pc = "flight" /\ call[c].left > 1 /\ stack = "RpcFailoverClient"
          /\ call'[c] = [pc |-> "backoff", at |-> call[c].at, left |-> call[c].left - 1]
      BY <1>0, <1>6, <2>3 DEF Failed, RetriesAgain, RpcTyped
    <3>2. ASSUME NEW d \in Slots, NEW p \in Providers
          PROVE  Late(d, p)'
      <4>1. Late(d, p) /\ overdue[p][d] \in Nat /\ call[d] \in CallType
        BY <1>0 DEF RpcInv, RpcTyped
      <4>2. CASE d # c
        BY <2>1, <4>1, <4>2 DEF Late, Blind
      <4>3. CASE d = c
        <5>1. Blind(c, p)' = Blind(c, p)
          BY <3>1 DEF Blind
        <5>2. QED
          BY <2>1, <3>1, <4>1, <4>3, <5>1 DEF Late, CallType
      <4>4. QED
        BY <4>2, <4>3
    <3>3. QED
      BY <3>2
  <2>4. QED
    BY <2>2, <2>3
<1>7. ASSUME NEW c \in Slots, Retry(c)
      PROVE  \A d \in Slots, p \in Providers : Late(d, p)'
  <2> DEFINE q == call[c].at
  <2>1. /\ \A d \in Slots : d # c => call'[d] = call[d]
        /\ call[c].pc = "backoff" /\ call'[c].pc = "flight" /\ call'[c].at = q
        /\ call'[c].left = call[c].left /\ UNCHANGED stack
    BY <1>0, <1>7 DEF Retry, RpcTyped, CallType
  <2>2. overdue' = [overdue EXCEPT ![q][c] = @ + 1] \/ overdue' = overdue
    BY <1>7 DEF Retry
  <2>3. ASSUME NEW d \in Slots, NEW p \in Providers
        PROVE  Late(d, p)'
    <3>1. Late(d, p) /\ overdue[p][d] \in Nat /\ call[d] \in CallType
      BY <1>0 DEF RpcInv, RpcTyped
    <3>2. ~(p = q /\ d = c) => overdue'[p][d] = overdue[p][d]
      BY <1>0, <2>2 DEF RpcTyped
    <3>3. CASE d # c
      BY <2>1, <3>1, <3>2, <3>3 DEF Late, Blind
    <3>4. CASE d = c
      <4>1. stack # "ResilientRpcClient"
        BY <2>1, <3>1, <3>4 DEF Late
      <4>2. overdue'[q][c] <= overdue[q][c] + 1 /\ overdue'[q][c] \in Nat
        BY <1>0, <2>2 DEF RpcTyped
      <4>3. /\ Blind(c, p) = (IF p = q THEN call[c].left ELSE 0)
            /\ Blind(c, p)' = (IF p = q THEN call[c].left - 1 ELSE 0)
        BY <2>1 DEF Blind
      <4>4. overdue'[p][c] + Blind(c, p)' <= MaxRetries - 1
        BY <3>1, <3>2, <3>4, <4>2, <4>3 DEF Late, CallType
      <4>5. QED
        BY <2>1, <3>1, <3>4, <4>1, <4>4 DEF Late
    <3>5. QED
      BY <3>3, <3>4
  <2>4. QED
    BY <2>3
<1>8. CASE ResetCircuits
  <2>1. ASSUME NEW d \in Slots, NEW p \in Providers
        PROVE  Late(d, p)'
    <3>1. Late(d, p) /\ overdue[p][d] \in Nat /\ call[d] \in CallType
      BY <1>0 DEF RpcInv, RpcTyped
    <3>2. overdue'[p][d] = 0 /\ UNCHANGED <<stack, call>>
      BY <1>8 DEF ResetCircuits, NoneLate
    <3>3. Blind(d, p)' = Blind(d, p) /\ Blind(d, p) \in Nat
      BY <3>1, <3>2 DEF Blind, CallType, Late
    <3>4. QED
      BY <3>1, <3>2, <3>3 DEF Late
  <2>2. QED
    BY <2>1
<1>9. QED
  BY <1>1, <1>2, <1>3, <1>4, <1>5, <1>6, <1>7, <1>8 DEF RpcNext, Step, Tick, Outage

\* The invariant holds in every state.
LEMMA RpcHolds == RpcSpec => []RpcInv
<1>1. RpcInv /\ [RpcNext]_rpcVars => RpcInv'
  <2> SUFFICES ASSUME RpcInv, [RpcNext]_rpcVars PROVE RpcInv'
    OBVIOUS
  <2>1. CASE RpcNext
    BY <2>1, RpcTypes, CountsStep, OverdueStep DEF RpcInv
  <2>2. CASE UNCHANGED rpcVars
    BY <2>2 DEF rpcVars, RpcInv, RpcTyped, Counts, Late, Blind
  <2>3. QED
    BY <2>1, <2>2
<1>2. QED
  BY <1>1, RpcStarts, PTL DEF RpcSpec

\* FailureThreshold failures of a provider in a row leave its breaker OPEN or
\* HALF_OPEN, whichever calls saw them (circuit-breaker.ts, onFailure;
\* rpc-circuit-breaker.ts, onFailure).
THEOREM FailuresTrip == RpcSpec => []OutageTrips
<1>1. RpcInv => OutageTrips
  <2> SUFFICES ASSUME RpcInv, NEW p \in Providers, lost[p] = FailureThreshold
               PROVE  breaker[p].state /= "CLOSED"
    BY DEF OutageTrips
  <2>1. Counts(p) /\ breaker[p].failures \in 0..(FailureThreshold - 1)
    BY DEF RpcInv, RpcTyped, BreakerType
  <2>2. QED
    BY <2>1, RpcAssumption DEF Counts
<1>2. QED
  BY <1>1, RpcHolds, PTL

\* After a breaker opened no call reaches the provider through it again but the
\* retries of the calls that were under way, fewer than MaxRetries each
\* (rpc-circuit-breaker.ts, call).
THEOREM LateAttempts == RpcSpec => []LateAttemptsBounded
<1>1. RpcInv => LateAttemptsBounded
  <2> SUFFICES ASSUME RpcInv, NEW p \in Providers, NEW c \in Slots
               PROVE  overdue[p][c] <= IF stack = "ResilientRpcClient" THEN 0 ELSE MaxRetries - 1
    BY DEF LateAttemptsBounded
  <2>1. Late(c, p) /\ overdue[p][c] \in Nat /\ call[c] \in CallType
    BY DEF RpcInv, RpcTyped
  <2>2. Blind(c, p) \in Nat
    BY <2>1 DEF Blind, Late, CallType
  <2>3. QED
    BY <2>1, <2>2, RpcAssumption DEF Late
<1>2. QED
  BY <1>1, RpcHolds, PTL

===============================================================================
