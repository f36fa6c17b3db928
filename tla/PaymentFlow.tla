---------------------------- MODULE PaymentFlow ----------------------------
(***************************************************************************)
(* One payment proof on its way through the client libraries and the       *)
(* routes POST /verify and POST /settle: X402Client and its middleware     *)
(* (src/sdk/src/index.ts), FacilitatorClient (src/sdk/src/client.ts) and   *)
(* the FacilitatorClient inside the server's tree                          *)
(* (src/src/sdk/client/facilitator-client.ts).  The same proof may be      *)
(* presented several times, and clients time out and retry while the       *)
(* server goes on with the call they gave up.                              *)
(*                                                                         *)
(* POST /settle is SettleService itself: this module drives its calls, and *)
(* every step here is a step of it or leaves it alone.  POST /verify is    *)
(* VerifyService seen by one genuine proof in one spelling: its nonce key, *)
(* the accepted row, and the awaits that can reject around them.           *)
(***************************************************************************)
EXTENDS SettleService

CONSTANTS
  Presenters, \* client executions that present the proof
  Retries,    \* bound: how often a client repeats a request (2 in the code)
  MaxLosses   \* bound: timeouts, lost answers, and faults of POST /verify

\* middleware: X402Client.expressMiddleware.  verifyOnly: the same with
\* autoSettle: false.  app: an application that uses X402Client's calls one by
\* one.  client, agent: pay() of the two FacilitatorClients.
Kinds == {"middleware", "verifyOnly", "app", "client", "agent"}

\* A call: the attempt try of p's POST /verify, or of its POST /settle.
CallIds == [p : Presenters, try : 1..(Retries + 1)]

\* Every POST /verify makes a requestId of its own, so it names the request.
ASSUME CallsAssumption == Calls = CallIds /\ Requests = CallIds
ASSUME RetriesAssumption == Retries \in Nat /\ MaxLosses \in Nat

VARIABLES
  kind,       \* kind[p]: the library behind p
  step,       \* step[p]: where p's code stands
  try,        \* try[p]: attempt of the request p waits for, or waited for last
  verified,   \* verified[k]: what became of POST /verify call k
  posted,     \* posted[c]: what became of the request body of POST /settle c
  nonce,      \* the verify call that holds the proof's nonce key
  stored,     \* the verify call whose verification is stored as accepted
  cut,        \* history: presenters that lost or gave up an answer
  losses      \* history: timeouts, lost answers, faults of POST /verify so far

flowVars == <<kind, step, try, verified, posted, nonce, stored, cut, losses>>
allVars == <<vars, flowVars>>

\* served: the middleware called next(), the application got its receipt.
\* refused: HTTP 402 or a rejected promise with the server's answer.
\* threw: a network error, a timeout, a body that is no answer.
Ended == {"served", "refused", "threw"}

\* error: a body with the code internal_error.
VerifyAnswers == {"accepted", "duplicate_payment", "rejected", "error"}
SettleAnswers ==
  {"confirmed", "failed", "pending", "not_found", "error", "invalid_payload"}

\* One type invariant for the whole state that SettleService has not.
FlowTypeOK ==
  /\ kind \in [Presenters -> Kinds]
  /\ step \in [Presenters -> {"idle", "verify", "settle"} \cup Ended]
  /\ try \in [Presenters -> 1..(Retries + 1)]
  /\ verified \in [CallIds -> {"unsent", "sent", "claimed", "dead"} \cup VerifyAnswers]
  /\ posted \in [CallIds -> {"unsent", "sent", "invalid"}]
  /\ nonce \in CallIds \cup {NoCall}
  /\ stored \in CallIds \cup {NoCall}
  /\ cut \subseteq Presenters
  /\ losses \in 0..MaxLosses

FlowInit ==
  /\ Init
  /\ kind \in [Presenters -> Kinds]
  /\ step = [p \in Presenters |-> "idle"]
  /\ try = [p \in Presenters |-> 1]
  /\ verified = [k \in CallIds |-> "unsent"]
  /\ posted = [k \in CallIds |-> "unsent"]
  /\ nonce = NoCall
  /\ stored = NoCall
  /\ cut = {}
  /\ losses = 0

-----------------------------------------------------------------------------
(* Helpers. *)

Call(p, i) == [p |-> p, try |-> i]
Current(p) == Call(p, try[p])
Waiting(p) == step[p] \in {"verify", "settle"}

\* What the server says to the call p waits for, or waited for last.
Reply(p) ==
  CASE posted[Current(p)] = "unsent" -> verified[Current(p)]
    [] posted[Current(p)] = "invalid" -> "invalid_payload"
    [] OTHER -> answer[Current(p)].kind

\* The instance that worked for p died.
Dead(p) == verified[Current(p)] = "dead" \/ pc[Current(p)] = "crashed"

Loss ==
  /\ losses < MaxLosses
  /\ losses' = losses + 1

\* The promise settles and p's code goes on.
End(p, outcome) ==
  /\ step' = [step EXCEPT ![p] = outcome]
  /\ UNCHANGED <<try, verified, posted>>

\* fetch is called for attempt i of POST /verify.
SendVerify(p, i) ==
  /\ step' = [step EXCEPT ![p] = "verify"]
  /\ try' = [try EXCEPT ![p] = i]
  /\ verified' = [verified EXCEPT ![Call(p, i)] = "sent"]
  /\ UNCHANGED posted

\* fetch is called for attempt i of POST /settle.
SendSettle(p, i) ==
  /\ step' = [step EXCEPT ![p] = "settle"]
  /\ try' = [try EXCEPT ![p] = i]
  /\ posted' = [posted EXCEPT ![Call(p, i)] = "sent"]
  /\ UNCHANGED verified

\* The FacilitatorClients' request calls itself with the next attempt.
Repeat(p) ==
  \/ step[p] = "verify" /\ SendVerify(p, try[p] + 1)
  \/ step[p] = "settle" /\ SendSettle(p, try[p] + 1)

-----------------------------------------------------------------------------
(* The clients. *)

\* verifyPayment, verify.
Present(p) ==
  /\ step[p] = "idle"
  /\ SendVerify(p, 1)
  /\ UNCHANGED <<vars, kind, nonce, stored, cut, losses>>

\* Both FacilitatorClients repeat a request; X402Client never does.
MayRetry(p) == kind[p] \in {"client", "agent"} /\ try[p] <= Retries

\* isRetryable looks at error.code.  The FacilitatorClient of src/src/sdk reads
\* the code from the top of the body, where no route puts it.
Retryable(p) == kind[p] = "client" /\ Reply(p) \in {"error", "pending"}

\* The middleware and an application go on with settlePayment, pay with settle.
Accepted(p) ==
  /\ step[p] = "verify" /\ Reply(p) = "accepted"
  /\ kind[p] # "verifyOnly"
  /\ SendSettle(p, 1)
  /\ UNCHANGED <<vars, kind, nonce, stored, cut, losses>>

\* autoSettle: false: next() is called for an accepted verification.
ServedUnsettled(p) ==
  /\ step[p] = "verify" /\ Reply(p) = "accepted"
  /\ kind[p] = "verifyOnly"
  /\ End(p, "served")
  /\ UNCHANGED <<vars, kind, nonce, stored, cut, losses>>

\* Faulty variant: every settlement result lets the request through.
ServedByAnyResult(p) ==
  /\ step[p] = "settle" /\ Reply(p) \in SettleAnswers
  /\ End(p, "served")
  /\ UNCHANGED <<vars, kind, nonce, stored, cut, losses>>

Served(p) ==
  /\ step[p] = "settle" /\ Reply(p) = "confirmed"
  /\ End(p, "served")
  /\ UNCHANGED <<vars, kind, nonce, stored, cut, losses>>

\* An answer that says no: repeated, or final.
Refused(p) ==
  /\ Waiting(p)
  /\ Reply(p) \in (VerifyAnswers \cup SettleAnswers) \ {"accepted", "confirmed"}
  /\ IF Retryable(p) /\ MayRetry(p) THEN Repeat(p) ELSE End(p, "refused")
  /\ UNCHANGED <<vars, kind, nonce, stored, cut, losses>>

\* An application calls settlePayment again: "Idempotent - safe to call
\* multiple times with the same requestId".
SettleAgain(p) ==
  /\ kind[p] = "app" /\ step[p] \in {"refused", "threw"}
  /\ posted[Current(p)] # "unsent"
  /\ try[p] <= Retries
  /\ SendSettle(p, try[p] + 1)
  /\ UNCHANGED <<vars, kind, nonce, stored, cut, losses>>

\* fetch rejects though the request may have arrived: the FacilitatorClients
\* send it again.  Of an answer that breaks off in its body the one in src/src
\* makes invalid_response.
NetworkError(p) ==
  /\ Waiting(p)
  /\ Loss
  /\ cut' = cut \cup {p}
  /\ \/ MayRetry(p) /\ Repeat(p)
     \/ (kind[p] = "agent" \/ ~MayRetry(p)) /\ End(p, "threw")
  /\ UNCHANGED <<vars, kind, nonce, stored>>

\* The AbortController fires before the answer is in: nobody retries.
Timeout(p) ==
  /\ Waiting(p)
  /\ Reply(p) \notin VerifyAnswers \cup SettleAnswers
  /\ Loss \/ (Dead(p) /\ UNCHANGED losses)
  /\ cut' = cut \cup {p}
  /\ End(p, "threw")
  /\ UNCHANGED <<vars, kind, nonce, stored>>

-----------------------------------------------------------------------------
(* POST /verify. *)

VerifyAnswer(k, a) == verified' = [verified EXCEPT ![k] = a]

\* Network, asset, expiry, recipient, amount.
VerifyRejects(k) ==
  /\ verified[k] = "sent"
  /\ VerifyAnswer(k, "rejected")
  /\ UNCHANGED <<vars, kind, step, try, posted, nonce, stored, cut, losses>>

\* SET NX of the nonce key.
VerifyClaims(k) ==
  /\ verified[k] = "sent"
  /\ \/ nonce = NoCall /\ nonce' = k /\ VerifyAnswer(k, "claimed")
     \/ nonce # NoCall /\ UNCHANGED nonce /\ VerifyAnswer(k, "duplicate_payment")
  /\ UNCHANGED <<vars, kind, step, try, posted, stored, cut, losses>>

\* The SET rejects, its effect may have taken place: runVerify throws.
ClaimThrows(k) ==
  /\ verified[k] = "sent"
  /\ Loss
  /\ nonce' \in {nonce, IF nonce = NoCall THEN k ELSE nonce}
  /\ VerifyAnswer(k, "error")
  /\ UNCHANGED <<vars, kind, step, try, posted, stored, cut>>

\* checkReplayPostgres finds the accepted row: the claim is released.
VerifyFindsStored(k) ==
  /\ verified[k] = "claimed" /\ stored # NoCall
  /\ nonce' = NoCall
  /\ VerifyAnswer(k, "duplicate_payment")
  /\ UNCHANGED <<vars, kind, step, try, posted, stored, cut, losses>>

\* The signature is good and the accepted row is stored.
VerifyAccepts(k) ==
  /\ verified[k] = "claimed" /\ stored = NoCall
  /\ stored' = k
  /\ VerifyAnswer(k, "accepted")
  /\ UNCHANGED <<vars, kind, step, try, posted, nonce, cut, losses>>

\* Writing the row rejects, or its reply is lost: the nonce is released.
VerifyUnsaved(k) ==
  /\ verified[k] = "claimed" /\ stored = NoCall
  /\ Loss
  /\ stored' \in {NoCall, k}
  /\ nonce' = NoCall
  /\ VerifyAnswer(k, "error")
  /\ UNCHANGED <<vars, kind, step, try, posted, cut>>

\* runVerify throws under the claim: checkReplayPostgres rejects, and nothing
\* releases the nonce, or the DEL does after a row that was found or not
\* written, and may have taken effect or not.
VerifyThrows(k) ==
  /\ verified[k] = "claimed"
  /\ Loss
  /\ nonce' \in {nonce, NoCall}
  /\ stored' \in {stored, IF stored = NoCall THEN k ELSE stored}
  /\ VerifyAnswer(k, "error")
  /\ UNCHANGED <<vars, kind, step, try, posted, cut>>

\* The instance dies: the nonce key stays, no answer comes.
VerifyDies(k) ==
  /\ verified[k] \in {"sent", "claimed"}
  /\ Loss
  /\ VerifyAnswer(k, "dead")
  /\ UNCHANGED <<vars, kind, step, try, posted, nonce, stored, cut>>

-----------------------------------------------------------------------------
(* POST /settle. *)

\* pay() of both FacilitatorClients sends { requestId } alone; the body needs a
\* verificationId too.
SettleRefusesBody(c) ==
  /\ posted[c] = "sent" /\ kind[c.p] \in {"client", "agent"}
  /\ posted' = [posted EXCEPT ![c] = "invalid"]
  /\ UNCHANGED <<vars, kind, step, try, verified, nonce, stored, cut, losses>>

\* runSettle starts for the requestId and verificationId of p's accepted answer.
SettleArrives(c) ==
  /\ posted[c] = "sent" /\ kind[c.p] \in {"middleware", "app"}
  /\ \E r \in Requests :
       /\ r.p = c.p /\ verified[r] = "accepted"
       /\ FindVerification(c, r)
  /\ UNCHANGED flowVars

\* runSettle, the chain and the lock's TTL go on as in SettleService.
SettleGoesOn ==
  /\ \/ \E c \in Calls : \/ Handler(c)
                         \/ FaultStep(c)
                         \/ \E i \in Attempts : ChainMines(c, i)
     \/ \E r \in Requests : LockExpires(r)
  /\ UNCHANGED flowVars

ClientStep(p) ==
  \/ Present(p) \/ Accepted(p) \/ ServedUnsettled(p) \/ Served(p) \/ Refused(p)
  \/ SettleAgain(p) \/ NetworkError(p) \/ Timeout(p)

VerifyStep(k) ==
  \/ VerifyRejects(k) \/ VerifyClaims(k) \/ ClaimThrows(k)
  \/ VerifyFindsStored(k) \/ VerifyAccepts(k) \/ VerifyUnsaved(k)
  \/ VerifyThrows(k) \/ VerifyDies(k)

FlowNext ==
  \/ \E p \in Presenters : ClientStep(p)
  \/ \E k \in CallIds : VerifyStep(k) \/ SettleRefusesBody(k) \/ SettleArrives(k)
  \/ SettleGoesOn

FlowSpec == FlowInit /\ [][FlowNext]_allVars

-----------------------------------------------------------------------------
(* Properties. *)

\* The resource is handed out at most once per proof, to the presenter whose
\* own verification was accepted, however often the proof is presented and
\* retried; and, unless the seller turned autoSettle off, only when a receipt
\* exists and the buyer's funds have moved.
ServedOnce ==
  \A p \in Presenters : step[p] = "served" =>
    /\ \A q \in Presenters : step[q] = "served" => q = p
    /\ stored # NoCall /\ stored.p = p
    /\ kind[p] # "verifyOnly" => receipt[stored] # NoCall /\ Transferred(stored)

\* A buyer whose funds moved is refused, when no fault struck POST /settle, for
\* one of three reasons only: another of its calls is still at work (409), the
\* wait for the transaction was given up and it was mined all the same, or the
\* repeated call raced into a second settlement and one of the two failed.
PaidIsServed ==
  faults = 0 =>
    \A p \in Presenters :
      /\ step[p] = "refused"
      /\ stored # NoCall /\ stored.p = p /\ Transferred(stored)
      => \/ Reply(p) = "pending"
         \/ \E c \in Rows(stored) :
              row[c] = "failed" /\ (leg[c] = "threw" \/ Rows(stored) # {c})

\* "An internal error occurred. Please retry." (verify.route.ts:133): a client
\* that does is not called a duplicate of itself, when it lost no answer, nobody
\* else presents the proof and nothing was stored.
RetryAfterError ==
  \A p \in Presenters, i \in 1..Retries :
    /\ verified[Call(p, i)] = "error"
    /\ p \notin cut /\ stored = NoCall
    /\ \A q \in Presenters : q # p => step[q] = "idle"
    => verified[Call(p, i + 1)] # "duplicate_payment"
=============================================================================
