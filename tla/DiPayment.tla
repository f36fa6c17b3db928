----------------------------- MODULE DiPayment -----------------------------
(***************************************************************************)
(* A payment from its proof to its receipt, as the modules with injected   *)
(* clients implement it: verifyPayment writes the payment_requests and     *)
(* payment_verifications rows that settlePayment reads.  The two share     *)
(* PostgreSQL and Redis and nothing else.  What is submitted on chain is   *)
(* the authorization of the request, whose nonce the token contract knows  *)
(* as 32 bytes, however the client spelled them.                           *)
(***************************************************************************)
EXTENDS SettlePayment

CONSTANTS Nonces, Lower, Signatures, Genuine

ASSUME LowerAssumption == Lower \in [Nonces -> Nonces]

VARIABLES payload, at, nonceKey, sigKey, stored, told

Verify == INSTANCE VerifyPayment

verifyVars == <<payload, at, nonceKey, sigKey, stored, told>>

DiInit == Init /\ Verify!InitAllBut

\* Faulty variant: the request is settled whether it was verified or not.
SettleAny(c, r) == LoadRequest(c, r)

\* settlePayment finds the request with its accepted verification.
Settle(c, r) == r \in stored /\ LoadRequest(c, r)

\* Two requests carry one authorization, in whatever spelling of its nonce.
SameAuthorization(r, s) == Lower[Verify!Nonce(r)] = Lower[Verify!Nonce(s)]

\* A transaction is mined; the token contract has one authorization succeed
\* once, also when two requests carry it.
TokenMines(c, i) ==
  /\ ChainMines(c, i)
  /\ tx'[c][i] = "success" =>
       \A s \in Requests : SameAuthorization(req[c], s) => ~Transferred(s)

SettleNext ==
  \/ \E c \in Calls : \/ \E r \in Requests : Settle(c, r)
                      \/ VerificationRequired(c)
                      \/ Handler(c)
                      \/ FaultStep(c)
                      \/ \E i \in Attempts : TokenMines(c, i)
  \/ \E r \in Requests : LockExpires(r)

VerifyNext == Verify!Next /\ UNCHANGED <<chainVars, pc, lock, row, receipt, answer, overran>>

DiNext == (SettleNext /\ UNCHANGED verifyVars) \/ VerifyNext

DiSpec == DiInit /\ [][DiNext]_<<vars, verifyVars>>

-----------------------------------------------------------------------------
(* Properties. *)

\* One type invariant for both halves.
DiTypeOK == TypeOK /\ Verify!TypeOK

TakenUp(r) == \E c \in Calls : req[c] = r

\* "duplicate_payment": what settlePayment takes up was signed by the buyer,
\* and no two requests it takes up carry one spelling of a nonce or one
\* signature, through every crash, storage error and loss of keys.  Two
\* spellings of one nonce, which only the Redis key tells to be one, are both
\* taken up after a fault at most, and then only one of them gets a receipt.
OneRequestPaid ==
  \A r, s \in Requests : TakenUp(r) /\ TakenUp(s) =>
    /\ payload[r] \in Genuine
    /\ r # s => /\ ~Verify!Conflict(r, s)
                /\ SameAuthorization(r, s) =>
                     faults > 0 /\ (receipt[r] = NoCall \/ receipt[s] = NoCall)

\* The unique keys and the Redis keys keep the two stores in step; stated and
\* explained in VerifyPayment.
KeysFollowRows == Verify!KeysFollowRows
=============================================================================
