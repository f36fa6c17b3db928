--------------------------- MODULE VerifyPayment ---------------------------
(***************************************************************************)
(* verifyPayment (src/src/application/verify-payment.ts) and its Redis     *)
(* helpers (src/src/infrastructure/anti-replay.ts): the verification that  *)
(* goes with settlePayment.  It differs from runVerify where it matters:   *)
(* the two keys are claimed one after the other, the second only when the  *)
(* first was won; PostgreSQL is not asked before the insert; a rejected    *)
(* signature leaves no row; both rows are created in one transaction.      *)
(*                                                                         *)
(* A nonce is the hex string the client wrote: the Redis key holds it in   *)
(* lower case, the UNIQUE column as it was spelled.  A signature is lower- *)
(* cased for both (computeSignatureHash): signatures here are bytes.       *)
(*                                                                         *)
(* An execution is named by the requestId it generates.  A key holds '1';  *)
(* the model also keeps who set it, for the properties only.               *)
(***************************************************************************)
EXTENDS Naturals

CONSTANTS
  Requests,   \* executions of verifyPayment; the requestId of each
  Nonces,     \* spellings of authorization nonces
  Lower,      \* Lower[n]: the spelling n in lower case
  Signatures,
  Genuine,    \* payloads whose signature is the buyer's over the nonce
  NoRequest,  \* a key that is not set
  MaxFaults   \* bound: crashes, storage errors and lost keys in one behaviour

VARIABLES
  payload,    \* payload[v]: the nonce and signature v carries
  at,         \* at[v]: the await v stands at
  nonceKey,   \* nonceKey[n]: the key nonce:<n>, n in lower case, and who set it
  sigKey,     \* sigKey[s]: the key sig:<hash of s> and who set it
  stored,     \* requests with their payment_requests and accepted
              \* payment_verifications rows
  told,       \* told[v]: what v returns or throws, final once at[v] = "done"
  faults      \* history: crashes, storage errors and lost keys so far

vars == <<payload, at, nonceKey, sigKey, stored, told, faults>>

Payloads == [nonce : Nonces, sig : Signatures]
RedisSteps == {"nonce", "sig", "undo", "freeNonce", "freeSig"}
Steps == RedisSteps \cup {"idle", "verify", "persist", "done", "crashed"}

\* refused: a check before the claims.  threw: a Redis error.
Answers == {"none", "accepted", "refused", "duplicate_payment",
            "invalid_signature", "internal_error", "threw"}

\* One type invariant for the whole state.
TypeOK ==
  /\ payload \in [Requests -> Payloads]
  /\ at \in [Requests -> Steps]
  /\ nonceKey \in [Nonces -> Requests \cup {NoRequest}]
  /\ sigKey \in [Signatures -> Requests \cup {NoRequest}]
  /\ stored \subseteq Requests
  /\ told \in [Requests -> Answers]
  /\ faults \in 0..MaxFaults

\* A payload is whatever the client sent.
InitAllBut ==
  /\ payload \in [Requests -> Payloads]
  /\ at = [v \in Requests |-> "idle"]
  /\ nonceKey = [n \in Nonces |-> NoRequest]
  /\ sigKey = [s \in Signatures |-> NoRequest]
  /\ stored = {}
  /\ told = [v \in Requests |-> "none"]

Init == InitAllBut /\ faults = 0

-----------------------------------------------------------------------------
(* Helpers. *)

Nonce(v) == payload[v].nonce
Sig(v) == payload[v].sig
Conflict(v, w) == Nonce(v) = Nonce(w) \/ Sig(v) = Sig(w)

\* Faulty variant: the key is the nonce as it was spelled.
KeyAsSpelled(v) == Nonce(v)

\* The Redis key of v's nonce.
KeyOf(v) == Lower[Nonce(v)]

Goto(v, step) == at' = [at EXCEPT ![v] = step]
Tell(v, answer) == told' = [told EXCEPT ![v] = answer]
Finish(v, answer) == Goto(v, "done") /\ Tell(v, answer)

\* Both keys are deleted, one after the other, before the answer is thrown.
Rollback(v, answer) == Goto(v, "freeNonce") /\ Tell(v, answer)

Fault ==
  /\ faults < MaxFaults
  /\ faults' = faults + 1

\* The columns nonce and signatureHash of payment_verifications are UNIQUE;
\* nonce holds auth.nonce as the client spelled it.
Unique(v) == \A w \in stored : ~Conflict(v, w)

-----------------------------------------------------------------------------
(* The function. *)

\* Parsing, network, asset, expiry, recipient and amount pass.
Arrive(v) ==
  /\ at[v] = "idle"
  /\ Goto(v, "nonce")
  /\ UNCHANGED <<payload, nonceKey, sigKey, stored, told, faults>>

\* One of them does not.
Refuse(v) ==
  /\ at[v] = "idle"
  /\ Finish(v, "refused")
  /\ UNCHANGED <<payload, nonceKey, sigKey, stored, faults>>

\* SET nonce:<n in lower case> 1 EX 604800 NX.
ClaimNonce(v) ==
  /\ at[v] = "nonce"
  /\ \/ /\ nonceKey[KeyOf(v)] = NoRequest
        /\ nonceKey' = [nonceKey EXCEPT ![KeyOf(v)] = v]
        /\ Goto(v, "sig")
        /\ UNCHANGED told
     \/ /\ nonceKey[KeyOf(v)] # NoRequest
        /\ Finish(v, "duplicate_payment")
        /\ UNCHANGED nonceKey
  /\ UNCHANGED <<payload, sigKey, stored, faults>>

\* SET sig:<s> 1 EX 604800 NX, reached only with the nonce won.
ClaimSignature(v) ==
  /\ at[v] = "sig"
  /\ \/ /\ sigKey[Sig(v)] = NoRequest
        /\ sigKey' = [sigKey EXCEPT ![Sig(v)] = v]
        /\ Goto(v, "verify")
        /\ UNCHANGED told
     \/ /\ sigKey[Sig(v)] # NoRequest
        /\ Goto(v, "undo")
        /\ Tell(v, "duplicate_payment")
        /\ UNCHANGED sigKey
  /\ UNCHANGED <<payload, nonceKey, stored, faults>>

\* Faulty variant: the recovered signer is not compared with the buyer.
VerifyNothing(v) ==
  /\ at[v] = "verify"
  /\ Goto(v, "persist")
  /\ UNCHANGED <<payload, nonceKey, sigKey, stored, told, faults>>

VerifySignature(v) ==
  /\ at[v] = "verify"
  /\ \/ payload[v] \in Genuine /\ Goto(v, "persist") /\ UNCHANGED told
     \/ payload[v] \notin Genuine /\ Rollback(v, "invalid_signature")
  /\ UNCHANGED <<payload, nonceKey, sigKey, stored, faults>>

\* The $transaction creates both rows, or violates UNIQUE.
Persist(v) ==
  /\ at[v] = "persist"
  /\ \/ Unique(v) /\ stored' = stored \cup {v} /\ Finish(v, "accepted")
     \/ ~Unique(v) /\ Rollback(v, "internal_error") /\ UNCHANGED stored
  /\ UNCHANGED <<payload, nonceKey, sigKey, faults>>

\* DEL nonce:<n>, alone after a taken signature, else with DEL sig:<s> to come.
ReleaseNonce(v) ==
  /\ at[v] \in {"undo", "freeNonce"}
  /\ nonceKey' = [nonceKey EXCEPT ![KeyOf(v)] = NoRequest]
  /\ Goto(v, IF at[v] = "undo" THEN "done" ELSE "freeSig")
  /\ UNCHANGED <<payload, sigKey, stored, told, faults>>

\* Faulty variant: the signature's key is forgotten.
ReleaseNothing(v) ==
  /\ at[v] = "freeSig"
  /\ Goto(v, "done")
  /\ UNCHANGED <<payload, nonceKey, sigKey, stored, told, faults>>

ReleaseSignature(v) ==
  /\ at[v] = "freeSig"
  /\ sigKey' = [sigKey EXCEPT ![Sig(v)] = NoRequest]
  /\ Goto(v, "done")
  /\ UNCHANGED <<payload, nonceKey, stored, told, faults>>

-----------------------------------------------------------------------------
(* Faults. *)

\* The transaction rejects, rolled back or with its reply lost: the catch
\* block releases the keys in both cases.
PersistFails(v) ==
  /\ at[v] = "persist"
  /\ Fault
  /\ \/ UNCHANGED stored
     \/ Unique(v) /\ stored' = stored \cup {v}
  /\ Rollback(v, "internal_error")
  /\ UNCHANGED <<payload, nonceKey, sigKey>>

\* Redis reports an error for a command it did not execute; its error is what
\* the caller gets and the commands still to come are not sent.
RedisThrows(v) ==
  /\ at[v] \in RedisSteps
  /\ Fault
  /\ Finish(v, "threw")
  /\ UNCHANGED <<payload, nonceKey, sigKey, stored>>

\* The same for a command it did execute; a SET of a taken key changes nothing.
RedisReplyLost(v) ==
  /\ \/ /\ at[v] = "nonce" /\ nonceKey[KeyOf(v)] = NoRequest
        /\ nonceKey' = [nonceKey EXCEPT ![KeyOf(v)] = v]
        /\ UNCHANGED sigKey
     \/ /\ at[v] = "sig" /\ sigKey[Sig(v)] = NoRequest
        /\ sigKey' = [sigKey EXCEPT ![Sig(v)] = v]
        /\ UNCHANGED nonceKey
     \/ /\ at[v] \in {"undo", "freeNonce"}
        /\ nonceKey' = [nonceKey EXCEPT ![KeyOf(v)] = NoRequest]
        /\ UNCHANGED sigKey
     \/ /\ at[v] = "freeSig"
        /\ sigKey' = [sigKey EXCEPT ![Sig(v)] = NoRequest]
        /\ UNCHANGED nonceKey
  /\ Fault
  /\ Finish(v, "threw")
  /\ UNCHANGED <<payload, stored>>

\* The instance running v dies before its caller is answered.
Crash(v) ==
  /\ at[v] \notin {"idle", "done", "crashed"}
  /\ Fault
  /\ Goto(v, "crashed")
  /\ UNCHANGED <<payload, nonceKey, sigKey, stored, told>>

\* The 7 day TTL of a key runs out, or a Redis flush or restart loses it.
KeyLost ==
  /\ Fault
  /\ \/ \E n \in Nonces : /\ nonceKey[n] # NoRequest
                          /\ nonceKey' = [nonceKey EXCEPT ![n] = NoRequest]
                          /\ UNCHANGED sigKey
     \/ \E s \in Signatures : /\ sigKey[s] # NoRequest
                              /\ sigKey' = [sigKey EXCEPT ![s] = NoRequest]
                              /\ UNCHANGED nonceKey
  /\ UNCHANGED <<payload, at, stored, told>>

Handler(v) ==
  \/ Arrive(v) \/ Refuse(v) \/ ClaimNonce(v) \/ ClaimSignature(v)
  \/ VerifySignature(v) \/ Persist(v) \/ ReleaseNonce(v) \/ ReleaseSignature(v)

FaultStep(v) == PersistFails(v) \/ RedisThrows(v) \/ RedisReplyLost(v) \/ Crash(v)

Next == (\E v \in Requests : Handler(v) \/ FaultStep(v)) \/ KeyLost

Spec == Init /\ [][Next]_vars

-----------------------------------------------------------------------------
(* Properties. *)

\* A nonce as it is spelled and a signature get one accepted verification for
\* ever, through crashes, storage errors and the loss of Redis keys, although
\* nothing but the UNIQUE columns is left then.
AcceptedOnce ==
  \A v, w \in stored : v # w => ~Conflict(v, w)

\* Whoever is told "accepted" is genuine and stored; whoever is stored is told
\* so unless a fault struck.
AcceptedAnswersStored ==
  \A v \in Requests :
    /\ at[v] = "done" /\ told[v] = "accepted" => v \in stored /\ payload[v] \in Genuine
    /\ v \in stored => told[v] = "accepted" \/ faults > 0

\* As long as no fault strikes, the keys follow the rows: a
\* request that is over holds its nonce's and its signature's key exactly when
\* it is stored, though releases are blind DELs that race with other claims.
\* Any refused payment can be tried again, no accepted one can.
KeysFollowRows ==
  faults = 0 =>
    \A v \in Requests :
      at[v] = "done" => /\ nonceKey[KeyOf(v)] = v <=> v \in stored
                        /\ sigKey[Sig(v)] = v <=> v \in stored
=============================================================================
