--------------------------- MODULE VerifyService ---------------------------
(***************************************************************************)
(* runVerify (src/src/application/verify.service.ts), the handler behind   *)
(* POST /verify.  A call claims its nonce and signature in Redis, looks    *)
(* for them in PostgreSQL, verifies the signature and stores the result.   *)
(* Calls run concurrently on one or several instances and interleave at    *)
(* every await.  The route gives each call a fresh requestId.              *)
(***************************************************************************)
EXTENDS AntiReplay, Naturals

CONSTANTS
  Genuine,    \* payloads whose signature is the buyer's over the nonce
  MaxFaults,  \* bound: crashes and PostgreSQL/Redis errors in one behaviour
  MaxLost     \* bound: Redis keys expired or flushed in one behaviour

ASSUME GenuineAssumption == Genuine \subseteq Payloads
ASSUME BoundsAssumption == MaxFaults \in Nat /\ MaxLost \in Nat

VARIABLES
  pc,         \* pc[c]: the await call c stands at
  request,    \* calls with a payment_requests row
  row,        \* row[c]: verificationStatus of the row c created
  answer,     \* answer[c]: what the caller was told
  lost,       \* history: Redis keys lost so far
  faults      \* history: crashes and storage errors so far

serviceVars == <<pc, request, row, answer, lost, faults>>
vars == <<replayVars, serviceVars>>

Steps == {"idle", "claim", "verify", "upsert", "create", "dropDuplicate",
          "dropInvalid", "dropUnsaved", "done", "crashed"}
\* invalid_payload: any check before the claim.  internal_error: "Please
\* retry".  threw: runVerify rejected and the route answers 500.
Answers == {"none", "accepted", "invalid_payload", "duplicate_payment",
            "invalid_signature", "internal_error", "threw"}

\* One type invariant for the whole state of the service and Redis.
TypeOK ==
  /\ ReplayTypeOK
  /\ pc \in [Calls -> Steps]
  /\ request \subseteq Calls
  /\ row \in [Calls -> {"none", "accepted", "rejected"}]
  /\ answer \in [Calls -> Answers]
  /\ lost \in 0..MaxLost
  /\ faults \in 0..MaxFaults

Init ==
  /\ ReplayInit
  /\ pc = [c \in Calls |-> "idle"]
  /\ request = {}
  /\ row = [c \in Calls |-> "none"]
  /\ answer = [c \in Calls |-> "none"]
  /\ lost = 0
  /\ faults = 0

-----------------------------------------------------------------------------
(* Helpers. *)

Goto(c, step) == pc' = [pc EXCEPT ![c] = step]

Return(c, result) ==
  /\ Goto(c, "done")
  /\ answer' = [answer EXCEPT ![c] = result]

\* releaseNonceRedis is called, then the handler goes on at step.
Release(c, step) == Goto(c, step) /\ ClaimAt(c, "freeNonce")

Fault ==
  /\ faults < MaxFaults
  /\ faults' = faults + 1

\* Some payment_verifications row has c's nonce or signature, whatever its
\* status.  The columns nonce and signatureHash are UNIQUE.
Stored(c) == \E d \in Calls : row[d] # "none" /\ Conflict(c, d)

Unique(c) == ~Stored(c)

InFlight(c) == pc[c] \notin {"idle", "done", "crashed"}

-----------------------------------------------------------------------------
(* The handler. *)

\* Parsing, network, asset, expiry, recipient and amount pass.
Arrive(c) ==
  /\ pc[c] = "idle"
  /\ Goto(c, "claim")
  /\ ClaimAt(c, "nonce")
  /\ UNCHANGED <<payload, nonceKey, sigKey, request, row, answer, lost, faults>>

\* One of them does not.
RejectPayload(c) ==
  /\ pc[c] = "idle"
  /\ Return(c, "invalid_payload")
  /\ UNCHANGED <<replayVars, request, row, lost, faults>>

\* One command of a claim or a release is executed.
RedisStep(c) == ReplayStep(c) /\ UNCHANGED serviceVars

\* Faulty variant: releaseNonceRedis is called for a claim that was lost.
ClaimLostReleasing(c) ==
  /\ pc[c] = "claim" /\ claim[c] = "lost"
  /\ Release(c, "dropDuplicate")
  /\ UNCHANGED <<payload, nonceKey, sigKey, request, row, answer, lost, faults>>

ClaimLost(c) ==
  /\ pc[c] = "claim" /\ claim[c] = "lost"
  /\ Return(c, "duplicate_payment")
  /\ UNCHANGED <<replayVars, request, row, lost, faults>>

\* checkReplayPostgres.
CheckPostgres(c) ==
  /\ pc[c] = "claim" /\ claim[c] = "won"
  /\ \/ Stored(c) /\ Release(c, "dropDuplicate")
     \/ ~Stored(c) /\ Goto(c, "verify") /\ UNCHANGED claim
  /\ UNCHANGED <<payload, nonceKey, sigKey, request, row, answer, lost, faults>>

\* Faulty variant: the result's valid flag is ignored.
VerifyNothing(c) ==
  /\ pc[c] = "verify"
  /\ Goto(c, "upsert")
  /\ UNCHANGED <<replayVars, request, row, answer, lost, faults>>

VerifySignature(c) ==
  /\ pc[c] = "verify"
  /\ \/ payload[c] \in Genuine /\ Goto(c, "upsert") /\ UNCHANGED claim
     \/ payload[c] \notin Genuine /\ Release(c, "dropInvalid")
  /\ UNCHANGED <<payload, nonceKey, sigKey, request, row, answer, lost, faults>>

\* releaseNonceRedis resolved.  An invalid signature is persisted only now,
\* outside any try, when others may already claim its nonce.
Released(c) ==
  /\ claim[c] = "freed"
  /\ \/ /\ pc[c] = "dropDuplicate"
        /\ Return(c, "duplicate_payment")
        /\ UNCHANGED claim
     \/ /\ pc[c] = "dropInvalid"
        /\ Goto(c, "upsert")
        /\ ClaimAt(c, "idle")
        /\ UNCHANGED answer
     \/ /\ pc[c] = "dropUnsaved"
        /\ Return(c, "internal_error")
        /\ UNCHANGED claim
  /\ UNCHANGED <<payload, nonceKey, sigKey, request, row, lost, faults>>

\* persistVerification rejects: caught for an accepted verification only.
PersistRejects(c) ==
  IF claim[c] = "won"
  THEN Release(c, "dropUnsaved") /\ UNCHANGED answer
  ELSE Return(c, "threw") /\ UNCHANGED claim

UpsertRequest(c) ==
  /\ pc[c] = "upsert"
  /\ request' = request \cup {c}
  /\ Goto(c, "create")
  /\ UNCHANGED <<replayVars, row, answer, lost, faults>>

\* The network has no row in the database.
NetworkMissing(c) ==
  /\ pc[c] = "upsert"
  /\ PersistRejects(c)
  /\ UNCHANGED <<payload, nonceKey, sigKey, request, row, lost, faults>>

\* Only an accepted verification still holds its claim.
Status(c) == IF claim[c] = "won" THEN "accepted" ELSE "rejected"

CreateVerification(c) ==
  /\ pc[c] = "create"
  /\ Unique(c)
  /\ row' = [row EXCEPT ![c] = Status(c)]
  /\ Return(c, IF claim[c] = "won" THEN "accepted" ELSE "invalid_signature")
  /\ UNCHANGED <<replayVars, request, lost, faults>>

\* A row that was not there at checkReplayPostgres violates UNIQUE.
CreateConflicts(c) ==
  /\ pc[c] = "create"
  /\ ~Unique(c)
  /\ PersistRejects(c)
  /\ UNCHANGED <<payload, nonceKey, sigKey, request, row, lost, faults>>

-----------------------------------------------------------------------------
(* Faults. *)

RedisThrows(c) ==
  /\ ReplayThrows(c)
  /\ Fault
  /\ Return(c, "threw")
  /\ UNCHANGED <<request, row, lost>>

\* checkReplayPostgres rejects, outside any try: the claim stays.
CheckThrows(c) ==
  /\ pc[c] = "claim" /\ claim[c] = "won"
  /\ Fault
  /\ Return(c, "threw")
  /\ UNCHANGED <<replayVars, request, row, lost>>

\* A write of persistVerification rejects, and may have committed.
PersistFails(c) ==
  /\ Fault
  /\ \/ /\ pc[c] = "upsert"
        /\ request' \in {request, request \cup {c}}
        /\ UNCHANGED row
     \/ /\ pc[c] = "create"
        /\ row' = row \/ (Unique(c) /\ row' = [row EXCEPT ![c] = Status(c)])
        /\ UNCHANGED request
  /\ PersistRejects(c)
  /\ UNCHANGED <<payload, nonceKey, sigKey, lost>>

Crash(c) ==
  /\ InFlight(c)
  /\ Fault
  /\ Goto(c, "crashed")
  /\ ClaimAt(c, "idle")
  /\ UNCHANGED <<payload, nonceKey, sigKey, request, row, answer, lost>>

KeyLost ==
  /\ lost < MaxLost
  /\ lost' = lost + 1
  /\ \/ \E n \in Nonces : NonceKeyLost(n)
     \/ \E s \in Signatures : SigKeyLost(s)
  /\ UNCHANGED <<pc, request, row, answer, faults>>

Handler(c) ==
  \/ Arrive(c) \/ RejectPayload(c) \/ RedisStep(c) \/ ClaimLost(c)
  \/ CheckPostgres(c) \/ VerifySignature(c) \/ Released(c)
  \/ UpsertRequest(c) \/ NetworkMissing(c)
  \/ CreateVerification(c) \/ CreateConflicts(c)

FaultStep(c) == RedisThrows(c) \/ CheckThrows(c) \/ PersistFails(c) \/ Crash(c)

Next == (\E c \in Calls : Handler(c) \/ FaultStep(c)) \/ KeyLost

Spec == Init /\ [][Next]_vars

-----------------------------------------------------------------------------
(* Properties. *)

\* Whoever was told "accepted" keeps both Redis keys until they expire: the
\* undo and the release of other calls with the same nonce or signature, which
\* DEL without looking at the owner, never take them away, through crashes and
\* storage errors.  A replay is then refused before PostgreSQL is asked.
AcceptedKeysKept ==
  lost = 0 =>
    \A c \in Calls :
      answer[c] = "accepted" => nonceKey[Nonce(c)] = c /\ sigKey[Sig(c)] = c

\* Whoever is told "accepted" has a genuine signature, a request row and an
\* accepted verification, so that POST /settle will find them; and a stored
\* acceptance is answered "accepted" unless a fault struck.
AcceptedAnswersStored ==
  \A c \in Calls :
    /\ answer[c] = "accepted" =>
         row[c] = "accepted" /\ c \in request /\ payload[c] \in Genuine
    /\ row[c] = "accepted" => answer[c] = "accepted" \/ faults > 0

\* The claim is atomic: until a key is lost, two calls with the same nonce or
\* signature never both hold a claim, though the keys are set one by one and
\* deleted without looking at who set them.
ClaimExclusion ==
  lost = 0 =>
    \A c, d \in Calls :
      c # d /\ claim[c] = "won" /\ claim[d] = "won" => ~Conflict(c, d)

\* A call that returned without accepting leaves no nonce key of its own
\* behind: what may still refuse the nonce afterwards is a row, not Redis.
NonceReleased ==
  faults = 0 =>
    \A n \in Nonces : LET c == nonceKey[n]
                      IN c \in Calls /\ pc[c] = "done" => answer[c] = "accepted"

\* "on failure: releaseNonceRedis() so legitimate retries are not blocked"
\* (verify.service.ts:14): a genuine payload that won its claim is called a
\* duplicate only if its nonce or its signature was accepted before.
RetryNotBlocked ==
  [][\A c \in Calls :
       payload[c] \in Genuine /\ claim[c] = "won" /\ pc'[c] = "dropDuplicate"
       => \E d \in Calls : row[d] = "accepted" /\ Conflict(c, d)]_vars
=============================================================================
