------------------------ MODULE VerifyServiceProofs ------------------------
(***************************************************************************)
(* Proofs about VerifyService: its type invariant and its four safety      *)
(* invariants, for any sets of calls, nonces and signatures, any genuine   *)
(* payloads and any number of faults and lost keys.                        *)
(***************************************************************************)
EXTENDS VerifyService, TLAPS

Dropping == {"dropDuplicate", "dropInvalid", "dropUnsaved"}
HoldsNonce == {"sig", "undo", "won", "freeNonce"}
HoldsSig == {"won", "freeNonce", "freeSig"}

\* Where a call stands determines where its claim or release stands.
Place(c) ==
  /\ pc[c] \in {"idle", "crashed"} => claim[c] = "idle"
  /\ pc[c] = "claim" =>
       claim[c] \in {"nonce", "sig", "sigOnly", "undo", "won", "lost"}
  /\ pc[c] = "verify" => claim[c] = "won"
  /\ pc[c] \in {"upsert", "create"} => claim[c] \in {"won", "idle"}
  /\ pc[c] \in Dropping => claim[c] \in {"freeNonce", "freeSig", "freed"}
  /\ pc[c] = "done" => claim[c] \in {"idle", "lost", "won", "freed"}
  /\ answer[c] # "none" => pc[c] = "done"
  /\ faults = 0 /\ pc[c] = "done" /\ claim[c] = "won" => answer[c] = "accepted"
  /\ answer[c] = "accepted" => claim[c] = "won"

\* What a call has stored, and for which payload, when it is answered.
Record(c) ==
  /\ pc[c] \in {"upsert", "create"} /\ claim[c] = "won" => payload[c] \in Genuine
  /\ pc[c] = "create" => c \in request
  /\ answer[c] = "accepted" =>
       row[c] = "accepted" /\ c \in request /\ payload[c] \in Genuine
  /\ row[c] = "accepted" => answer[c] = "accepted" \/ faults > 0

\* A nonce's key was set by a call of that nonce which is going to use it or
\* to delete it.
NonceOwned(n) ==
  faults = 0 /\ nonceKey[n] # NoCall =>
    Nonce(nonceKey[n]) = n /\ claim[nonceKey[n]] \in HoldsNonce

\* Until a key is lost, a call between its SET and its DEL finds its own keys:
\* the DEL, which looks at no owner, never deletes another call's key.
KeysHeld(c) ==
  lost = 0 =>
    /\ claim[c] \in HoldsNonce => nonceKey[Nonce(c)] = c
    /\ claim[c] \in HoldsSig => sigKey[Sig(c)] = c

IInv ==
  /\ TypeOK
  /\ \A c \in Calls : Place(c) /\ Record(c) /\ KeysHeld(c)
  /\ \A n \in Nonces : NonceOwned(n)

-----------------------------------------------------------------------------
(* Each step preserves the invariant, conjunct by conjunct. *)

\* Every step keeps the types.
LEMMA TypeStep ==
  ASSUME TypeOK,
         [Next]_vars
  PROVE  TypeOK'
<1> USE DEF TypeOK, Answers, Steps, ClaimSteps, ReplayTypeOK, replayVars,
        ClaimAt, Goto, Return, Fault, Payloads, Nonce, Sig
<1>1. ASSUME NEW c \in Calls, Arrive(c)
      PROVE  TypeOK'
  BY <1>1 DEF Arrive
<1>2. ASSUME NEW c \in Calls, RejectPayload(c)
      PROVE  TypeOK'
  BY <1>2 DEF RejectPayload
<1>3. ASSUME NEW c \in Calls, ClaimNonce(c), UNCHANGED serviceVars
      PROVE  TypeOK'
  BY <1>3 DEF ClaimNonce, serviceVars, SetNonce
<1>4. ASSUME NEW c \in Calls, ClaimSig(c), UNCHANGED serviceVars
      PROVE  TypeOK'
  BY <1>4 DEF ClaimSig, serviceVars, SetSig
<1>5. ASSUME NEW c \in Calls, UndoNonce(c), UNCHANGED serviceVars
      PROVE  TypeOK'
  BY <1>5 DEF UndoNonce, serviceVars, DelNonce
<1>6. ASSUME NEW c \in Calls, ReleaseNonce(c), UNCHANGED serviceVars
      PROVE  TypeOK'
  BY <1>6 DEF ReleaseNonce, serviceVars, DelNonce
<1>7. ASSUME NEW c \in Calls, ReleaseSig(c), UNCHANGED serviceVars
      PROVE  TypeOK'
  BY <1>7 DEF ReleaseSig, serviceVars, DelSig
<1>8. ASSUME NEW c \in Calls, ClaimLost(c)
      PROVE  TypeOK'
  BY <1>8 DEF ClaimLost
<1>9. ASSUME NEW c \in Calls, CheckPostgres(c)
      PROVE  TypeOK'
  BY <1>9 DEF CheckPostgres, Release
<1>10. ASSUME NEW c \in Calls, VerifySignature(c)
      PROVE  TypeOK'
  BY <1>10 DEF VerifySignature, Release
<1>11. ASSUME NEW c \in Calls, Released(c)
      PROVE  TypeOK'
  BY <1>11 DEF Released
<1>12. ASSUME NEW c \in Calls, UpsertRequest(c)
      PROVE  TypeOK'
  BY <1>12 DEF UpsertRequest
<1>13. ASSUME NEW c \in Calls, NetworkMissing(c)
      PROVE  TypeOK'
  BY <1>13 DEF NetworkMissing, PersistRejects, Release
<1>14. ASSUME NEW c \in Calls, CreateVerification(c)
      PROVE  TypeOK'
  BY <1>14 DEF CreateVerification, Status
<1>15. ASSUME NEW c \in Calls, CreateConflicts(c)
      PROVE  TypeOK'
  BY <1>15 DEF CreateConflicts, PersistRejects, Release
<1>16. ASSUME NEW c \in Calls, RedisThrows(c)
      PROVE  TypeOK'
  <2>1. /\ nonceKey' \in [Nonces -> Calls \cup {NoCall}]
        /\ sigKey' \in [Signatures -> Calls \cup {NoCall}]
    <3>1. /\ SetNonce(c) \/ DelNonce(c) \/ UNCHANGED nonceKey
          /\ SetSig(c) \/ DelSig(c) \/ UNCHANGED sigKey
      BY <1>16 DEF RedisThrows, ReplayThrows
    <3>2. QED
      BY <3>1 DEF SetNonce, DelNonce, SetSig, DelSig
  <2>2. /\ UNCHANGED <<payload, request, row, lost>>
        /\ claim' \in [Calls -> ClaimSteps]
        /\ pc' \in [Calls -> Steps]
        /\ answer' \in [Calls -> Answers]
        /\ faults' \in 0..MaxFaults
    BY <1>16, BoundsAssumption DEF RedisThrows, ReplayThrows
  <2>3. QED
    BY <2>1, <2>2
<1>17. ASSUME NEW c \in Calls, CheckThrows(c)
      PROVE  TypeOK'
  BY <1>17, BoundsAssumption DEF CheckThrows
<1>18. ASSUME NEW c \in Calls, PersistFails(c)
      PROVE  TypeOK'
  <2>1. request' \subseteq Calls /\ row' \in [Calls -> {"none", "accepted", "rejected"}]
    BY <1>18 DEF PersistFails, Status
  <2>2. /\ claim' \in [Calls -> ClaimSteps]
        /\ pc' \in [Calls -> Steps]
        /\ answer' \in [Calls -> Answers]
    BY <1>18 DEF PersistFails, PersistRejects, Release
  <2>3. faults' \in 0..MaxFaults /\ UNCHANGED <<payload, nonceKey, sigKey, lost>>
    BY <1>18, BoundsAssumption DEF PersistFails
  <2>4. QED
    BY <2>1, <2>2, <2>3
<1>19. ASSUME NEW c \in Calls, Crash(c)
      PROVE  TypeOK'
  BY <1>19, BoundsAssumption DEF Crash, InFlight
<1>20. CASE KeyLost
  BY <1>20, BoundsAssumption DEF KeyLost, NonceKeyLost, SigKeyLost
<1>21. CASE UNCHANGED vars
  BY <1>21 DEF vars, serviceVars
<1>22. QED
  BY <1>1, <1>2, <1>3, <1>4, <1>5, <1>6, <1>7, <1>8, <1>9, <1>10, <1>11,
     <1>12, <1>13, <1>14, <1>15, <1>16, <1>17, <1>18, <1>19, <1>20, <1>21
     DEF Next, Handler, FaultStep, RedisStep, ReplayStep

\* Every step keeps claims in step with calls; no fault is ever forgotten.
LEMMA PlaceStep ==
  ASSUME TypeOK, \A c \in Calls : Place(c),
         [Next]_vars
  PROVE  \A d \in Calls : Place(d)'
<1> USE DEF TypeOK, Place, Dropping, ReplayTypeOK, replayVars, ClaimAt, Goto,
        Return, Fault
<1>1. ASSUME NEW c \in Calls, Arrive(c)
      PROVE  \A d \in Calls : Place(d)'
  BY <1>1 DEF Arrive
<1>2. ASSUME NEW c \in Calls, RejectPayload(c)
      PROVE  \A d \in Calls : Place(d)'
  BY <1>2 DEF RejectPayload
<1>3. ASSUME NEW c \in Calls, ClaimNonce(c), UNCHANGED serviceVars
      PROVE  \A d \in Calls : Place(d)'
  BY <1>3 DEF ClaimNonce, serviceVars
<1>4. ASSUME NEW c \in Calls, ClaimSig(c), UNCHANGED serviceVars
      PROVE  \A d \in Calls : Place(d)'
  BY <1>4 DEF ClaimSig, serviceVars
<1>5. ASSUME NEW c \in Calls, UndoNonce(c), UNCHANGED serviceVars
      PROVE  \A d \in Calls : Place(d)'
  BY <1>5 DEF UndoNonce, serviceVars
<1>6. ASSUME NEW c \in Calls, ReleaseNonce(c), UNCHANGED serviceVars
      PROVE  \A d \in Calls : Place(d)'
  BY <1>6 DEF ReleaseNonce, serviceVars
<1>7. ASSUME NEW c \in Calls, ReleaseSig(c), UNCHANGED serviceVars
      PROVE  \A d \in Calls : Place(d)'
  BY <1>7 DEF ReleaseSig, serviceVars
<1>8. ASSUME NEW c \in Calls, ClaimLost(c)
      PROVE  \A d \in Calls : Place(d)'
  BY <1>8 DEF ClaimLost
<1>9. ASSUME NEW c \in Calls, CheckPostgres(c)
      PROVE  \A d \in Calls : Place(d)'
  BY <1>9 DEF CheckPostgres, Release
<1>10. ASSUME NEW c \in Calls, VerifySignature(c)
      PROVE  \A d \in Calls : Place(d)'
  BY <1>10 DEF VerifySignature, Release
<1>11. ASSUME NEW c \in Calls, Released(c)
      PROVE  \A d \in Calls : Place(d)'
  BY <1>11 DEF Released
<1>12. ASSUME NEW c \in Calls, UpsertRequest(c)
      PROVE  \A d \in Calls : Place(d)'
  BY <1>12 DEF UpsertRequest
<1>13. ASSUME NEW c \in Calls, NetworkMissing(c)
      PROVE  \A d \in Calls : Place(d)'
  BY <1>13 DEF NetworkMissing, PersistRejects, Release
<1>14. ASSUME NEW c \in Calls, CreateVerification(c)
      PROVE  \A d \in Calls : Place(d)'
  BY <1>14 DEF CreateVerification
<1>15. ASSUME NEW c \in Calls, CreateConflicts(c)
      PROVE  \A d \in Calls : Place(d)'
  BY <1>15 DEF CreateConflicts, PersistRejects, Release
<1>16. ASSUME NEW c \in Calls, RedisThrows(c)
      PROVE  \A d \in Calls : Place(d)'
  BY <1>16, BoundsAssumption DEF RedisThrows, ReplayThrows
<1>17. ASSUME NEW c \in Calls, CheckThrows(c)
      PROVE  \A d \in Calls : Place(d)'
  BY <1>17, BoundsAssumption DEF CheckThrows
<1>18. ASSUME NEW c \in Calls, PersistFails(c)
      PROVE  \A d \in Calls : Place(d)'
  BY <1>18, BoundsAssumption DEF PersistFails, PersistRejects, Release
<1>19. ASSUME NEW c \in Calls, Crash(c)
      PROVE  \A d \in Calls : Place(d)'
  BY <1>19, BoundsAssumption DEF Crash, InFlight
<1>20. CASE KeyLost
  BY <1>20, BoundsAssumption DEF KeyLost, NonceKeyLost, SigKeyLost
<1>21. CASE UNCHANGED vars
  BY <1>21 DEF vars, serviceVars
<1>22. QED
  BY <1>1, <1>2, <1>3, <1>4, <1>5, <1>6, <1>7, <1>8, <1>9, <1>10, <1>11,
     <1>12, <1>13, <1>14, <1>15, <1>16, <1>17, <1>18, <1>19, <1>20, <1>21
     DEF Next, Handler, FaultStep, RedisStep, ReplayStep

\* Every step keeps answers and stored rows in agreement.
LEMMA RecordStep ==
  ASSUME TypeOK, \A c \in Calls : Place(c) /\ Record(c),
         [Next]_vars
  PROVE  \A d \in Calls : Record(d)'
<1> USE DEF TypeOK, Place, Record, Dropping, ReplayTypeOK, replayVars,
        ClaimAt, Goto, Return, Fault
<1>1. ASSUME NEW c \in Calls, Arrive(c)
      PROVE  \A d \in Calls : Record(d)'
  BY <1>1 DEF Arrive
<1>2. ASSUME NEW c \in Calls, RejectPayload(c)
      PROVE  \A d \in Calls : Record(d)'
  BY <1>2 DEF RejectPayload
<1>3. ASSUME NEW c \in Calls, ClaimNonce(c), UNCHANGED serviceVars
      PROVE  \A d \in Calls : Record(d)'
  BY <1>3 DEF ClaimNonce, serviceVars
<1>4. ASSUME NEW c \in Calls, ClaimSig(c), UNCHANGED serviceVars
      PROVE  \A d \in Calls : Record(d)'
  BY <1>4 DEF ClaimSig, serviceVars
<1>5. ASSUME NEW c \in Calls, UndoNonce(c), UNCHANGED serviceVars
      PROVE  \A d \in Calls : Record(d)'
  BY <1>5 DEF UndoNonce, serviceVars
<1>6. ASSUME NEW c \in Calls, ReleaseNonce(c), UNCHANGED serviceVars
      PROVE  \A d \in Calls : Record(d)'
  BY <1>6 DEF ReleaseNonce, serviceVars
<1>7. ASSUME NEW c \in Calls, ReleaseSig(c), UNCHANGED serviceVars
      PROVE  \A d \in Calls : Record(d)'
  BY <1>7 DEF ReleaseSig, serviceVars
<1>8. ASSUME NEW c \in Calls, ClaimLost(c)
      PROVE  \A d \in Calls : Record(d)'
  BY <1>8 DEF ClaimLost
<1>9. ASSUME NEW c \in Calls, CheckPostgres(c)
      PROVE  \A d \in Calls : Record(d)'
  BY <1>9 DEF CheckPostgres, Release
<1>10. ASSUME NEW c \in Calls, VerifySignature(c)
      PROVE  \A d \in Calls : Record(d)'
  BY <1>10 DEF VerifySignature, Release
<1>11. ASSUME NEW c \in Calls, Released(c)
      PROVE  \A d \in Calls : Record(d)'
  BY <1>11 DEF Released
<1>12. ASSUME NEW c \in Calls, UpsertRequest(c)
      PROVE  \A d \in Calls : Record(d)'
  BY <1>12 DEF UpsertRequest
<1>13. ASSUME NEW c \in Calls, NetworkMissing(c)
      PROVE  \A d \in Calls : Record(d)'
  BY <1>13 DEF NetworkMissing, PersistRejects, Release
<1>14. ASSUME NEW c \in Calls, CreateVerification(c)
      PROVE  \A d \in Calls : Record(d)'
  BY <1>14 DEF CreateVerification, Status, Unique, Stored, Conflict
<1>15. ASSUME NEW c \in Calls, CreateConflicts(c)
      PROVE  \A d \in Calls : Record(d)'
  BY <1>15 DEF CreateConflicts, PersistRejects, Release
<1>16. ASSUME NEW c \in Calls, RedisThrows(c)
      PROVE  \A d \in Calls : Record(d)'
  BY <1>16, BoundsAssumption DEF RedisThrows, ReplayThrows
<1>17. ASSUME NEW c \in Calls, CheckThrows(c)
      PROVE  \A d \in Calls : Record(d)'
  BY <1>17, BoundsAssumption DEF CheckThrows
<1>18. ASSUME NEW c \in Calls, PersistFails(c)
      PROVE  \A d \in Calls : Record(d)'
  BY <1>18, BoundsAssumption DEF PersistFails, PersistRejects, Release, Status, Unique, Stored, Conflict
<1>19. ASSUME NEW c \in Calls, Crash(c)
      PROVE  \A d \in Calls : Record(d)'
  BY <1>19, BoundsAssumption DEF Crash, InFlight
<1>20. CASE KeyLost
  BY <1>20, BoundsAssumption DEF KeyLost, NonceKeyLost, SigKeyLost
<1>21. CASE UNCHANGED vars
  BY <1>21 DEF vars, serviceVars
<1>22. QED
  BY <1>1, <1>2, <1>3, <1>4, <1>5, <1>6, <1>7, <1>8, <1>9, <1>10, <1>11,
     <1>12, <1>13, <1>14, <1>15, <1>16, <1>17, <1>18, <1>19, <1>20, <1>21
     DEF Next, Handler, FaultStep, RedisStep, ReplayStep

\* A key changes hands only through a SET that found it free.
LEMMA NonceStep ==
  ASSUME TypeOK, \A c \in Calls : Place(c), \A n \in Nonces : NonceOwned(n),
         [Next]_vars
  PROVE  \A m \in Nonces : NonceOwned(m)'
<1> USE DEF TypeOK, Place, NonceOwned, HoldsNonce, Dropping, ReplayTypeOK,
        replayVars, ClaimAt, Goto, Return, Fault, Payloads, Nonce, Sig
<1>1. ASSUME NEW c \in Calls, Arrive(c)
      PROVE  \A m \in Nonces : NonceOwned(m)'
  BY <1>1 DEF Arrive
<1>2. ASSUME NEW c \in Calls, RejectPayload(c)
      PROVE  \A m \in Nonces : NonceOwned(m)'
  BY <1>2 DEF RejectPayload
<1>3. ASSUME NEW c \in Calls, ClaimNonce(c), UNCHANGED serviceVars
      PROVE  \A m \in Nonces : NonceOwned(m)'
  BY <1>3, NoCallAssumption DEF ClaimNonce, serviceVars, SetNonce
<1>4. ASSUME NEW c \in Calls, ClaimSig(c), UNCHANGED serviceVars
      PROVE  \A m \in Nonces : NonceOwned(m)'
  BY <1>4, NoCallAssumption DEF ClaimSig, serviceVars, SetSig
<1>5. ASSUME NEW c \in Calls, UndoNonce(c), UNCHANGED serviceVars
      PROVE  \A m \in Nonces : NonceOwned(m)'
  BY <1>5, NoCallAssumption DEF UndoNonce, serviceVars, DelNonce
<1>6. ASSUME NEW c \in Calls, ReleaseNonce(c), UNCHANGED serviceVars
      PROVE  \A m \in Nonces : NonceOwned(m)'
  BY <1>6, NoCallAssumption DEF ReleaseNonce, serviceVars, DelNonce
<1>7. ASSUME NEW c \in Calls, ReleaseSig(c), UNCHANGED serviceVars
      PROVE  \A m \in Nonces : NonceOwned(m)'
  BY <1>7, NoCallAssumption DEF ReleaseSig, serviceVars, DelSig
<1>8. ASSUME NEW c \in Calls, ClaimLost(c)
      PROVE  \A m \in Nonces : NonceOwned(m)'
  BY <1>8 DEF ClaimLost
<1>9. ASSUME NEW c \in Calls, CheckPostgres(c)
      PROVE  \A m \in Nonces : NonceOwned(m)'
  BY <1>9 DEF CheckPostgres, Release
<1>10. ASSUME NEW c \in Calls, VerifySignature(c)
      PROVE  \A m \in Nonces : NonceOwned(m)'
  BY <1>10 DEF VerifySignature, Release
<1>11. ASSUME NEW c \in Calls, Released(c)
      PROVE  \A m \in Nonces : NonceOwned(m)'
  BY <1>11, NoCallAssumption DEF Released
<1>12. ASSUME NEW c \in Calls, UpsertRequest(c)
      PROVE  \A m \in Nonces : NonceOwned(m)'
  BY <1>12 DEF UpsertRequest
<1>13. ASSUME NEW c \in Calls, NetworkMissing(c)
      PROVE  \A m \in Nonces : NonceOwned(m)'
  BY <1>13 DEF NetworkMissing, PersistRejects, Release
<1>14. ASSUME NEW c \in Calls, CreateVerification(c)
      PROVE  \A m \in Nonces : NonceOwned(m)'
  BY <1>14 DEF CreateVerification
<1>15. ASSUME NEW c \in Calls, CreateConflicts(c)
      PROVE  \A m \in Nonces : NonceOwned(m)'
  BY <1>15 DEF CreateConflicts, PersistRejects, Release
<1>16. ASSUME NEW c \in Calls, RedisThrows(c)
      PROVE  \A m \in Nonces : NonceOwned(m)'
  BY <1>16, BoundsAssumption DEF RedisThrows, ReplayThrows
<1>17. ASSUME NEW c \in Calls, CheckThrows(c)
      PROVE  \A m \in Nonces : NonceOwned(m)'
  BY <1>17, BoundsAssumption DEF CheckThrows
<1>18. ASSUME NEW c \in Calls, PersistFails(c)
      PROVE  \A m \in Nonces : NonceOwned(m)'
  BY <1>18, BoundsAssumption DEF PersistFails, PersistRejects, Release
<1>19. ASSUME NEW c \in Calls, Crash(c)
      PROVE  \A m \in Nonces : NonceOwned(m)'
  BY <1>19, BoundsAssumption DEF Crash, InFlight
<1>20. CASE KeyLost
  BY <1>20, NoCallAssumption, BoundsAssumption DEF KeyLost, NonceKeyLost, SigKeyLost
<1>21. CASE UNCHANGED vars
  BY <1>21 DEF vars, serviceVars
<1>22. QED
  BY <1>1, <1>2, <1>3, <1>4, <1>5, <1>6, <1>7, <1>8, <1>9, <1>10, <1>11,
     <1>12, <1>13, <1>14, <1>15, <1>16, <1>17, <1>18, <1>19, <1>20, <1>21
     DEF Next, Handler, FaultStep, RedisStep, ReplayStep

\* A call's own steps touch only the keys it holds, so nobody else's.
LEMMA HeldStep ==
  ASSUME TypeOK, \A c \in Calls : Place(c) /\ KeysHeld(c),
         [Next]_vars
  PROVE  \A d \in Calls : KeysHeld(d)'
<1> USE DEF TypeOK, Place, KeysHeld, HoldsNonce, HoldsSig, Dropping,
        ReplayTypeOK, replayVars, ClaimAt, Goto, Return, Fault, Payloads,
        Nonce, Sig
<1>1. ASSUME NEW c \in Calls, Arrive(c)
      PROVE  \A d \in Calls : KeysHeld(d)'
  BY <1>1 DEF Arrive
<1>2. ASSUME NEW c \in Calls, RejectPayload(c)
      PROVE  \A d \in Calls : KeysHeld(d)'
  BY <1>2 DEF RejectPayload
<1>3. ASSUME NEW c \in Calls, ClaimNonce(c), UNCHANGED serviceVars
      PROVE  \A d \in Calls : KeysHeld(d)'
  BY <1>3, NoCallAssumption DEF ClaimNonce, serviceVars, SetNonce
<1>4. ASSUME NEW c \in Calls, ClaimSig(c), UNCHANGED serviceVars
      PROVE  \A d \in Calls : KeysHeld(d)'
  <2>1. \/ claim'[c] = "lost"
        \/ claim[c] = "sig" /\ claim'[c] = "undo"
        \/ claim[c] = "sig" /\ claim'[c] = "won" /\ sigKey[Sig(c)] = NoCall
    <3>1. CASE claim[c] = "sigOnly"
      BY <1>4, <3>1 DEF ClaimSig
    <3>2. CASE claim[c] = "sig" /\ sigKey[Sig(c)] # NoCall
      BY <1>4, <3>2 DEF ClaimSig
    <3>3. CASE claim[c] = "sig" /\ sigKey[Sig(c)] = NoCall
      BY <1>4, <3>3 DEF ClaimSig
    <3>4. QED
      BY <1>4, <3>1, <3>2, <3>3 DEF ClaimSig
  <2>2. \A d \in Calls : d # c => claim'[d] = claim[d]
    BY <1>4 DEF ClaimSig
  <2>3. sigKey' = [sigKey EXCEPT ![Sig(c)] = IF @ = NoCall THEN c ELSE @]
    BY <1>4 DEF ClaimSig, SetSig
  <2>4. UNCHANGED <<payload, nonceKey, lost, faults>>
    BY <1>4 DEF ClaimSig, serviceVars
  <2>5. QED
    BY <2>1, <2>2, <2>3, <2>4, NoCallAssumption
<1>5. ASSUME NEW c \in Calls, UndoNonce(c), UNCHANGED serviceVars
      PROVE  \A d \in Calls : KeysHeld(d)'
  BY <1>5, NoCallAssumption DEF UndoNonce, serviceVars, DelNonce
<1>6. ASSUME NEW c \in Calls, ReleaseNonce(c), UNCHANGED serviceVars
      PROVE  \A d \in Calls : KeysHeld(d)'
  BY <1>6, NoCallAssumption DEF ReleaseNonce, serviceVars, DelNonce
<1>7. ASSUME NEW c \in Calls, ReleaseSig(c), UNCHANGED serviceVars
      PROVE  \A d \in Calls : KeysHeld(d)'
  BY <1>7, NoCallAssumption DEF ReleaseSig, serviceVars, DelSig
<1>8. ASSUME NEW c \in Calls, ClaimLost(c)
      PROVE  \A d \in Calls : KeysHeld(d)'
  BY <1>8 DEF ClaimLost
<1>9. ASSUME NEW c \in Calls, CheckPostgres(c)
      PROVE  \A d \in Calls : KeysHeld(d)'
  BY <1>9 DEF CheckPostgres, Release
<1>10. ASSUME NEW c \in Calls, VerifySignature(c)
      PROVE  \A d \in Calls : KeysHeld(d)'
  BY <1>10 DEF VerifySignature, Release
<1>11. ASSUME NEW c \in Calls, Released(c)
      PROVE  \A d \in Calls : KeysHeld(d)'
  BY <1>11, NoCallAssumption DEF Released
<1>12. ASSUME NEW c \in Calls, UpsertRequest(c)
      PROVE  \A d \in Calls : KeysHeld(d)'
  BY <1>12 DEF UpsertRequest
<1>13. ASSUME NEW c \in Calls, NetworkMissing(c)
      PROVE  \A d \in Calls : KeysHeld(d)'
  BY <1>13 DEF NetworkMissing, PersistRejects, Release
<1>14. ASSUME NEW c \in Calls, CreateVerification(c)
      PROVE  \A d \in Calls : KeysHeld(d)'
  BY <1>14 DEF CreateVerification
<1>15. ASSUME NEW c \in Calls, CreateConflicts(c)
      PROVE  \A d \in Calls : KeysHeld(d)'
  BY <1>15 DEF CreateConflicts, PersistRejects, Release
<1>16. ASSUME NEW c \in Calls, RedisThrows(c)
      PROVE  \A d \in Calls : KeysHeld(d)'
  <2>1. /\ claim' = [claim EXCEPT ![c] = "idle"]
        /\ UNCHANGED <<payload, lost>>
    BY <1>16 DEF RedisThrows, ReplayThrows
  <2>2. \/ SetNonce(c) \/ UNCHANGED nonceKey
        \/ DelNonce(c) /\ claim[c] \in {"undo", "freeNonce"}
    BY <1>16 DEF RedisThrows, ReplayThrows
  <2>3. \/ SetSig(c) \/ UNCHANGED sigKey
        \/ DelSig(c) /\ claim[c] \in {"freeNonce", "freeSig"}
    BY <1>16 DEF RedisThrows, ReplayThrows
  <2> SUFFICES ASSUME lost = 0, NEW d \in Calls, d # c
               PROVE  /\ claim[d] \in HoldsNonce => nonceKey'[Nonce(d)] = d
                      /\ claim[d] \in HoldsSig => sigKey'[Sig(d)] = d
    BY <2>1
  <2>4. claim[d] \in HoldsNonce => nonceKey'[Nonce(d)] = d
    BY <2>2, NoCallAssumption DEF SetNonce, DelNonce
  <2>5. claim[d] \in HoldsSig => sigKey'[Sig(d)] = d
    BY <2>3, NoCallAssumption DEF SetSig, DelSig
  <2>6. QED
    BY <2>4, <2>5
<1>17. ASSUME NEW c \in Calls, CheckThrows(c)
      PROVE  \A d \in Calls : KeysHeld(d)'
  BY <1>17, BoundsAssumption DEF CheckThrows
<1>18. ASSUME NEW c \in Calls, PersistFails(c)
      PROVE  \A d \in Calls : KeysHeld(d)'
  BY <1>18, BoundsAssumption DEF PersistFails, PersistRejects, Release
<1>19. ASSUME NEW c \in Calls, Crash(c)
      PROVE  \A d \in Calls : KeysHeld(d)'
  BY <1>19, BoundsAssumption DEF Crash, InFlight
<1>20. CASE KeyLost
  BY <1>20, NoCallAssumption, BoundsAssumption DEF KeyLost, NonceKeyLost, SigKeyLost
<1>21. CASE UNCHANGED vars
  BY <1>21 DEF vars, serviceVars
<1>22. QED
  BY <1>1, <1>2, <1>3, <1>4, <1>5, <1>6, <1>7, <1>8, <1>9, <1>10, <1>11,
     <1>12, <1>13, <1>14, <1>15, <1>16, <1>17, <1>18, <1>19, <1>20, <1>21
     DEF Next, Handler, FaultStep, RedisStep, ReplayStep

-----------------------------------------------------------------------------
(* The invariant, and the properties it implies. *)

\* The inductive invariant holds initially.
LEMMA InvInit == Init => IInv
<1> SUFFICES ASSUME Init PROVE IInv
  OBVIOUS
<1> USE DEF Init, ReplayInit
<1>1. TypeOK
  BY BoundsAssumption DEF TypeOK, ReplayTypeOK, ClaimSteps, Steps, Answers
<1>2. \A c \in Calls : Place(c) /\ Record(c) /\ KeysHeld(c)
  BY DEF Place, Record, KeysHeld, Dropping, HoldsNonce, HoldsSig
<1>3. \A n \in Nonces : NonceOwned(n)
  BY DEF NonceOwned
<1>4. QED
  BY <1>1, <1>2, <1>3 DEF IInv

\* Every step preserves it.
LEMMA InvStep == IInv /\ [Next]_vars => IInv'
<1> SUFFICES ASSUME IInv, [Next]_vars PROVE IInv'
  OBVIOUS
<1> USE DEF IInv
<1>1. TypeOK'
  BY TypeStep
<1>2. \A c \in Calls : Place(c)' /\ Record(c)' /\ KeysHeld(c)'
  BY PlaceStep, RecordStep, HeldStep
<1>3. \A n \in Nonces : NonceOwned(n)'
  BY NonceStep
<1>4. QED
  BY <1>1, <1>2, <1>3

\* It holds in every reachable state.
LEMMA Invariant == Spec => []IInv
BY InvInit, InvStep, PTL DEF Spec

\* Type correctness of runVerify's state, of its Redis keys and of its rows.
THEOREM TypeCorrect == Spec => []TypeOK
<1>1. IInv => TypeOK
  BY DEF IInv
<1>2. QED
  BY <1>1, Invariant, PTL

\* Whoever was told "accepted" keeps both Redis keys until they expire, whatever
\* calls with the same nonce or signature set, undo and release meanwhile.
THEOREM AcceptedKeepsKeys == Spec => []AcceptedKeysKept
<1>1. IInv => AcceptedKeysKept
  BY DEF IInv, Place, KeysHeld, HoldsNonce, HoldsSig, AcceptedKeysKept
<1>2. QED
  BY <1>1, Invariant, PTL

\* runVerify answers "accepted" for exactly what it stored as accepted.
THEOREM AnswersStored == Spec => []AcceptedAnswersStored
<1>1. IInv => AcceptedAnswersStored
  BY DEF IInv, Record, AcceptedAnswersStored
<1>2. QED
  BY <1>1, Invariant, PTL

\* The two SETs of claimNonceRedis exclude each other's winners although other
\* calls run between them.
THEOREM ClaimsExclude == Spec => []ClaimExclusion
<1>1. ASSUME IInv PROVE ClaimExclusion
  BY <1>1, NoCallAssumption DEF IInv, KeysHeld, HoldsNonce, HoldsSig, Conflict, ClaimExclusion
<1>2. QED
  BY <1>1, Invariant, PTL

\* A call that did not accept leaves no nonce key of its own behind.
THEOREM FailureReleasesNonce == Spec => []NonceReleased
<1>1. ASSUME IInv PROVE NonceReleased
  BY <1>1, NoCallAssumption DEF IInv, NonceOwned, Place, HoldsNonce, NonceReleased
<1>2. QED
  BY <1>1, Invariant, PTL
=============================================================================
