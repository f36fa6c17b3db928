----------------------------- MODULE AntiReplay -----------------------------
(***************************************************************************)
(* claimNonceRedis, releaseNonceRedis and the keys they share              *)
(* (src/src/protocol/anti-replay.ts).  A payload carries the nonce of an   *)
(* ERC-3009 authorization and a signature; each has a Redis key.  The two  *)
(* SETs of a claim and the two DELs of a release are sent together but     *)
(* Redis runs other clients' commands between them, so each is a step.     *)
(*                                                                         *)
(* A nonce and a signature are the strings the client wrote: the parser    *)
(* admits hex digits of either case, and the keys and the UNIQUE columns   *)
(* hold them as they are.  Two spellings of one bytes32 are two nonces.    *)
(*                                                                         *)
(* A key holds the string '1'; the model also keeps which call set it, for *)
(* the properties only (a guard only asks whether it is set).              *)
(***************************************************************************)
CONSTANTS
  Calls,      \* executions of the verify handler; a requestId is its call
  Nonces,     \* nonces, as strings: compared by spelling
  Signatures, \* signatures, likewise
  NoCall      \* a key that is not set

ASSUME NoCallAssumption == NoCall \notin Calls

VARIABLES
  payload,    \* payload[c]: the nonce and signature call c carries
  claim,      \* claim[c]: where c's claim or release stands
  nonceKey,   \* nonceKey[n]: the key nonce:<n> and who set it
  sigKey      \* sigKey[s]: the key sig:<s> and who set it

replayVars == <<payload, claim, nonceKey, sigKey>>

Payloads == [nonce : Nonces, sig : Signatures]

\* nonce: both SETs are to come.  sig, sigOnly: the nonce was free, was taken.
\* undo: the nonce just claimed is to be deleted.  freeNonce, freeSig: release.
ClaimSteps == {"idle", "nonce", "sig", "sigOnly", "undo", "won", "lost",
               "freeNonce", "freeSig", "freed"}

ReplayTypeOK ==
  /\ payload \in [Calls -> Payloads]
  /\ claim \in [Calls -> ClaimSteps]
  /\ nonceKey \in [Nonces -> Calls \cup {NoCall}]
  /\ sigKey \in [Signatures -> Calls \cup {NoCall}]

\* A call's payload is whatever its client sent.
ReplayInit ==
  /\ payload \in [Calls -> Payloads]
  /\ claim = [c \in Calls |-> "idle"]
  /\ nonceKey = [n \in Nonces |-> NoCall]
  /\ sigKey = [s \in Signatures |-> NoCall]

-----------------------------------------------------------------------------
Nonce(c) == payload[c].nonce
Sig(c) == payload[c].sig

\* Two calls carry the same nonce or the same signature, letter for letter.
Conflict(c, d) == Nonce(c) = Nonce(d) \/ Sig(c) = Sig(d)

ClaimAt(c, step) == claim' = [claim EXCEPT ![c] = step]

SetNonce(c) == nonceKey' = [nonceKey EXCEPT ![Nonce(c)] = IF @ = NoCall THEN c ELSE @]
SetSig(c) == sigKey' = [sigKey EXCEPT ![Sig(c)] = IF @ = NoCall THEN c ELSE @]
DelNonce(c) == nonceKey' = [nonceKey EXCEPT ![Nonce(c)] = NoCall]
DelSig(c) == sigKey' = [sigKey EXCEPT ![Sig(c)] = NoCall]

\* SET nonce:<n> 1 EX 172800 NX.
ClaimNonce(c) ==
  /\ claim[c] = "nonce"
  /\ SetNonce(c)
  /\ ClaimAt(c, IF nonceKey[Nonce(c)] = NoCall THEN "sig" ELSE "sigOnly")
  /\ UNCHANGED <<payload, sigKey>>

\* Faulty variant: with the signature taken, the nonce is not given back.
ClaimSigKeepingNonce(c) ==
  /\ claim[c] \in {"sig", "sigOnly"}
  /\ SetSig(c)
  /\ ClaimAt(c, IF claim[c] = "sig" /\ sigKey[Sig(c)] = NoCall THEN "won" ELSE "lost")
  /\ UNCHANGED <<payload, nonceKey>>

\* SET sig:<s> 1 EX 172800 NX, sent with the first SET whatever that returns:
\* a call that lost the nonce leaves the signature's key set.
ClaimSig(c) ==
  /\ claim[c] \in {"sig", "sigOnly"}
  /\ SetSig(c)
  /\ ClaimAt(c, CASE claim[c] = "sigOnly" -> "lost"
                  [] claim[c] = "sig" /\ sigKey[Sig(c)] # NoCall -> "undo"
                  [] OTHER -> "won")
  /\ UNCHANGED <<payload, nonceKey>>

\* Faulty variant: the undo releases the signature's key with the nonce's.
UndoBoth(c) ==
  /\ claim[c] = "undo"
  /\ DelNonce(c) /\ DelSig(c)
  /\ ClaimAt(c, "lost")
  /\ UNCHANGED payload

UndoNonce(c) ==
  /\ claim[c] = "undo"
  /\ DelNonce(c)
  /\ ClaimAt(c, "lost")
  /\ UNCHANGED <<payload, sigKey>>

ReleaseNonce(c) ==
  /\ claim[c] = "freeNonce"
  /\ DelNonce(c)
  /\ ClaimAt(c, "freeSig")
  /\ UNCHANGED <<payload, sigKey>>

ReleaseSig(c) ==
  /\ claim[c] = "freeSig"
  /\ DelSig(c)
  /\ ClaimAt(c, "freed")
  /\ UNCHANGED <<payload, nonceKey>>

ReplayStep(c) ==
  ClaimNonce(c) \/ ClaimSig(c) \/ UndoNonce(c) \/ ReleaseNonce(c) \/ ReleaseSig(c)

\* Redis reports an error for a command it may have executed; the other
\* command of the pair runs all the same.
ReplayThrows(c) ==
  /\ \/ /\ claim[c] = "nonce"
        /\ SetNonce(c) \/ UNCHANGED nonceKey
        /\ SetSig(c) \/ UNCHANGED sigKey
     \/ /\ claim[c] \in {"sig", "sigOnly"}
        /\ SetSig(c) \/ UNCHANGED sigKey
        /\ UNCHANGED nonceKey
     \/ /\ claim[c] \in {"undo", "freeNonce"}
        /\ DelNonce(c) \/ UNCHANGED nonceKey
        /\ (claim[c] = "freeNonce" /\ DelSig(c)) \/ UNCHANGED sigKey
     \/ /\ claim[c] = "freeSig"
        /\ DelSig(c) \/ UNCHANGED sigKey
        /\ UNCHANGED nonceKey
  /\ ClaimAt(c, "idle")
  /\ UNCHANGED payload

\* The 48 h TTL of a key runs out, or a Redis flush or restart loses it.
NonceKeyLost(n) ==
  /\ nonceKey[n] # NoCall
  /\ nonceKey' = [nonceKey EXCEPT ![n] = NoCall]
  /\ UNCHANGED <<payload, claim, sigKey>>

SigKeyLost(s) ==
  /\ sigKey[s] # NoCall
  /\ sigKey' = [sigKey EXCEPT ![s] = NoCall]
  /\ UNCHANGED <<payload, claim, nonceKey>>
=============================================================================
