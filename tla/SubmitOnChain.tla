--------------------------- MODULE SubmitOnChain ---------------------------
(***************************************************************************)
(* submitOnChain (src/src/settlement/on-chain.ts): one settle call tries   *)
(* the primary RPC, then the fallback.  Each try broadcasts an ERC-3009    *)
(* transferWithAuthorization and waits at most 30 s for its receipt; every *)
(* error moves on to the next RPC, and the last one is thrown.             *)
(*                                                                         *)
(* The chain is outside the repository.  It is modelled by what the code   *)
(* relies on: a broadcast transaction may be mined at any later time or    *)
(* never, and the token contract lets an authorization succeed once.  A    *)
(* payment request has one accepted verification, hence one authorization  *)
(* nonce, so the authorization a call submits is named by its request.     *)
(***************************************************************************)
EXTENDS Integers

CONSTANTS
  Calls,      \* executions of the settle handler; a settlement id is its call
  Requests,   \* payment requests (requestId)
  NoRequest,  \* the request of a call that has not arrived
  Rpcs        \* how many RPC URLs are configured: primary, then fallback

ASSUME NoRequestAssumption == NoRequest \notin Requests
ASSUME RpcsAssumption == Rpcs \in Nat \ {0}

VARIABLES
  req,        \* req[c]: the request call c settles
  leg,        \* leg[c]: where c's submitOnChain stands
  attempt,    \* attempt[c]: index of the RPC being tried
  tx          \* tx[c][i]: the transaction c broadcast through RPC i

chainVars == <<req, leg, attempt, tx>>

Attempts == 1..Rpcs
Legs == {"idle", "write", "wait", "ok", "threw"}
TxStatus == {"none", "pending", "success", "reverted"}

ChainTypeOK ==
  /\ req \in [Calls -> Requests \cup {NoRequest}]
  /\ leg \in [Calls -> Legs]
  /\ attempt \in [Calls -> Attempts]
  /\ tx \in [Calls -> [Attempts -> TxStatus]]

ChainInit ==
  /\ req = [c \in Calls |-> NoRequest]
  /\ leg = [c \in Calls |-> "idle"]
  /\ attempt = [c \in Calls |-> 1]
  /\ tx = [c \in Calls |-> [i \in Attempts |-> "none"]]

-----------------------------------------------------------------------------
(* What the chain and the calls know of each other. *)

\* The authorization of request r has moved the buyer's funds.
Transferred(r) ==
  \E c \in Calls, i \in Attempts : req[c] = r /\ tx[c][i] = "success"

\* Call c handed a transaction to some RPC.
Submitted(c) == \E i \in Attempts : tx[c][i] # "none"

-----------------------------------------------------------------------------
(* The steps of submitOnChain. *)

\* The for loop's catch: go on with the next RPC, or throw the last error.
NextRpc(c) ==
  IF attempt[c] < Rpcs
  THEN /\ attempt' = [attempt EXCEPT ![c] = @ + 1]
       /\ leg' = [leg EXCEPT ![c] = "write"]
  ELSE /\ leg' = [leg EXCEPT ![c] = "threw"]
       /\ UNCHANGED attempt

Broadcast(c) == tx' = [tx EXCEPT ![c][attempt[c]] = "pending"]

\* writeContract resolves with the transaction hash.
WriteOk(c) ==
  /\ leg[c] = "write"
  /\ Broadcast(c)
  /\ leg' = [leg EXCEPT ![c] = "wait"]
  /\ UNCHANGED <<req, attempt>>

\* writeContract rejects: the RPC refused, or the http timeout and its retries
\* ran out.  In the second case the node may have the transaction all the same.
WriteFails(c) ==
  /\ leg[c] = "write"
  /\ Broadcast(c) \/ UNCHANGED tx
  /\ NextRpc(c)
  /\ UNCHANGED req

\* Faulty variant: the reverted status of the receipt is not looked at.
ReceiptOfAnyStatus(c) ==
  /\ leg[c] = "wait"
  /\ tx[c][attempt[c]] \in {"success", "reverted"}
  /\ leg' = [leg EXCEPT ![c] = "ok"]
  /\ UNCHANGED <<req, attempt, tx>>

\* waitForTransactionReceipt returns a receipt whose status is success.
ReceiptOk(c) ==
  /\ leg[c] = "wait"
  /\ tx[c][attempt[c]] = "success"
  /\ leg' = [leg EXCEPT ![c] = "ok"]
  /\ UNCHANGED <<req, attempt, tx>>

\* The receipt says reverted, or none came within 30 s, or the RPC failed: a
\* mined transaction can be missed as well as a pending one.
ReceiptFails(c) ==
  /\ leg[c] = "wait"
  /\ NextRpc(c)
  /\ UNCHANGED <<req, tx>>

SubmitStep(c) == WriteOk(c) \/ WriteFails(c) \/ ReceiptOk(c) \/ ReceiptFails(c)

-----------------------------------------------------------------------------
(* The chain. *)

\* A pending transaction is mined.  It succeeds only while the authorization
\* is unused; it may revert for a reason of its own (expiry, balance).
Mine(c, i) ==
  /\ tx[c][i] = "pending"
  /\ \/ /\ ~Transferred(req[c])
        /\ tx' = [tx EXCEPT ![c][i] = "success"]
     \/ tx' = [tx EXCEPT ![c][i] = "reverted"]
  /\ UNCHANGED <<req, leg, attempt>>
=============================================================================
