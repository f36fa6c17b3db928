------------------------ MODULE SettlementContract ------------------------
(***************************************************************************)
(* What POST /settle promises of a payment, whatever its calls, retries    *)
(* and failures: the buyer's funds move at most once; a receipt is issued  *)
(* at most once, never changes, and only after the funds moved; and every  *)
(* caller who is told the payment is confirmed is told the settlement the  *)
(* receipt names.                                                          *)
(*                                                                         *)
(* It is the contract the tests of src/tests/integration/                  *)
(* duplicate-payment.test.ts state case by case, and the one schema.prisma *)
(* supports with the UNIQUE request of payment_receipts.                   *)
(***************************************************************************)
CONSTANTS Requests, Settlements, NoSettlement

VARIABLES
  moved,      \* requests whose funds have moved on chain
  issued,     \* issued[r]: the settlement r's receipt names
  told        \* told[r]: settlements callers were told confirm r

vars == <<moved, issued, told>>

Init ==
  /\ moved = {}
  /\ issued = [r \in Requests |-> NoSettlement]
  /\ told = [r \in Requests |-> {}]

Move(r) ==
  /\ r \notin moved
  /\ moved' = moved \cup {r}
  /\ UNCHANGED <<issued, told>>

Issue(r, s) ==
  /\ r \in moved
  /\ issued[r] = NoSettlement
  /\ issued' = [issued EXCEPT ![r] = s]
  /\ UNCHANGED <<moved, told>>

Tell(r) ==
  /\ issued[r] # NoSettlement
  /\ told' = [told EXCEPT ![r] = @ \cup {issued[r]}]
  /\ UNCHANGED <<moved, issued>>

Next ==
  \E r \in Requests : \/ Move(r)
                      \/ \E s \in Settlements : Issue(r, s)
                      \/ Tell(r)

Spec == Init /\ [][Next]_vars
=============================================================================
