---------------------------- MODULE MCDiPayment ----------------------------
(* DiPayment on small sets of calls, requests and payloads. *)
EXTENDS DiPayment, TLC

CONSTANTS n1, N1, n2, s1, s2

\* N1 is another spelling of the nonce n1; n2 is another nonce.
LowerCase == n1 :> n1 @@ N1 :> n1 @@ n2 :> n2

\* Two signatures s1, s2 of the buyer over the nonce n1.
GenuinePayloads == [nonce : {n1, N1}, sig : {s1, s2}]

Symmetry == Permutations(Calls) \cup Permutations(Requests)
=============================================================================
