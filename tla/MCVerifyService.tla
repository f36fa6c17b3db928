-------------------------- MODULE MCVerifyService --------------------------
(* VerifyService on small sets of calls and payloads. *)
EXTENDS VerifyService, TLC

CONSTANTS n1, n2, s1, s2

\* Two encodings s1, s2 of the buyer's signature over the nonce n1.
GenuinePayloads == {[nonce |-> n1, sig |-> s1], [nonce |-> n1, sig |-> s2]}

\* s1 only: an attempt with s2 is not the buyer's.
OneGenuine == {[nonce |-> n1, sig |-> s1]}

Symmetry == Permutations(Calls)
=============================================================================
