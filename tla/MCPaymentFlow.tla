--------------------------- MODULE MCPaymentFlow ---------------------------
(* PaymentFlow with presenters of every kind, and the calls they make. *)
EXTENDS PaymentFlow, TLC

Symmetry == Permutations(Presenters)
=============================================================================
