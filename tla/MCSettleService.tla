-------------------------- MODULE MCSettleService --------------------------
(* SettleService on small sets of calls. *)
EXTENDS SettleService, TLC

Symmetry == Permutations(Calls)
=============================================================================
