------------------------------- MODULE MCGateway -------------------------------
(***************************************************************************)
(* An instance of Gateway for model checking.                              *)
(***************************************************************************)
EXTENDS Gateway, TLC

Symmetry == Permutations(Requests) \cup Permutations(Sellers)

===============================================================================
