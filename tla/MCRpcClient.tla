------------------------------ MODULE MCRpcClient ------------------------------
(***************************************************************************)
(* An instance of RpcClient for model checking.                            *)
(***************************************************************************)
EXTENDS RpcClient

===============================================================================
