-------------------------- MODULE MCConfirmWorker --------------------------
(* ConfirmWorker with a few executions; no symmetry, since liveness is       *)
(* checked on it.                                                            *)
EXTENDS ConfirmWorker
=============================================================================
