-------------------------- MODULE MCServiceClient --------------------------
(***************************************************************************)
(* ServiceClient on small instances: the constants are given in the .cfg.   *)
(***************************************************************************)
EXTENDS ServiceClient
=============================================================================
