---------------------------- MODULE MCStatusQueue ----------------------------
(* Model-checking instance of StatusQueue; the bounds are in the cfg. *)
EXTENDS StatusQueue
=============================================================================
