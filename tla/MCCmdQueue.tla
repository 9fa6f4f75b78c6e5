----------------------------- MODULE MCCmdQueue -----------------------------
(* Model-checking instance of CmdQueue; the values are in MCCmdQueue.cfg. *)
EXTENDS CmdQueue
=============================================================================
