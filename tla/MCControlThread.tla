-------------------------- MODULE MCControlThread --------------------------
(* Model-checking instances of ControlThread; the values are in the cfgs. *)
EXTENDS ControlThread
=============================================================================
