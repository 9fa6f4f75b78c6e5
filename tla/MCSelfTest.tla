----------------------------- MODULE MCSelfTest -----------------------------
(* Model-checking instance of SelfTest; the bounds are in the cfg. *)
EXTENDS SelfTest
=============================================================================
