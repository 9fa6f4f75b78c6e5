----------------------------- MODULE MCWebPage -----------------------------
(* Model-checking instance of WebPage; the bounds are in the cfg. *)
EXTENDS WebPage

\* Another client asks for heating priority.
MCOtherCommands == {[type |-> "prio", value |-> "heating"]}
=============================================================================
