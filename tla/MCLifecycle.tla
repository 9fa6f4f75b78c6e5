---------------------------- MODULE MCLifecycle ----------------------------
(* Model-checking instance of Lifecycle; the bounds are in the cfg. *)
EXTENDS Lifecycle

Line(f, c, s) == [force |-> f, client |-> c, selftest |-> s]

\* Each client in normal operation, one of them with --force, and a self-test.
MCCommandLines ==
    {Line(TRUE, "tcp", FALSE), Line(FALSE, "serial", FALSE),
     Line(FALSE, "demo", FALSE), Line(FALSE, "tcp", TRUE)}
=============================================================================
