--------------------------- MODULE MCControlLoop ---------------------------
(* Model-checking instances of ControlLoop; the bounds are in the cfgs. *)
EXTENDS ControlLoop

\* A device that was set up at its panel: 48.0 and 35.0 degrees, away.
MCBootDevice ==
    [r \in Registers |-> CASE r = "mode" -> 2 [] r = "dhw" -> 480 [] r = "heat" -> 350
                           [] r = "prio" -> 1 [] r = "occ" -> 0]

\* Knobs: off; targets just inside and outside the tolerance of the minimum;
\* the other priority.
MCPanelWrites ==
    {<<"mode", 0>>, <<"dhw", 405>>, <<"dhw", 600>>, <<"heat", 256>>, <<"prio", 0>>}
NoPanelWrites == {}

\* A save leaves the file as it was, empty, or without its last key, the mode.
MCPartialSaves == {NotOpened, 0, 3}
=============================================================================
