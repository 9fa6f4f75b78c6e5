----------------------------- MODULE BoundedFifo -----------------------------
(***************************************************************************)
(* What the command queue promises its two users: a first-in first-out    *)
(* queue of at most Bound commands.  A push either appends its command or *)
(* is refused (a step that changes nothing here); a pop hands over the    *)
(* oldest command exactly once.                                           *)
(***************************************************************************)
EXTENDS Naturals, Sequences

CONSTANTS
    Command,    \* the commands that can be queued
    Bound,      \* how many commands can be pending
    Nothing     \* the consumer's variable before its first pop

VARIABLES
    items,      \* the pending commands, oldest first
    out         \* the last command handed to the consumer

vars == <<items, out>>

Init ==
    /\ items = <<>>
    /\ out = Nothing

Put(c) ==
    /\ Len(items) < Bound
    /\ items' = Append(items, c)
    /\ UNCHANGED out

Take ==
    /\ items # <<>>
    /\ out' = Head(items)
    /\ items' = Tail(items)

Next == (\E c \in Command : Put(c)) \/ Take

Spec == Init /\ [][Next]_vars
=============================================================================
