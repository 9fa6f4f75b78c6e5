------------------------------ MODULE CmdQueue ------------------------------
(***************************************************************************)
(* CmdQueue (ControlLoop.hpp, ControlLoop.cpp): the single-producer       *)
(* single-consumer ring through which the web server's thread hands       *)
(* commands to the control thread without a lock.                         *)
(*                                                                         *)
(* Every shared access is a step of its own.  The loads of the other      *)
(* thread's index are acquire loads that may return a value older than    *)
(* the newest one, though never older than one the same thread already    *)
(* read: headSeen and tailSeen hold the value last read.  A Command is a  *)
(* struct, so its copies into and out of the ring take two steps, and a   *)
(* copy that overlaps a write of its slot (a data race) yields Torn.      *)
(***************************************************************************)
EXTENDS Naturals

CONSTANTS
    Command,    \* the commands the web handlers push
    Capacity,   \* CmdQueue::CAPACITY (16 in the program)
    Nothing,    \* content of a slot or variable not written yet
    Torn        \* content of a slot or variable half written

ASSUME CmdQueueAssumption ==
    /\ Capacity \in Nat \ {0, 1}
    /\ Nothing \notin Command
    /\ Torn \notin Command
    /\ Torn # Nothing

VARIABLES
    head, tail,             \* the two atomic indices
    buf,                    \* buf_
    pushPc, pushCmd,        \* the producer's place in push and its argument
    headSeen,               \* value of head the producer read last
    popPc, popCmd,          \* the consumer's place in pop and its local copy
    tailSeen,               \* value of tail the consumer read last
    out                     \* what pop handed to its caller last

producer == <<pushPc, pushCmd, headSeen>>
consumer == <<popPc, popCmd, tailSeen, out>>
vars == <<head, tail, buf, pushPc, pushCmd, headSeen, popPc, popCmd, tailSeen, out>>

Slots == 0 .. Capacity - 1
Values == Command \cup {Nothing, Torn}

\* Mutant: the index is never wrapped.
SuccNoWrap(i) == i + 1

\* (i + 1) % CAPACITY
Succ(i) == (i + 1) % Capacity

\* How many steps along the ring lead from index h to index t.
Dist(h, t) == IF h <= t THEN t - h ELSE t - h + Capacity

\* The values an acquire load may return: from the one read last, seen, up
\* to the newest one in the index's modification order.
Loads(seen, newest) == {i \in Slots : Dist(seen, i) <= Dist(seen, newest)}

Init ==
    /\ head = 0 /\ tail = 0
    /\ buf = [i \in Slots |-> Nothing]
    /\ pushPc = "idle" /\ pushCmd = Nothing /\ headSeen = 0
    /\ popPc = "idle" /\ popCmd = Nothing /\ tailSeen = 0 /\ out = Nothing

-----------------------------------------------------------------------------
(* push: the thread that polls the web server *)

\* Mutant: push without its full test.
PushCheckNeverFull(c) ==
    /\ pushPc = "idle"
    /\ headSeen' \in Loads(headSeen, head)
    /\ pushPc' = "checked" /\ pushCmd' = c
    /\ UNCHANGED <<head, tail, buf, consumer>>

\* push(cmd) reads head_ and returns false when the ring looks full.
PushCheck(c) ==
    /\ pushPc = "idle"
    /\ \E h \in Loads(headSeen, head) :
        /\ headSeen' = h
        /\ IF Succ(tail) = h
             THEN UNCHANGED <<pushPc, pushCmd>>
             ELSE pushPc' = "checked" /\ pushCmd' = c
    /\ UNCHANGED <<head, tail, buf, consumer>>

\* buf_[current_tail] = cmd begins ...
PushCopyBegin ==
    /\ pushPc = "checked"
    /\ pushPc' = "copying"
    /\ buf' = [buf EXCEPT ![tail] = Torn]
    /\ UNCHANGED <<head, tail, pushCmd, headSeen, consumer>>

\* ... and is complete.
PushCopyEnd ==
    /\ pushPc = "copying"
    /\ pushPc' = "copied"
    /\ buf' = [buf EXCEPT ![tail] = pushCmd]
    /\ UNCHANGED <<head, tail, pushCmd, headSeen, consumer>>

\* tail_.store(next_tail), return true.
PushPublish ==
    /\ pushPc = "copied"
    /\ pushPc' = "idle"
    /\ tail' = Succ(tail)
    /\ UNCHANGED <<head, buf, pushCmd, headSeen, consumer>>

-----------------------------------------------------------------------------
(* pop and empty: the control thread *)

\* Mutant: pop without its empty test.
PopCheckNeverEmpty ==
    /\ popPc = "idle"
    /\ tailSeen' \in Loads(tailSeen, tail)
    /\ popPc' = "checked"
    /\ UNCHANGED <<head, tail, buf, popCmd, out, producer>>

\* pop reads tail_ and returns false when the ring looks empty.
PopCheck ==
    /\ popPc = "idle"
    /\ \E t \in Loads(tailSeen, tail) :
        /\ tailSeen' = t
        /\ popPc' = IF head = t THEN "idle" ELSE "checked"
    /\ UNCHANGED <<head, tail, buf, popCmd, out, producer>>

\* Mutant: the slot is released before the command is copied out of it.
PopReleaseBeforeCopy ==
    /\ popPc = "checked"
    /\ popPc' = "idle"
    /\ head' = Succ(head)
    /\ popCmd' = Nothing /\ out' = buf[Succ(head)]
    /\ UNCHANGED <<tail, buf, tailSeen, producer>>

\* cmd = buf_[current_head] begins ...
PopCopyBegin ==
    /\ popPc = "checked"
    /\ popPc' = "copying"
    /\ popCmd' = buf[head]
    /\ UNCHANGED <<head, tail, buf, tailSeen, out, producer>>

\* ... and is complete; it is torn when the slot changed meanwhile.
PopCopyEnd ==
    /\ popPc = "copying"
    /\ popPc' = "copied"
    /\ popCmd' = IF buf[head] = popCmd THEN popCmd ELSE Torn
    /\ UNCHANGED <<head, tail, buf, tailSeen, out, producer>>

\* head_.store(next head), return true with the command.
PopRelease ==
    /\ popPc = "copied"
    /\ popPc' = "idle"
    /\ head' = Succ(head)
    /\ out' = popCmd
    /\ UNCHANGED <<tail, buf, popCmd, tailSeen, producer>>

\* empty(), the clause of the control thread's wait predicate.
Empty ==
    /\ popPc = "idle"
    /\ tailSeen' \in Loads(tailSeen, tail)
    /\ UNCHANGED <<head, tail, buf, popPc, popCmd, out, producer>>

Push == (\E c \in Command : PushCheck(c)) \/ PushCopyBegin \/ PushCopyEnd \/ PushPublish
Pop == PopCheck \/ PopCopyBegin \/ PopCopyEnd \/ PopRelease

Next == Push \/ Pop \/ Empty

Spec == Init /\ [][Next]_vars

-----------------------------------------------------------------------------
(* Properties *)

TypeOK ==
    /\ head \in Slots /\ tail \in Slots /\ headSeen \in Slots /\ tailSeen \in Slots
    /\ buf \in [Slots -> Values]
    /\ pushPc \in {"idle", "checked", "copying", "copied"}
    /\ popPc \in {"idle", "checked", "copying", "copied"}
    /\ pushCmd \in Command \cup {Nothing}
    /\ popCmd \in Values /\ out \in Values

\* The four indices keep their cyclic order headSeen, head, tailSeen, tail,
\* so that each thread's stale view of the other errs on the safe side (the
\* producer sees a fuller ring, the consumer an emptier one), and the ring
\* never holds Capacity commands, which would look like none.
RingOrder ==
    /\ Dist(headSeen, head) + Dist(head, tailSeen) + Dist(tailSeen, tail)
         <= Capacity - 1
    /\ pushPc # "idle" => Succ(tail) # headSeen
    /\ popPc # "idle" => head # tailSeen

\* The slot push is writing and the slot pop is copying are never the same
\* one: the unsynchronised struct copies are free of data races.
NoSlotRace ==
    ~ (/\ pushPc \in {"checked", "copying", "copied"}
       /\ popPc \in {"checked", "copying", "copied"}
       /\ head = tail)

\* The pending commands as a sequence: the abstraction function.
Wrap(i) == IF i < Capacity THEN i ELSE i - Capacity
Pending == [i \in 1 .. Dist(head, tail) |-> buf[Wrap(head + i - 1)]]

Fifo == INSTANCE BoundedFifo WITH items <- Pending, Bound <- Capacity - 1

\* The ring implements a first-in first-out queue of Capacity - 1 commands:
\* no accepted command is lost, duplicated, torn or reordered, whatever the
\* interleaving and however stale the indices the two threads read.
ImplementsFifo == Fifo!Spec
=============================================================================
