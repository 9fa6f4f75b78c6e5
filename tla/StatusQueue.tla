---------------------------- MODULE StatusQueue ----------------------------
(***************************************************************************)
(* StatusQueue (ControlLoop.hpp, ControlLoop.cpp) between the control      *)
(* thread, which publishes snapshots with push, and the web thread, whose  *)
(* status handler (WebServer.cpp) takes the newest one with latest.        *)
(*                                                                         *)
(* Snapshots are numbered from 1; 0 is the default-constructed one.  The   *)
(* three free-running counters are kept as naturals, and Word gives the    *)
(* value the program holds and compares.  An acquire load may return an    *)
(* older value of a counter, but none older than the thread read before    *)
(* or than what the release store it has seen makes visible.  A snapshot   *)
(* is a struct: its copies take two steps, and a copy that overlaps a      *)
(* write yields Torn.  StatusQueue::pop has no caller in the program.      *)
(***************************************************************************)
EXTENDS Naturals

CONSTANTS
    Capacity,   \* StatusQueue::CAPACITY (32 in the program)
    Modulus,    \* 2^32, the range of the counters
    MaxPush,    \* bound: snapshots published in a behaviour
    Torn        \* a snapshot half written or half read

ASSUME StatusQueueAssumption ==
    /\ Capacity \in Nat \ {0, 1}
    /\ Modulus \in Nat /\ Modulus > Capacity /\ Modulus % Capacity = 0
    /\ MaxPush \in Nat
    /\ Torn \notin 0 .. MaxPush

VARIABLES
    writeIndex, tail, head,     \* write_index_, tail_, head_, unreduced
    buf,                        \* buf_
    pushPc,                     \* the control thread's place in push
    readPc,                     \* the web thread's place in the status handler
    tailSeen, headSeen,         \* values of tail_ and head_ latest read last
    item,                       \* latest's copy of a snapshot
    lastStatus,                 \* last_status_, which every answer shows
    lapped                      \* a full lap of pushes began during some copy

counters == <<writeIndex, tail, head>>
reader == <<readPc, tailSeen, headSeen, item, lastStatus, lapped>>
vars == <<counters, buf, pushPc, reader>>

Slots == 0 .. Capacity - 1
Snapshots == 0 .. MaxPush
Word(n) == n % Modulus

\* A counter's difference in 32-bit arithmetic.
Minus(a, b) == (Word(a) + Modulus - Word(b)) % Modulus

\* Where snapshot k lives.
Slot(k) == Word(k - 1) % Capacity

Init ==
    /\ writeIndex = 0 /\ tail = 0 /\ head = 0
    /\ buf = [s \in Slots |-> 0]
    /\ pushPc = "idle" /\ readPc = "idle"
    /\ tailSeen = 0 /\ headSeen = 0
    /\ item = 0 /\ lastStatus = 0 /\ lapped = FALSE

-----------------------------------------------------------------------------
(* push: the control thread *)

\* write_index_.fetch_add, and the copy into the slot begins.
PushBegin ==
    /\ pushPc = "idle"
    /\ writeIndex < MaxPush
    /\ writeIndex' = writeIndex + 1
    /\ buf' = [buf EXCEPT ![Slot(writeIndex + 1)] = Torn]
    /\ pushPc' = "copying"
    /\ UNCHANGED <<tail, head, reader>>

PushCopyEnd ==
    /\ pushPc = "copying"
    /\ buf' = [buf EXCEPT ![Slot(writeIndex)] = writeIndex]
    /\ pushPc' = "copied"
    /\ UNCHANGED <<counters, reader>>

\* Mutant: the tail is stored before the copy into the slot has ended.
PushPublishEarly ==
    /\ pushPc \in {"copying", "copied"}
    /\ tail < writeIndex
    /\ tail' = writeIndex
    /\ pushPc' = IF pushPc = "copied" THEN "published" ELSE pushPc
    /\ UNCHANGED <<writeIndex, head, buf, reader>>

PushPublish ==
    /\ pushPc = "copied"
    /\ tail' = writeIndex
    /\ pushPc' = "published"
    /\ UNCHANGED <<writeIndex, head, buf, reader>>

\* Mutant: the head follows the tail without keeping any item.
PushAdvanceHeadFully ==
    /\ pushPc = "published"
    /\ head' = IF Minus(writeIndex, head) > Capacity - 1 THEN writeIndex ELSE head
    /\ pushPc' = "idle"
    /\ UNCHANGED <<writeIndex, tail, buf, reader>>

\* At most CAPACITY - 1 items are kept.
PushAdvanceHead ==
    /\ pushPc = "published"
    /\ head' = IF Minus(writeIndex, head) > Capacity - 1
                 THEN writeIndex - (Capacity - 1)
                 ELSE head
    /\ pushPc' = "idle"
    /\ UNCHANGED <<writeIndex, tail, buf, reader>>

-----------------------------------------------------------------------------
(* apiStatusHandler with latest: the web thread *)

LoadTail(t) ==
    /\ readPc = "idle"
    /\ t \in tailSeen .. tail
    /\ tailSeen' = t
    /\ readPc' = "head"
    /\ UNCHANGED <<counters, buf, pushPc, headSeen, item, lastStatus, lapped>>

\* The tail store of publication t makes the head of the publication before
\* it visible.
VisibleHead(t) == IF t > Capacity THEN t - Capacity ELSE 0

\* Returns false when the queue looks empty: last_status_ stays as it is and
\* is what the handler answers with.
LoadHead(h) ==
    /\ readPc = "head"
    /\ h \in headSeen .. head
    /\ h >= VisibleHead(tailSeen)
    /\ headSeen' = h
    /\ IF Word(h) >= Word(tailSeen)
         THEN readPc' = "empty" /\ UNCHANGED item
         ELSE readPc' = "copying" /\ item' = buf[Slot(tailSeen)]
    /\ UNCHANGED <<counters, buf, pushPc, tailSeen, lastStatus, lapped>>

\* The copy made by latest can only have been disturbed by the push that
\* comes round to the same slot.
Lapped == writeIndex >= tailSeen + Capacity

\* The copy ends: last_status_ = snapshot.
ReadCopyEnd ==
    /\ readPc = "copying"
    /\ item' = IF buf[Slot(tailSeen)] = item THEN item ELSE Torn
    /\ lastStatus' = item'
    /\ lapped' = (lapped \/ Lapped)
    /\ readPc' = "found"
    /\ UNCHANGED <<counters, buf, pushPc, tailSeen, headSeen>>

\* Mutant: an empty queue blanks what the page is shown.
AnswerBlank ==
    /\ readPc \in {"empty", "found"}
    /\ lastStatus' = IF readPc = "empty" THEN 0 ELSE lastStatus
    /\ readPc' = "idle"
    /\ UNCHANGED <<counters, buf, pushPc, tailSeen, headSeen, item, lapped>>

\* The reply is formatted from last_status_.
Answer ==
    /\ readPc \in {"empty", "found"}
    /\ readPc' = "idle"
    /\ UNCHANGED <<counters, buf, pushPc, tailSeen, headSeen, item, lastStatus, lapped>>

Pushing == PushBegin \/ PushCopyEnd \/ PushPublish \/ PushAdvanceHead
Reading ==
    \/ \E t \in Snapshots : LoadTail(t)
    \/ \E h \in Snapshots : LoadHead(h)
    \/ ReadCopyEnd \/ Answer

Next == Pushing \/ Reading

\* Both threads are scheduled, the page keeps polling, and what one thread
\* stored becomes visible to the other in the end.
Fairness ==
    /\ WF_vars(PushCopyEnd \/ PushPublish \/ PushAdvanceHead)
    /\ WF_vars(Reading)
    /\ SF_vars(LoadTail(tail))
    /\ SF_vars(LoadHead(head))

Spec == Init /\ [][Next]_vars /\ Fairness

-----------------------------------------------------------------------------
(* Properties *)

\* What latest hands to the status handler is exactly the snapshot that the
\* tail it loaded announces, whole, unless a full lap of pushes began since
\* (ControlLoop.cpp:82, no lock).
SnapshotWhole == readPc = "found" /\ ~Lapped => lastStatus = tailSeen

\* As long as no copy was lapped, what the page is shown never goes back to an
\* older snapshot, neither by a late view of the counters nor by an empty
\* result.
NeverBackwards ==
    [][~lapped' /\ lastStatus' # lastStatus => lastStatus' > lastStatus]_vars

\* The CAPACITY - 1 publications after tail_ wrapped, while head_ has not:
\* latest finds nothing.
Wrapping(k) == k >= Modulus /\ Word(k) < Capacity - 1

\* When no more is published, the page is shown the last snapshot and keeps
\* it, except just after the counters wrapped.
LatestShown ==
    \A k \in 1 .. MaxPush :
        ~Wrapping(k) => (<>[](tail = k /\ writeIndex = k) => <>[](lastStatus = k))
=============================================================================
