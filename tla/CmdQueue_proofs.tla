--------------------------- MODULE CmdQueue_proofs ---------------------------
(***************************************************************************)
(* Proofs about CmdQueue, for every capacity of at least two and every    *)
(* set of commands.  The inductive invariant is the cyclic order of the   *)
(* four indices (RingOrder) together with what the threads' local copies  *)
(* hold between two of their steps (Copies).                              *)
(***************************************************************************)
EXTENDS CmdQueue, TLAPS, SequenceTheorems

\* What each thread knows of the slot it works on between two of its steps.
Copies ==
    /\ pushPc # "idle" => pushCmd \in Command
    /\ pushPc = "copied" => buf[tail] = pushCmd
    /\ popPc \in {"copying", "copied"} => popCmd = buf[head]

Inv == TypeOK /\ RingOrder /\ Copies

-----------------------------------------------------------------------------
(* Arithmetic on the ring *)

\* The successor of a ring index, without the modulus.
LEMMA SuccValue ==
    ASSUME NEW i \in Slots
    PROVE  /\ Succ(i) = IF i + 1 = Capacity THEN 0 ELSE i + 1
           /\ Succ(i) \in Slots
  <1>1. Capacity \in Nat /\ Capacity > 1
    BY CmdQueueAssumption
  <1>2. CASE i + 1 = Capacity
    <2>1. Succ(i) = Capacity % Capacity
      BY <1>2 DEF Succ
    <2>2. Capacity % Capacity = 0
      BY <1>1
    <2> QED
      BY <1>1, <1>2, <2>1, <2>2 DEF Slots
  <1>3. CASE i + 1 # Capacity
    <2>1. i + 1 \in 0 .. Capacity - 1
      BY <1>1, <1>3 DEF Slots
    <2>2. (i + 1) % Capacity = i + 1
      BY <1>1, <2>1
    <2> QED
      BY <1>1, <1>3, <2>1, <2>2 DEF Succ, Slots
  <1> QED
    BY <1>2, <1>3

\* Moving the end of an interval of the ring one slot on lengthens it by
\* one, unless the interval already covers all slots but one.
LEMMA DistForward ==
    ASSUME NEW h \in Slots, NEW t \in Slots
    PROVE  /\ Dist(h, t) \in 0 .. Capacity - 1
           /\ (Dist(h, t) < Capacity - 1) => Dist(h, Succ(t)) = Dist(h, t) + 1
           /\ (Succ(t) = h) <=> (Dist(h, t) = Capacity - 1)
  <1>1. Capacity \in Nat /\ Capacity > 1
    BY CmdQueueAssumption
  <1> QED
    BY <1>1, SuccValue DEF Dist, Slots

\* Moving the start of a nonempty interval of the ring one slot on shortens
\* it by one.
LEMMA DistShrink ==
    ASSUME NEW h \in Slots, NEW t \in Slots, h # t
    PROVE  Dist(Succ(h), t) = Dist(h, t) - 1
  <1>1. Capacity \in Nat /\ Capacity > 1
    BY CmdQueueAssumption
  <1> QED
    BY <1>1, SuccValue DEF Dist, Slots

\* A value that a load may return splits the way to the newest value.
LEMMA LoadSplits ==
    ASSUME NEW a \in Slots, NEW b \in Slots, NEW c \in Loads(a, b)
    PROVE  /\ c \in Slots
           /\ Dist(c, b) = Dist(a, b) - Dist(a, c)
           /\ Dist(a, c) \in 0 .. Capacity - 1
  <1>1. Capacity \in Nat /\ Capacity > 1
    BY CmdQueueAssumption
  <1> QED
    BY <1>1 DEF Dist, Slots, Loads

\* Two adjacent intervals that together are shorter than the ring add up.
LEMMA DistAdds ==
    ASSUME NEW a \in Slots, NEW b \in Slots, NEW c \in Slots,
           Dist(a, b) + Dist(b, c) <= Capacity - 1
    PROVE  Dist(a, c) = Dist(a, b) + Dist(b, c)
  <1>1. Capacity \in Nat /\ Capacity > 1
    BY CmdQueueAssumption
  <1> QED
    BY <1>1 DEF Dist, Slots

-----------------------------------------------------------------------------
(* The inductive invariant *)

\* The constructor establishes the invariant.
LEMMA InitInv == Init => Inv
  <1>1. Capacity \in Nat /\ Capacity > 1
    BY CmdQueueAssumption
  <1> QED
    BY <1>1 DEF Init, Inv, TypeOK, RingOrder, Copies, Dist, Slots, Values

\* Every step of either thread keeps the invariant.
LEMMA NextInv == Inv /\ [Next]_vars => Inv'
  <1> SUFFICES ASSUME Inv, [Next]_vars
               PROVE  Inv'
    OBVIOUS
  <1> USE DEF Inv
  <1>0. /\ Capacity \in Nat /\ Capacity > 1
        /\ \A i \in Slots : Succ(i) \in Slots
    BY CmdQueueAssumption, SuccValue
  <1>a. /\ Dist(headSeen, head) \in 0 .. Capacity - 1
        /\ Dist(head, tailSeen) \in 0 .. Capacity - 1
        /\ Dist(tailSeen, tail) \in 0 .. Capacity - 1
    BY DistForward DEF TypeOK
  <1>b. /\ Dist(head, tail) = Dist(head, tailSeen) + Dist(tailSeen, tail)
        /\ Dist(headSeen, tail) = Dist(headSeen, head) + Dist(head, tail)
    <2>1. Dist(head, tailSeen) + Dist(tailSeen, tail) <= Capacity - 1
      BY <1>0, <1>a DEF RingOrder
    <2>2. Dist(head, tail) = Dist(head, tailSeen) + Dist(tailSeen, tail)
      BY <2>1, DistAdds DEF TypeOK
    <2>3. Dist(headSeen, head) + Dist(head, tail) <= Capacity - 1
      BY <1>0, <1>a, <2>2 DEF RingOrder
    <2> QED
      BY <2>2, <2>3, DistAdds DEF TypeOK
  <1>c. \A a, b \in Slots : (a = b) <=> (Dist(a, b) = 0)
    BY <1>0 DEF Dist, Slots
  <1>1. ASSUME NEW c \in Command, PushCheck(c)
        PROVE  Inv'
    <2>1. PICK h \in Loads(headSeen, head) :
            /\ headSeen' = h
            /\ IF Succ(tail) = h
                 THEN UNCHANGED <<pushPc, pushCmd>>
                 ELSE pushPc' = "checked" /\ pushCmd' = c
      BY <1>1 DEF PushCheck
    <2>2. /\ pushPc = "idle"
          /\ UNCHANGED <<head, tail, buf, popPc, popCmd, tailSeen, out>>
      BY <1>1 DEF PushCheck, consumer
    <2>3. /\ h \in Slots
          /\ Dist(h, head) = Dist(headSeen, head) - Dist(headSeen, h)
          /\ Dist(headSeen, h) \in 0 .. Capacity - 1
      BY LoadSplits DEF TypeOK
    <2>4. TypeOK'
      BY <2>1, <2>2, <2>3 DEF TypeOK
    <2>5. RingOrder'
      BY <1>0, <1>a, <2>1, <2>2, <2>3 DEF RingOrder
    <2>6. Copies'
      BY <2>1, <2>2 DEF Copies
    <2> QED
      BY <2>4, <2>5, <2>6
  <1>2. CASE PushCopyBegin
    <2>1. popPc # "idle" => head # tail
      BY <1>0, <1>a, <1>b, <1>c DEF RingOrder, TypeOK
    <2>2. TypeOK'
      BY <1>2 DEF PushCopyBegin, consumer, TypeOK, Values
    <2>3. RingOrder'
      BY <1>2 DEF PushCopyBegin, consumer, RingOrder
    <2>4. Copies'
      BY <1>2, <2>1 DEF PushCopyBegin, consumer, Copies, TypeOK
    <2> QED
      BY <2>2, <2>3, <2>4
  <1>3. CASE PushCopyEnd
    <2>1. popPc # "idle" => head # tail
      BY <1>0, <1>a, <1>b, <1>c DEF RingOrder, TypeOK
    <2>2. TypeOK'
      BY <1>3 DEF PushCopyEnd, consumer, TypeOK, Values, Copies
    <2>3. RingOrder'
      BY <1>3 DEF PushCopyEnd, consumer, RingOrder
    <2>4. Copies'
      BY <1>3, <2>1 DEF PushCopyEnd, consumer, Copies, TypeOK
    <2> QED
      BY <2>2, <2>3, <2>4
  <1>4. CASE PushPublish
    <2>1. Dist(headSeen, tail) < Capacity - 1
      BY <1>0, <1>4, <1>a, <1>b, DistForward DEF PushPublish, RingOrder, TypeOK
    <2>2. Dist(tailSeen, Succ(tail)) = Dist(tailSeen, tail) + 1
      BY <1>0, <1>a, <1>b, <2>1, DistForward DEF TypeOK
    <2>3. TypeOK'
      BY <1>0, <1>4 DEF PushPublish, consumer, TypeOK
    <2>4. RingOrder'
      BY <1>0, <1>4, <1>a, <1>b, <2>1, <2>2 DEF PushPublish, consumer, RingOrder
    <2>5. Copies'
      BY <1>4 DEF PushPublish, consumer, Copies
    <2> QED
      BY <2>3, <2>4, <2>5
  <1>5. CASE PopCheck \/ Empty
    <2>1. PICK t \in Loads(tailSeen, tail) :
            /\ tailSeen' = t
            /\ popPc' = "idle" \/ (popPc' = "checked" /\ head # t)
      BY <1>5 DEF PopCheck, Empty
    <2>2. UNCHANGED <<head, tail, buf, popCmd, out, pushPc, pushCmd, headSeen>>
      BY <1>5 DEF PopCheck, Empty, producer
    <2>3. /\ t \in Slots
          /\ Dist(t, tail) = Dist(tailSeen, tail) - Dist(tailSeen, t)
          /\ Dist(tailSeen, t) \in 0 .. Capacity - 1
          /\ Dist(tailSeen, t) <= Dist(tailSeen, tail)
      BY LoadSplits DEF TypeOK, Loads
    <2>4. Dist(head, t) = Dist(head, tailSeen) + Dist(tailSeen, t)
      <3>1. Dist(head, tailSeen) + Dist(tailSeen, t) <= Capacity - 1
        BY <1>0, <1>a, <2>3 DEF RingOrder
      <3> QED
        BY <2>3, <3>1, DistAdds DEF TypeOK
    <2>5. TypeOK'
      BY <2>1, <2>2, <2>3 DEF TypeOK
    <2>6. RingOrder'
      BY <1>0, <1>a, <2>1, <2>2, <2>3, <2>4 DEF RingOrder
    <2>7. Copies'
      BY <2>1, <2>2 DEF Copies
    <2> QED
      BY <2>5, <2>6, <2>7
  <1>6. CASE PopCopyBegin
    <2>1. TypeOK'
      BY <1>6 DEF PopCopyBegin, producer, TypeOK
    <2>2. RingOrder'
      BY <1>6 DEF PopCopyBegin, producer, RingOrder
    <2>3. Copies'
      BY <1>6 DEF PopCopyBegin, producer, Copies
    <2> QED
      BY <2>1, <2>2, <2>3
  <1>7. CASE PopCopyEnd
    <2>1. TypeOK'
      BY <1>7 DEF PopCopyEnd, producer, TypeOK, Values
    <2>2. RingOrder'
      BY <1>7 DEF PopCopyEnd, producer, RingOrder
    <2>3. Copies'
      BY <1>7 DEF PopCopyEnd, producer, Copies
    <2> QED
      BY <2>1, <2>2, <2>3
  <1>8. CASE PopRelease
    <2>1. Dist(Succ(head), tailSeen) = Dist(head, tailSeen) - 1
      BY <1>8, DistShrink DEF PopRelease, RingOrder, TypeOK
    <2>2. Dist(headSeen, Succ(head)) = Dist(headSeen, head) + 1
      <3>1. Dist(headSeen, head) < Capacity - 1
        BY <1>0, <1>8, <1>a, <1>c DEF PopRelease, RingOrder, TypeOK
      <3> QED
        BY <3>1, DistForward DEF TypeOK
    <2>3. TypeOK'
      BY <1>0, <1>8 DEF PopRelease, producer, TypeOK
    <2>4. RingOrder'
      BY <1>0, <1>8, <1>a, <2>1, <2>2 DEF PopRelease, producer, RingOrder
    <2>5. Copies'
      BY <1>8 DEF PopRelease, producer, Copies
    <2> QED
      BY <2>3, <2>4, <2>5
  <1>9. CASE UNCHANGED vars
    BY <1>9 DEF vars, TypeOK, RingOrder, Copies
  <1> QED
    BY <1>1, <1>2, <1>3, <1>4, <1>5, <1>6, <1>7, <1>8, <1>9
       DEF Next, Push, Pop

\* The invariant holds in every reachable state.
LEMMA Invariance == Spec => []Inv
  BY InitInv, NextInv, PTL DEF Spec

-----------------------------------------------------------------------------
(* The results *)

\* Indices stay inside the ring and every slot and local holds a value of
\* its kind, in every state of every run.
THEOREM TypeCorrect == Spec => []TypeOK
  BY Invariance, PTL DEF Inv

\* The cyclic order of the indices, with the threads' stale views, holds in
\* every state of every run.
THEOREM OrderKept == Spec => []RingOrder
  BY Invariance, PTL DEF Inv

\* push never writes the slot that pop is copying: the queue has no data
\* race, for every capacity.
THEOREM RaceFree == Spec => []NoSlotRace
  <1>1. Inv => NoSlotRace
    <2> SUFFICES ASSUME Inv, pushPc # "idle", popPc # "idle", head = tail
                 PROVE  FALSE
      BY DEF NoSlotRace
    <2>1. Capacity \in Nat /\ Capacity > 1
      BY CmdQueueAssumption
    <2>2. head # tailSeen /\ Dist(head, tailSeen) + Dist(tailSeen, head) <= Capacity - 1
      BY <2>1, DistForward DEF Inv, RingOrder, TypeOK
    <2>3. Dist(head, tailSeen) + Dist(tailSeen, head) = Capacity
      BY <2>1, <2>2 DEF Inv, TypeOK, Dist, Slots
    <2> QED
      BY <2>1, <2>2, <2>3
  <1> QED
    BY <1>1, Invariance, PTL

\* The slot of the i-th pending command does not depend on where its
\* interval of the ring is cut: it is reached from the next index too.
LEMMA WrapShift ==
    ASSUME NEW h \in Slots, NEW i \in 1 .. Capacity - 1
    PROVE  /\ Wrap(h + i - 1) \in Slots
           /\ i + 1 <= Capacity - 1 => Wrap(Succ(h) + i - 1) = Wrap(h + (i + 1) - 1)
  <1>1. Capacity \in Nat /\ Capacity > 1
    BY CmdQueueAssumption
  <1> QED
    BY <1>1, SuccValue DEF Wrap, Slots

\* The ring implements the bounded first-in first-out queue: publishing the
\* tail is its Put, releasing the head its Take, all other steps stutter.
THEOREM RefinesFifo == Spec => ImplementsFifo
  <1>1. Init => Fifo!Init
    BY DEF Init, Fifo!Init, Pending, Dist
  <1>2. ASSUME Inv, Inv', [Next]_vars
        PROVE  [Fifo!Next]_(Fifo!vars)
    <2>0. Capacity \in Nat /\ Capacity > 1
      BY CmdQueueAssumption
    <2>a. /\ head \in Slots /\ tail \in Slots /\ headSeen \in Slots /\ tailSeen \in Slots
          /\ buf \in [Slots -> Values]
      BY <1>2 DEF Inv, TypeOK
    <2>b. /\ Dist(head, tail) \in 0 .. Capacity - 1
          /\ pushPc # "idle" => Dist(head, tail) < Capacity - 1
          /\ popPc # "idle" => Dist(head, tail) > 0
      <3>1. /\ Dist(headSeen, head) \in 0 .. Capacity - 1
            /\ Dist(head, tailSeen) \in 0 .. Capacity - 1
            /\ Dist(tailSeen, tail) \in 0 .. Capacity - 1
        BY <2>a, DistForward
      <3>2. Dist(head, tail) = Dist(head, tailSeen) + Dist(tailSeen, tail)
        BY <2>0, <2>a, <3>1, <1>2, DistAdds DEF Inv, RingOrder
      <3>3. Dist(headSeen, tail) = Dist(headSeen, head) + Dist(head, tail)
        BY <2>0, <2>a, <3>1, <3>2, <1>2, DistAdds DEF Inv, RingOrder
      <3>4. pushPc # "idle" => Dist(headSeen, tail) # Capacity - 1
        BY <2>a, <1>2, DistForward DEF Inv, RingOrder
      <3>5. popPc # "idle" => Dist(head, tailSeen) # 0
        BY <2>0, <2>a, <1>2 DEF Inv, RingOrder, Dist, Slots
      <3> QED
        BY <2>0, <3>1, <3>2, <3>3, <3>4, <3>5, <2>a, DistForward
    <2>c. Pending \in Seq(Values) /\ Len(Pending) = Dist(head, tail)
      <3>1. \A i \in 1 .. Dist(head, tail) : buf[Wrap(head + i - 1)] \in Values
        BY <2>0, <2>a, <2>b, WrapShift
      <3> QED
        BY <2>b, <3>1 DEF Pending
    <2>1. CASE \E c \in Command : PushCheck(c)
      BY <2>1 DEF PushCheck, consumer, Fifo!vars, Pending
    <2>2. ASSUME PushCopyBegin \/ PushCopyEnd
          PROVE  UNCHANGED <<Pending, out>>
      <3>1. /\ head' = head /\ tail' = tail /\ out' = out
            /\ \A s \in Slots : s # tail => buf'[s] = buf[s]
        BY <2>2, <2>a DEF PushCopyBegin, PushCopyEnd, consumer
      <3>2. \A i \in 1 .. Dist(head, tail) :
              Wrap(head + i - 1) \in Slots /\ Wrap(head + i - 1) # tail
        BY <2>0, <2>a, <2>b DEF Wrap, Dist, Slots
      <3> QED
        BY <3>1, <3>2 DEF Pending
    <2>3. CASE PushPublish
      <3>1. /\ head' = head /\ out' = out /\ buf' = buf
            /\ tail' = Succ(tail)
        BY <2>3 DEF PushPublish, consumer
      <3>2. Dist(head, tail)' = Dist(head, tail) + 1
        BY <2>3, <3>1, <2>a, <2>b, DistForward DEF PushPublish
      <3>3. /\ pushCmd \in Command
            /\ buf[tail] = pushCmd
        BY <1>2, <2>3 DEF Inv, Copies, PushPublish
      <3>4. Wrap(head + Dist(head, tail)) = tail
        BY <2>0, <2>a DEF Wrap, Dist, Slots
      <3>5. Pending' = Append(Pending, pushCmd)
        <4> DEFINE n == Dist(head, tail)
        <4>1. n \in Nat
          BY <2>b
        <4>2. Pending' = [i \in 1 .. n + 1 |-> buf[Wrap(head + i - 1)]]
          BY <3>1, <3>2 DEF Pending
        <4>3. Pending = [i \in 1 .. n |-> buf[Wrap(head + i - 1)]]
          BY DEF Pending
        <4>4. buf[Wrap(head + (n + 1) - 1)] = pushCmd
          <5>1. head + (n + 1) - 1 = head + n
            BY <4>1, <2>a DEF Slots
          <5> QED
            BY <5>1, <3>3, <3>4
        <4>5. /\ Append(Pending, pushCmd) \in Seq(Values)
              /\ Len(Append(Pending, pushCmd)) = n + 1
              /\ \A i \in 1 .. n : Append(Pending, pushCmd)[i] = Pending[i]
              /\ Append(Pending, pushCmd)[n + 1] = pushCmd
          <5>1. pushCmd \in Values
            BY <3>3 DEF Values
          <5> QED
            BY <2>c, <5>1, AppendProperties
        <4> HIDE DEF n
        <4>6. \A i \in 1 .. n + 1 : Append(Pending, pushCmd)[i] = buf[Wrap(head + i - 1)]
          BY <4>1, <4>3, <4>4, <4>5
        <4>7. Append(Pending, pushCmd) = [i \in 1 .. n + 1 |-> Append(Pending, pushCmd)[i]]
          BY <4>5, LenProperties
        <4> QED
          BY <4>2, <4>6, <4>7
      <3>6. Len(Pending) < Capacity - 1
        BY <2>3, <2>b, <2>c DEF PushPublish
      <3> QED
        BY <3>1, <3>3, <3>5, <3>6 DEF Fifo!Next, Fifo!Put
    <2>4. CASE PopCheck \/ PopCopyBegin \/ PopCopyEnd \/ Empty
      BY <2>4 DEF PopCheck, PopCopyBegin, PopCopyEnd, Empty, producer, Fifo!vars, Pending
    <2>5. CASE PopRelease
      <3>1. /\ tail' = tail /\ buf' = buf /\ out' = popCmd
            /\ head' = Succ(head)
        BY <2>5 DEF PopRelease, producer
      <3>2. Dist(head, tail) > 0 /\ head # tail
        BY <2>0, <2>a, <2>b, <2>5 DEF PopRelease, Dist, Slots
      <3>3. Dist(head, tail)' = Dist(head, tail) - 1
        BY <3>1, <3>2, <2>a, DistShrink
      <3>4. popCmd = Pending[1]
        <4>1. popCmd = buf[head]
          BY <1>2, <2>5 DEF Inv, Copies, PopRelease
        <4>2. Pending[1] = buf[Wrap(head + 1 - 1)]
          BY <3>2, <2>b DEF Pending
        <4>3. Wrap(head + 1 - 1) = head
          BY <2>0, <2>a DEF Wrap, Slots
        <4> QED
          BY <4>1, <4>2, <4>3
      <3>5. Pending' = Tail(Pending)
        <4> DEFINE n == Dist(head, tail)
        <4>1. n \in 1 .. Capacity - 1
          BY <2>0, <2>b, <3>2
        <4>2. Pending' = [i \in 1 .. n - 1 |-> buf[Wrap(Succ(head) + i - 1)]]
          BY <3>1, <3>3 DEF Pending
        <4>3. Pending = [i \in 1 .. n |-> buf[Wrap(head + i - 1)]]
          BY DEF Pending
        <4>4. /\ Tail(Pending) = [i \in 1 .. n - 1 |-> Tail(Pending)[i]]
              /\ \A i \in 1 .. n - 1 : Tail(Pending)[i] = Pending[i + 1]
          <5>1. Pending # <<>>
            BY <2>c, <4>1
          <5>2. /\ Tail(Pending) \in Seq(Values)
                /\ Len(Tail(Pending)) = n - 1
                /\ \A i \in 1 .. n - 1 : Tail(Pending)[i] = Pending[i + 1]
            BY <2>c, <5>1, HeadTailProperties
          <5> QED
            BY <5>2, LenProperties
        <4> HIDE DEF n
        <4>5. \A i \in 1 .. n - 1 : buf[Wrap(Succ(head) + i - 1)] = Pending[i + 1]
          <5> TAKE i \in 1 .. n - 1
          <5>1. i \in 1 .. Capacity - 1 /\ i + 1 <= Capacity - 1 /\ i + 1 \in 1 .. n
            BY <2>0, <4>1
          <5>2. Wrap(Succ(head) + i - 1) = Wrap(head + (i + 1) - 1)
            BY <5>1, <2>a, WrapShift
          <5> QED
            BY <4>3, <5>1, <5>2
        <4> QED
          BY <4>2, <4>4, <4>5
      <3>6. Pending # <<>> /\ Head(Pending) = Pending[1]
        BY <2>c, <3>2
      <3> QED
        BY <3>1, <3>4, <3>5, <3>6 DEF Fifo!Next, Fifo!Take
    <2>6. CASE UNCHANGED vars
      BY <2>6 DEF vars, Fifo!vars, Pending
    <2> QED
      BY <1>2, <2>1, <2>2, <2>3, <2>4, <2>5, <2>6
         DEF Next, Push, Pop, Fifo!vars
  <1> QED
    BY <1>1, <1>2, Invariance, PTL DEF Spec, ImplementsFifo, Fifo!Spec
=============================================================================
