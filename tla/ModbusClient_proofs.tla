------------------------ MODULE ModbusClient_proofs ------------------------
(***************************************************************************)
(* Proofs about ModbusClient, for every set of registers and values, every *)
(* number of attempts and of late answers.  ReadGenuine and WriteVerified  *)
(* say something only about the moment a call returns; what makes them    *)
(* inductive is OwnAnswerOnly: while the client waits for the answer to a *)
(* read that was sent into a quiet line, nothing but that request or its  *)
(* answer is under way, and the answer holds a value of the register.     *)
(* With one late answer the order of the frames takes its place: OneLate  *)
(* says where among them those of a read can be at each step of a write.  *)
(***************************************************************************)
EXTENDS ModbusClient, SequenceTheorems, TLAPS

\* What may be under way while the client waits for the answer to a read
\* that was sent when nothing else was.
OwnAnswerOnly ==
    pc = "awaitValue" /\ clean =>
      /\ Len(reqs) + Len(wire) + Len(inbox) <= 1
      /\ reqs # << >> => Head(reqs) = ReadRequest
      /\ wire # << >> /\ Head(wire).fn = "value" => Head(wire).val \in seen
      /\ inbox # << >> /\ ReadsAs(Head(inbox)) => Head(inbox).val \in seen
      /\ op.addr \in Present => reg[op.addr] \in seen

\* What a call that succeeded over a quiet line leaves behind: the value it
\* read back, which is a write's own, and no request.
Sound ==
    pc = "idle" /\ result.ok /\ clean =>
      /\ result.val \in seen /\ (op.fn = "write" => result.val = op.val)
      /\ reqs = << >>

Inv == TypeOK /\ OwnAnswerOnly /\ Sound

-----------------------------------------------------------------------------
(* Calls, answers and the lines they are on *)

LEMMA CallFields ==
  ASSUME NEW c \in Calls
  PROVE  /\ c.fn \in {"read", "write"} /\ c.addr \in Addrs /\ c.val \in Values
         /\ c.fn = "write" => c.val \in Vals
         /\ [fn |-> "read", addr |-> c.addr, val |-> NoValue] \in Calls
  BY DEF Calls, Values

LEMMA CallsMade ==
  ASSUME NEW a \in Addrs, NEW v \in Vals
  PROVE  /\ [fn |-> "read", addr |-> a, val |-> NoValue] \in Calls
         /\ [fn |-> "write", addr |-> a, val |-> v] \in Calls
  BY DEF Calls

LEMMA QueueFacts ==
  ASSUME NEW S, NEW s \in Seq(S)
  PROVE  /\ << >> \in Seq(S)
         /\ \A e \in S : Append(s, e) \in Seq(S) /\ Len(Append(s, e)) = Len(s) + 1
         /\ Len(s) \in Nat /\ (s = << >> <=> Len(s) = 0)
         /\ s # << >> => /\ Head(s) \in S /\ Tail(s) \in Seq(S)
                         /\ Len(Tail(s)) = Len(s) - 1
  <1>1. << >> \in Seq(S) /\ Len(s) \in Nat /\ (s = << >> <=> Len(s) = 0)
    BY EmptySeq, LenProperties
  <1>2. \A e \in S : Append(s, e) \in Seq(S) /\ Len(Append(s, e)) = Len(s) + 1
    BY AppendProperties
  <1>3. s # << >> => Head(s) \in S /\ Tail(s) \in Seq(S) /\ Len(Tail(s)) = Len(s) - 1
    BY HeadTailProperties
  <1> QED
    BY <1>1, <1>2, <1>3

\* What is appended to an empty queue is its head.
LEMMA AppendToEmpty ==
  ASSUME NEW S, NEW s \in Seq(S), NEW e \in S, s = << >>
  PROVE  Head(Append(s, e)) = e
  OBVIOUS

-----------------------------------------------------------------------------
(* Type correctness *)

\* The client as it is constructed.
LEMMA InitTypeOK == Init => TypeOK
  <1> SUFFICES ASSUME Init
               PROVE  TypeOK
    OBVIOUS
  <1>1. << >> \in Seq(Calls) /\ << >> \in Seq(Answers)
    BY EmptySeq
  <1>2. result \in [ok : BOOLEAN, val : Values]
    BY DEF Init, Failed, Values
  <1>3. 1 \in 1..MaxAttempts /\ 0 \in 0..MaxLate
    BY ModbusClientAssumption
  <1>4. /\ alive \in BOOLEAN /\ connected \in BOOLEAN /\ port \in BOOLEAN
        /\ clean \in BOOLEAN
    BY Zenon DEF Init
  <1>5. leaked \in Nat /\ Open <= MaxOpen
    BY ModbusClientAssumption DEF Init, Open
  <1> QED
    BY <1>1, <1>2, <1>3, <1>4, <1>5 DEF Init, TypeOK

\* A failed step of a call leaves its variables in their types.
LEMMA TryAgainTypes ==
  ASSUME TypeOK, TryAgain
  PROVE  /\ pc' \in {"idle", "sendWrite"} /\ op' = op
         /\ attempt' \in 1..MaxAttempts
         /\ result' \in [ok : BOOLEAN, val : Values]
         /\ pc' = "idle" => result'.ok = FALSE
  <1>1. Failed \in [ok : BOOLEAN, val : Values] /\ Failed.ok = FALSE
    BY DEF Failed, Values
  <1> QED
    BY <1>1, ModbusClientAssumption DEF TryAgain, Return, TypeOK

\* Connecting, disconnecting and flushing keep the types.
LEMMA ConnectTypes ==
  ASSUME TypeOK,
         \/ TcpConnect \/ SerialConnect \/ SerialConnectFails
         \/ TcpDisconnect \/ SerialDisconnect \/ FlushBuffer
  PROVE  TypeOK'
  <1> USE DEF TcpConnect, SerialConnect, SerialConnectFails, TcpDisconnect, SerialDisconnect,
              FlushBuffer, clientVars, callVars, lineVars
  <1>1. /\ alive' \in BOOLEAN /\ connected' \in BOOLEAN /\ port' \in BOOLEAN
        /\ clean' \in BOOLEAN
    BY Zenon DEF TypeOK
  <1>2. reqs' \in Seq(Calls) /\ wire' \in Seq(Answers) /\ inbox' \in Seq(Answers)
    BY EmptySeq DEF TypeOK
  <1>3. /\ kind' = kind /\ pc' = pc /\ op' = op /\ attempt' = attempt /\ result' = result
        /\ reg' = reg /\ late' = late /\ seen' = seen
    OBVIOUS
  <1>4. leaked' \in Nat /\ Open' <= MaxOpen
    BY ModbusClientAssumption DEF CanOpen, Open, TypeOK
  <1> QED
    BY <1>1, <1>2, <1>3, <1>4 DEF TypeOK

\* The descriptors are unchanged by every other step.
LEMMA DescriptorsKept ==
  ASSUME TypeOK, port' = port, leaked' = leaked
  PROVE  leaked' \in Nat /\ Open' <= MaxOpen
  BY DEF Open, TypeOK

\* The steps of a call keep the types.
LEMMA CallTypes ==
  ASSUME TypeOK,
         \/ \E a \in Addrs : ReadRegister(a) \/ \E v \in Vals : WriteRegister(a, v)
         \/ Client \/ ReceiveFails
  PROVE  TypeOK'
  <1> USE DEF clientVars, lineVars
  <1>0. Failed \in [ok : BOOLEAN, val : Values]
    BY DEF Failed, Values
  <1>1. ASSUME NEW c \in Calls, NEW first \in {"sendRead", "sendWrite"}, Begin(c, first)
        PROVE  TypeOK'
    <2>1. clean' \in BOOLEAN
      BY <1>1, Zenon DEF Begin
    <2> QED
      BY <1>0, <1>1, <2>1, ModbusClientAssumption, DescriptorsKept DEF Begin, TypeOK
  <1>2. CASE \E a \in Addrs : ReadRegister(a) \/ \E v \in Vals : WriteRegister(a, v)
    BY <1>1, <1>2 DEF ReadRegister, WriteRegister, Calls
  <1>3. op \in Calls /\ ReadRequest \in Calls
    BY CallFields DEF TypeOK, ReadRequest
  <1>4. \A r \in Calls : Send(r) => reqs' \in Seq(Calls) /\ inbox' \in Seq(Answers)
    BY QueueFacts, EmptySeq DEF Send, TypeOK
  <1>5. CASE SendWrite
    <2>1. connected' \in BOOLEAN
      BY <1>5, Zenon DEF SendWrite, WriteLost, TcpWriteLost, SerialWriteLost, TypeOK
    <2>2. /\ reqs' \in Seq(Calls) /\ inbox' \in Seq(Answers)
      BY <1>3, <1>4, <1>5, EmptySeq DEF SendWrite, TypeOK
    <2>3. /\ pc' \in {"idle", "sendWrite", "awaitEcho"} /\ op' = op
          /\ attempt' \in 1..MaxAttempts /\ result' \in [ok : BOOLEAN, val : Values]
      BY <1>5, TryAgainTypes DEF SendWrite, TypeOK
    <2> QED
      BY <1>5, <2>1, <2>2, <2>3, DescriptorsKept DEF SendWrite, TypeOK
  <1>6. CASE TakeEcho
    <2>1. inbox' \in Seq(Answers)
      BY <1>6, QueueFacts DEF TakeEcho, EchoComplete, TypeOK
    <2>2. /\ pc' \in {"idle", "sendWrite", "sendRead"} /\ op' = op
          /\ attempt' \in 1..MaxAttempts /\ result' \in [ok : BOOLEAN, val : Values]
      BY <1>6, TryAgainTypes DEF TakeEcho, TypeOK
    <2> QED
      BY <1>6, <2>1, <2>2, DescriptorsKept DEF TakeEcho, TypeOK
  <1>7. CASE SendRead
    <2>1. connected' \in BOOLEAN /\ clean' \in BOOLEAN
      BY <1>7, Zenon DEF SendRead, ReadLost, TypeOK
    <2>2. /\ reqs' \in Seq(Calls) /\ inbox' \in Seq(Answers)
      BY <1>3, <1>4, <1>7, EmptySeq DEF SendRead, TypeOK
    <2>3. /\ pc' \in {"idle", "sendWrite", "awaitValue"} /\ op' = op
          /\ attempt' \in 1..MaxAttempts /\ result' \in [ok : BOOLEAN, val : Values]
      BY <1>7, TryAgainTypes DEF SendRead, TypeOK
    <2>4. seen' \subseteq Vals
      BY <1>7 DEF SendRead, TypeOK
    <2> QED
      BY <1>7, <2>1, <2>2, <2>3, <2>4, DescriptorsKept DEF SendRead, TypeOK
  <1>8. CASE TakeValue
    <2>1. inbox' \in Seq(Answers) /\ Head(inbox) \in Answers
      BY <1>8, QueueFacts DEF TakeValue, TypeOK
    <2>2. [ok |-> TRUE, val |-> Head(inbox).val] \in [ok : BOOLEAN, val : Values]
      BY <2>1 DEF Answers
    <2>3. /\ pc' \in {"idle", "sendWrite"} /\ op' = op
          /\ attempt' \in 1..MaxAttempts /\ result' \in [ok : BOOLEAN, val : Values]
      <3>1. CASE TryAgain
        BY <3>1, TryAgainTypes
      <3>2. CASE Return([ok |-> TRUE, val |-> Head(inbox).val])
        BY <2>2, <3>2, ModbusClientAssumption DEF Return
      <3> QED
        BY <1>8, <3>1, <3>2 DEF TakeValue
    <2> QED
      BY <1>8, <2>1, <2>3, DescriptorsKept DEF TakeValue, TypeOK
  <1>9. CASE Timeout \/ ReceiveFails
    <2>1. connected' \in BOOLEAN
      BY <1>9, Zenon DEF Timeout, ReceiveFails, WriteLost, TcpWriteLost, SerialWriteLost,
                         ReadLost, TypeOK
    <2>2. reqs' \in Seq(Calls) /\ wire' \in Seq(Answers) /\ inbox' \in Seq(Answers)
      BY <1>9, EmptySeq DEF Timeout, ReceiveFails, TypeOK
    <2>3. /\ pc' \in {"idle", "sendWrite"} /\ op' = op
          /\ attempt' \in 1..MaxAttempts /\ result' \in [ok : BOOLEAN, val : Values]
      BY <1>9, TryAgainTypes DEF Timeout, ReceiveFails
    <2>4. late' \in 0..MaxLate
      BY <1>9, ModbusClientAssumption DEF Timeout, ReceiveFails, TypeOK
    <2> QED
      BY <1>9, <2>1, <2>2, <2>3, <2>4, DescriptorsKept DEF Timeout, ReceiveFails, TypeOK
  <1> QED
    BY <1>2, <1>5, <1>6, <1>7, <1>8, <1>9 DEF Client

\* The device, the line and the panel keep the types.
LEMMA DeviceTypes ==
  ASSUME TypeOK, Device \/ Line \/ Panel
  PROVE  TypeOK'
  <1> USE DEF clientVars, callVars, lineVars
  <1>1. ASSUME NEW a \in Present, NEW v \in Vals, Changed(a, v)
        PROVE  reg' \in [Present -> Vals] /\ seen' \subseteq Vals
    BY <1>1 DEF Changed, TypeOK
  <1>2. CASE Serve
    <2>1. Head(reqs) \in Calls /\ reqs' \in Seq(Calls)
      BY <1>2, QueueFacts DEF Serve, TypeOK
    <2>2. Head(reqs).addr \in Addrs /\ (Head(reqs).fn = "write" => Head(reqs).val \in Vals)
      BY <2>1, CallFields
    <2>3. \A fn \in {"value", "echo", "exception"}, v \in Values :
             Answer(fn, v) => wire' \in Seq(Answers)
      <3> SUFFICES ASSUME NEW fn \in {"value", "echo", "exception"}, NEW v \in Values,
                          Answer(fn, v)
                   PROVE  wire' \in Seq(Answers)
        OBVIOUS
      <3>1. [fn |-> fn, val |-> v, intact |-> TRUE] \in Answers
        BY DEF Answers
      <3> QED
        BY <3>1, QueueFacts DEF Answer, TypeOK
    <2>4. Head(reqs).addr \in Present => reg[Head(reqs).addr] \in Vals
      BY <2>2 DEF TypeOK
    <2>5. wire' \in Seq(Answers)
      BY <1>2, <2>2, <2>3, <2>4 DEF Serve, Present, Values
    <2>6. reg' \in [Present -> Vals] /\ seen' \subseteq Vals
      BY <1>1, <1>2, <2>2 DEF Serve, Present, TypeOK
    <2> QED
      BY <1>2, <2>1, <2>5, <2>6, DescriptorsKept DEF Serve, TypeOK
  <1>3. CASE RequestLost
    <2>1. reqs' \in Seq(Calls)
      BY <1>3, QueueFacts DEF RequestLost, TypeOK
    <2> QED
      BY <1>3, <2>1, DescriptorsKept DEF RequestLost, TypeOK
  <1>4. CASE Arrive \/ AnswerLost
    <2>1. wire' \in Seq(Answers) /\ Head(wire) \in Answers
      <3>1. wire # << >> /\ wire' = Tail(wire)
        BY <1>4 DEF Arrive, AnswerLost
      <3> QED
        BY <3>1, QueueFacts DEF TypeOK
    <2>2. [Head(wire) EXCEPT !.intact = FALSE, !.val = NoValue] \in Answers
      BY <2>1 DEF Answers, Values
    <2>3. inbox' \in Seq(Answers)
      <3>1. \A e \in Answers : Append(inbox, e) \in Seq(Answers)
        BY QueueFacts DEF TypeOK
      <3> QED
        BY <1>4, <2>1, <2>2, <3>1 DEF Arrive, AnswerLost, TypeOK
    <2> QED
      BY <1>4, <2>1, <2>3, DescriptorsKept DEF Arrive, AnswerLost, TypeOK
  <1>5. CASE Panel
    BY <1>1, <1>5, DescriptorsKept DEF Panel, TypeOK
  <1> QED
    BY <1>2, <1>3, <1>4, <1>5 DEF Device, Line

LEMMA NextTypeOK == TypeOK /\ [Next]_vars => TypeOK'
  <1> SUFFICES ASSUME TypeOK, [Next]_vars
               PROVE  TypeOK'
    OBVIOUS
  <1>1. CASE UNCHANGED vars
    BY <1>1, DescriptorsKept DEF vars, TypeOK
  <1> QED
    BY <1>1, ConnectTypes, CallTypes, DeviceTypes DEF Next, Connect

-----------------------------------------------------------------------------
(* Calls over a quiet line *)

\* The steps that end no call successfully and do not begin to wait for a
\* value keep the invariant.
LEMMA OtherSteps ==
  ASSUME Inv,
         \/ Connect \/ SerialConnectFails \/ TcpDisconnect \/ SerialDisconnect \/ FlushBuffer
         \/ \E a \in Addrs : ReadRegister(a) \/ \E v \in Vals : WriteRegister(a, v)
         \/ SendWrite \/ TakeEcho \/ Timeout \/ ReceiveFails
  PROVE  OwnAnswerOnly' /\ Sound'
  <1> USE DEF Inv
  <1>1. CASE \/ Connect \/ SerialConnectFails \/ TcpDisconnect \/ SerialDisconnect
             \/ FlushBuffer
    <2>1. /\ pc = "idle" /\ pc' = pc /\ op' = op /\ result' = result
          /\ clean' = clean /\ seen' = seen /\ (reqs' = reqs \/ reqs' = << >>)
      BY <1>1 DEF Connect, TcpConnect, SerialConnect, SerialConnectFails, TcpDisconnect,
                  SerialDisconnect, FlushBuffer, clientVars, callVars, lineVars
    <2> QED
      BY <2>1 DEF OwnAnswerOnly, Sound
  <1>2. CASE \E a \in Addrs : ReadRegister(a) \/ \E v \in Vals : WriteRegister(a, v)
    <2>1. clean' = FALSE
      BY <1>2, Zenon DEF ReadRegister, WriteRegister, Begin
    <2> QED
      BY <2>1 DEF OwnAnswerOnly, Sound
  <1>3. CASE SendWrite \/ TakeEcho \/ Timeout \/ ReceiveFails
    <2>1. pc' # "awaitValue" /\ (pc' = "idle" => result'.ok = FALSE)
      BY <1>3, TryAgainTypes DEF SendWrite, TakeEcho, Timeout, ReceiveFails
    <2> QED
      BY <2>1 DEF OwnAnswerOnly, Sound
  <1> QED
    BY <1>1, <1>2, <1>3

\* A read request sent into a quiet line is alone there.
LEMMA SendReadStep ==
  ASSUME Inv, SendRead
  PROVE  OwnAnswerOnly' /\ Sound'
  <1> USE DEF Inv
  <1>1. CASE TryAgain
    BY <1>1, TryAgainTypes DEF OwnAnswerOnly, Sound
  <1>2. CASE ~TryAgain
    <2>1. /\ pc' = "awaitValue" /\ op' = op /\ reg' = reg /\ wire' = wire
          /\ reqs' = Append(reqs, ReadRequest) /\ inbox' = << >>
          /\ seen' = {reg[a] : a \in {op.addr} \cap Present}
          /\ clean' = (reqs = << >> /\ wire = << >>)
      BY <1>2 DEF SendRead, Send
    <2>2. ASSUME clean'
          PROVE  /\ reqs = << >> /\ wire = << >>
                 /\ Len(reqs') = 1 /\ Len(wire') = 0 /\ Len(inbox') = 0
                 /\ Head(reqs') = ReadRequest
      <3>1. reqs = << >> /\ wire = << >>
        BY <2>1, <2>2
      <3>2. ReadRequest \in Calls
        BY CallFields DEF TypeOK, ReadRequest
      <3>3. Len(reqs') = 1 /\ Head(reqs') = ReadRequest
        BY <2>1, <3>1, <3>2, QueueFacts, AppendToEmpty DEF TypeOK
      <3> QED
        BY <2>1, <3>1, <3>3
    <2>3. ReadRequest' = ReadRequest
      BY <2>1 DEF ReadRequest
    <2>4. op.addr \in Present => reg'[op'.addr] \in seen'
      BY <2>1
    <2> QED
      BY <2>1, <2>2, <2>3, <2>4 DEF OwnAnswerOnly, Sound
  <1> QED
    BY <1>1, <1>2

\* The value taken is the one the only answer under way brings.
LEMMA TakeValueStep ==
  ASSUME Inv, TakeValue
  PROVE  OwnAnswerOnly' /\ Sound'
  <1> USE DEF Inv
  <1>1. CASE TryAgain
    BY <1>1, TryAgainTypes DEF OwnAnswerOnly, Sound
  <1>2. CASE ~TryAgain
    <2>1. /\ pc = "awaitValue" /\ inbox # << >>
          /\ ReadsAs(Head(inbox)) /\ Verifies(Head(inbox))
          /\ pc' = "idle" /\ result' = [ok |-> TRUE, val |-> Head(inbox).val]
          /\ op' = op /\ clean' = clean /\ seen' = seen /\ reqs' = reqs
      BY <1>2 DEF TakeValue, Return
    <2>2. clean => Head(inbox).val \in seen /\ reqs = << >>
      <3>1. Len(reqs) \in Nat /\ Len(wire) \in Nat /\ Len(inbox) \in Nat \ {0}
        BY <2>1, QueueFacts DEF TypeOK
      <3>2. clean => Len(reqs) = 0
        BY <2>1, <3>1 DEF OwnAnswerOnly
      <3> QED
        BY <2>1, <3>2, QueueFacts DEF OwnAnswerOnly, TypeOK
    <2>3. result'.val = Head(inbox).val
      BY <2>1
    <2>4. op.fn = "write" => Head(inbox).val = op.val
      BY <2>1 DEF Verifies
    <2> QED
      BY <2>1, <2>2, <2>3, <2>4 DEF OwnAnswerOnly, Sound
  <1> QED
    BY <1>1, <1>2

\* A frame that moves on or is lost stays the only one.
LEMMA DeviceSteps ==
  ASSUME Inv, Device \/ Line \/ Panel
  PROVE  OwnAnswerOnly' /\ Sound'
  <1> USE DEF Inv, clientVars, callVars, lineVars
  <1>0. /\ pc' = pc /\ op' = op /\ result' = result /\ clean' = clean
        /\ ReadRequest' = ReadRequest
    BY DEF Device, Serve, RequestLost, Line, Arrive, AnswerLost, Panel, ReadRequest
  <1>1. Len(reqs) \in Nat /\ Len(wire) \in Nat /\ Len(inbox) \in Nat
    BY QueueFacts DEF TypeOK
  <1>2. \A a, v : Changed(a, v) /\ pc # "awaitValue" => seen' = seen
    BY DEF Changed
  <1>3. Sound'
    <2>1. CASE pc = "idle"
      <3>1. seen' = seen
        BY <1>2, <2>1 DEF Device, Serve, RequestLost, Line, Arrive, AnswerLost, Panel
      <3>2. reqs = << >> => reqs' = reqs
        BY DEF Device, Serve, RequestLost, Line, Arrive, AnswerLost, Panel
      <3> QED
        BY <1>0, <3>1, <3>2 DEF Sound
    <2>2. CASE pc # "idle"
      BY <1>0, <2>2 DEF Sound
    <2> QED
      BY <2>1, <2>2
  <1>4. SUFFICES ASSUME pc = "awaitValue", clean
                 PROVE  OwnAnswerOnly'
    BY <1>0, <1>3 DEF OwnAnswerOnly
  <1>5. /\ Len(reqs) + Len(wire) + Len(inbox) <= 1
        /\ reqs # << >> => Head(reqs) = ReadRequest
        /\ wire # << >> /\ Head(wire).fn = "value" => Head(wire).val \in seen
        /\ inbox # << >> /\ ReadsAs(Head(inbox)) => Head(inbox).val \in seen
        /\ op.addr \in Present => reg[op.addr] \in seen
    BY <1>4 DEF OwnAnswerOnly
  <1>6. CASE Serve
    <2>1. /\ reqs # << >> /\ reqs' = Tail(reqs) /\ Head(reqs) = ReadRequest
          /\ inbox' = inbox
      BY <1>5, <1>6 DEF Serve
    <2>2. Len(reqs) = 1 /\ Len(reqs') = 0 /\ Len(wire) = 0 /\ Len(inbox) = 0
      <3>1. Len(reqs) # 0 /\ Len(Tail(reqs)) = Len(reqs) - 1
        BY <2>1, QueueFacts DEF TypeOK
      <3> QED
        BY <1>1, <1>5, <2>1, <3>1
    <2>3. reqs' = << >> /\ wire = << >> /\ inbox = << >>
      <3>1. Tail(reqs) \in Seq(Calls)
        BY <2>1, QueueFacts DEF TypeOK
      <3> QED
        BY <2>1, <2>2, <3>1, QueueFacts DEF TypeOK
    <2>4. reg' = reg /\ seen' = seen
      BY <1>6, <2>1 DEF Serve, ReadRequest
    <2>0. Head(reqs).fn = "read" /\ Head(reqs).fn # "write" /\ Head(reqs).addr = op.addr
      BY <2>1 DEF ReadRequest
    <2>5. PICK m \in Answers :
             /\ wire' = Append(wire, m)
             /\ m.fn = "value" => op.addr \in Present /\ m.val = reg[op.addr]
      <3>1. CASE op.addr \in Absent
        <4> DEFINE m == [fn |-> "exception", val |-> NoValue, intact |-> TRUE]
        <4>1. wire' = Append(wire, m)
          BY <1>6, <2>0, <3>1 DEF Serve, Answer
        <4>2. m \in Answers /\ m.fn # "value"
          BY DEF Answers, Values
        <4> QED
          BY <4>1, <4>2
      <3>2. CASE op.addr \notin Absent
        <4> DEFINE m == [fn |-> "value", val |-> reg[op.addr], intact |-> TRUE]
        <4>1. wire' = Append(wire, m)
          BY <1>6, <2>0, <3>2 DEF Serve, Answer
        <4>2. op.addr \in Present /\ reg[op.addr] \in Vals
          BY <3>2, CallFields DEF TypeOK, Present
        <4>3. m \in Answers /\ m.val = reg[op.addr]
          BY <4>2 DEF Answers, Values
        <4> QED
          BY <4>1, <4>2, <4>3
      <3> QED
        BY <3>1, <3>2
    <2>6. Len(wire') = 1 /\ Head(wire') = m
      BY <2>2, <2>3, <2>5, QueueFacts, AppendToEmpty DEF TypeOK
    <2>7. Head(wire').fn = "value" => Head(wire').val \in seen'
      BY <1>5, <2>4, <2>5, <2>6
    <2>8. Len(reqs') + Len(wire') + Len(inbox') <= 1
      BY <2>1, <2>2, <2>6
    <2> QED
      BY <1>0, <1>5, <2>1, <2>3, <2>4, <2>7, <2>8 DEF OwnAnswerOnly
  <1>7. CASE RequestLost
    <2>1. /\ reqs # << >> /\ reqs' = Tail(reqs)
          /\ wire' = wire /\ inbox' = inbox /\ reg' = reg /\ seen' = seen
      BY <1>7 DEF RequestLost
    <2>2. Len(reqs') = 0 /\ Tail(reqs) \in Seq(Calls)
      <3>1. /\ Len(reqs) # 0 /\ Len(Tail(reqs)) = Len(reqs) - 1
            /\ Tail(reqs) \in Seq(Calls)
        BY <2>1, QueueFacts DEF TypeOK
      <3> QED
        BY <1>1, <1>5, <2>1, <3>1
    <2>3. reqs' = << >>
      BY <2>1, <2>2, QueueFacts
    <2> QED
      BY <1>0, <1>1, <1>5, <2>1, <2>2, <2>3 DEF OwnAnswerOnly
  <1>8. CASE Arrive \/ AnswerLost
    <2>1. /\ wire # << >> /\ wire' = Tail(wire)
          /\ reqs' = reqs /\ reg' = reg /\ seen' = seen
      BY <1>8 DEF Arrive, AnswerLost
    <2>2. /\ Len(wire) = 1 /\ Len(wire') = 0 /\ Len(reqs) = 0 /\ Len(inbox) = 0
          /\ Tail(wire) \in Seq(Answers) /\ Head(wire) \in Answers
      <3>1. /\ Len(wire) # 0 /\ Len(Tail(wire)) = Len(wire) - 1
            /\ Tail(wire) \in Seq(Answers) /\ Head(wire) \in Answers
        BY <2>1, QueueFacts DEF TypeOK
      <3> QED
        BY <1>1, <1>5, <2>1, <3>1
    <2>3. wire' = << >> /\ reqs = << >> /\ inbox = << >>
      BY <2>1, <2>2, QueueFacts DEF TypeOK
    <2>4. CASE inbox' = inbox
      <3>1. Len(reqs') + Len(wire') + Len(inbox') <= 1
        BY <2>1, <2>2, <2>4
      <3> QED
        BY <1>0, <1>5, <2>1, <2>3, <2>4, <3>1 DEF OwnAnswerOnly
    <2>5. ASSUME NEW m \in Answers, inbox' = Append(inbox, m),
                 ReadsAs(m) => m = Head(wire)
          PROVE  OwnAnswerOnly'
      <3>1. Len(inbox') = 1 /\ Head(inbox') = m
        BY <2>2, <2>3, <2>5, QueueFacts, AppendToEmpty DEF TypeOK
      <3>2. ReadsAs(m) => m.val \in seen
        BY <1>5, <2>1, <2>5 DEF ReadsAs
      <3>3. ReadsAs(Head(inbox')) => Head(inbox').val \in seen'
        BY <2>1, <3>1, <3>2
      <3>4. Len(reqs') + Len(wire') + Len(inbox') <= 1
        BY <2>1, <2>2, <3>1
      <3> QED
        BY <1>0, <1>5, <2>1, <2>3, <3>3, <3>4 DEF OwnAnswerOnly, ReadsAs
    <2>6. DEFINE g == [Head(wire) EXCEPT !.intact = FALSE, !.val = NoValue]
    <2>7. g \in Answers /\ ~ReadsAs(g)
      BY <2>2 DEF Answers, Values, ReadsAs
    <2> QED
      BY <1>8, <2>2, <2>4, <2>5, <2>7 DEF Arrive, AnswerLost
  <1>9. CASE Panel
    <2>1. PICK a \in Present, v \in Vals : Changed(a, v)
      BY <1>9 DEF Panel
    <2>2. /\ reg' = [reg EXCEPT ![a] = v]
          /\ seen' = IF a = op.addr THEN seen \cup {v} ELSE seen
      BY <1>4, <2>1 DEF Changed
    <2>3. op.addr \in Present => reg'[op.addr] \in seen'
      BY <1>5, <2>2 DEF TypeOK
    <2>4. seen \subseteq seen'
      BY <2>2
    <2>5. reqs' = reqs /\ wire' = wire /\ inbox' = inbox
      BY <1>9 DEF Panel
    <2> QED
      BY <1>0, <1>5, <2>3, <2>4, <2>5 DEF OwnAnswerOnly, ReadsAs
  <1> QED
    BY <1>6, <1>7, <1>8, <1>9 DEF Device, Line

\* The invariant is inductive.
LEMMA InvInductive == Inv /\ [Next]_vars => Inv'
  <1> SUFFICES ASSUME Inv, [Next]_vars
               PROVE  OwnAnswerOnly' /\ Sound'
    BY NextTypeOK DEF Inv
  <1>1. CASE UNCHANGED vars
    BY <1>1 DEF vars, Inv, OwnAnswerOnly, Sound, ReadRequest, ReadsAs
  <1> QED
    BY <1>1, OtherSteps, SendReadStep, TakeValueStep, DeviceSteps DEF Next, Client

LEMMA InvAlways == Spec => []Inv
  <1>1. Init => Inv
    BY InitTypeOK DEF Init, Inv, OwnAnswerOnly, Sound
  <1> QED
    BY <1>1, InvInductive, PTL DEF Spec

-----------------------------------------------------------------------------
(* One late answer *)

\* Frames under way between the client and the device.
UnderWay == Len(reqs) + Len(wire) + Len(inbox)

\* Besides the answer the client waits for, only late ones are under way.
LateFrames == UnderWay <= late + (IF pc \in {"awaitEcho", "awaitValue"} THEN 1 ELSE 0)

\* Frames of writes are sent, and echoes awaited, by calls that write.
WriteOnly == pc \in {"sendWrite", "awaitEcho"} => op.fn = "write"

\* Only the frame next to arrive may belong to a read.
ReadsFirst ==
    /\ \A i \in 1..Len(reqs) : reqs[i].fn = "read" => i = 1 /\ wire = << >> /\ inbox = << >>
    /\ \A i \in 1..Len(wire) : wire[i].fn = "value" => i = 1 /\ inbox = << >>

\* No frame that is still to arrive belongs to a read.
NoReads ==
    /\ \A i \in 1..Len(reqs) : reqs[i].fn # "read"
    /\ \A i \in 1..Len(wire) : wire[i].fn # "value"

\* The only frame that belongs to a read is the last one, the verifying
\* read or its answer, which holds a value of the register.
OwnReadLast ==
    /\ \A i \in 1..Len(reqs) : reqs[i].fn = "read" => i = Len(reqs) /\ reqs[i] = ReadRequest
    /\ \A i \in 1..Len(wire) : wire[i].fn = "value" =>
          i = Len(wire) /\ reqs = << >> /\ wire[i].val \in seen
    /\ \A i \in 1..Len(inbox) : ReadsAs(inbox[i]) =>
          i = Len(inbox) /\ wire = << >> /\ reqs = << >> /\ inbox[i].val \in seen
    /\ op.addr \in Present => reg[op.addr] \in seen

\* What the frames under way may be in the steps of a write, while no more
\* than one answer has been late: the late one may be a read's only until
\* an echo is taken, so the value taken is that of the verifying read.
OneLate ==
    late <= 1 =>
      /\ pc = "awaitEcho" => ReadsFirst
      /\ pc = "sendRead" /\ op.fn = "write" => NoReads
      /\ pc = "awaitValue" /\ op.fn = "write" => OwnReadLast
      /\ pc = "idle" /\ op.fn = "write" /\ result.ok => op.val \in seen /\ reqs = << >>

\* The frames left when one is taken keep their order; one that is sent
\* comes after them.
LEMMA QueueOrder ==
  ASSUME NEW S, NEW s \in Seq(S)
  PROVE  /\ s # << >> => /\ Head(s) = s[1] /\ 1 \in 1..Len(s)
                         /\ \A i \in 1..Len(Tail(s)) :
                               i + 1 \in 1..Len(s) /\ Tail(s)[i] = s[i + 1]
         /\ \A e \in S : \A i \in 1..Len(Append(s, e)) :
              \/ i = Len(s) + 1 /\ Append(s, e)[i] = e
              \/ i \in 1..Len(s) /\ Append(s, e)[i] = s[i]
  <1>1. Len(s) \in Nat /\ (s = << >> <=> Len(s) = 0)
    BY QueueFacts
  <1>2. ASSUME s # << >>
        PROVE  /\ Head(s) = s[1] /\ 1 \in 1..Len(s)
               /\ \A i \in 1..Len(Tail(s)) :
                     i + 1 \in 1..Len(s) /\ Tail(s)[i] = s[i + 1]
    <2>1. Len(Tail(s)) = Len(s) - 1
      BY <1>2, QueueFacts
    <2>2. Head(s) = s[1] /\ \A i \in 1..Len(s) - 1 : Tail(s)[i] = s[i + 1]
      BY <1>2, HeadTailProperties
    <2> QED
      BY <1>1, <1>2, <2>1, <2>2
  <1>3. ASSUME NEW e \in S, NEW i \in 1..Len(Append(s, e))
        PROVE  \/ i = Len(s) + 1 /\ Append(s, e)[i] = e
               \/ i \in 1..Len(s) /\ Append(s, e)[i] = s[i]
    <2>1. Len(Append(s, e)) = Len(s) + 1 /\ Append(s, e)[Len(s) + 1] = e
      BY AppendProperties
    <2>2. \A j \in 1..Len(s) : Append(s, e)[j] = s[j]
      BY AppendProperties
    <2>3. i = Len(s) + 1 \/ i \in 1..Len(s)
      BY <1>1, <2>1
    <2> QED
      BY <2>1, <2>2, <2>3
  <1> QED
    BY <1>2, <1>3

\* Nothing is left when the only frame is taken.
LEMMA LastTaken ==
  ASSUME NEW S, NEW s \in Seq(S), Len(s) = 1
  PROVE  Tail(s) = << >>
  <1>1. s # << >>
    BY QueueFacts
  <1>2. Tail(s) \in Seq(S) /\ Len(Tail(s)) = 0
    BY <1>1, QueueFacts
  <1> QED
    BY <1>2, EmptySeq

\* Sizes of the three queues of frames.
LEMMA Sizes ==
  ASSUME TypeOK
  PROVE  /\ Len(reqs) \in Nat /\ Len(wire) \in Nat /\ Len(inbox) \in Nat
         /\ (reqs = << >> <=> Len(reqs) = 0) /\ (wire = << >> <=> Len(wire) = 0)
         /\ (inbox = << >> <=> Len(inbox) = 0)
         /\ reqs # << >> => Len(Tail(reqs)) = Len(reqs) - 1
         /\ wire # << >> => Len(Tail(wire)) = Len(wire) - 1
         /\ inbox # << >> => Len(Tail(inbox)) = Len(inbox) - 1
         /\ late \in Nat
  <1>1. Len(reqs) \in Nat /\ (reqs = << >> <=> Len(reqs) = 0)
        /\ (reqs # << >> => Len(Tail(reqs)) = Len(reqs) - 1)
    BY QueueFacts DEF TypeOK
  <1>2. Len(wire) \in Nat /\ (wire = << >> <=> Len(wire) = 0)
        /\ (wire # << >> => Len(Tail(wire)) = Len(wire) - 1)
    BY QueueFacts DEF TypeOK
  <1>3. Len(inbox) \in Nat /\ (inbox = << >> <=> Len(inbox) = 0)
        /\ (inbox # << >> => Len(Tail(inbox)) = Len(inbox) - 1)
    BY QueueFacts DEF TypeOK
  <1>4. late \in Nat
    BY DEF TypeOK
  <1> QED
    BY <1>1, <1>2, <1>3, <1>4

\* Every frame under way that the client does not wait for was counted as
\* late when the client stopped waiting for it.
LEMMA LateFramesKept == TypeOK /\ LateFrames /\ [Next]_vars => LateFrames'
  <1> SUFFICES ASSUME TypeOK, LateFrames, [Next]_vars
               PROVE  LateFrames'
    OBVIOUS
  <1> USE DEF LateFrames, UnderWay
  <1>0. Len(<< >>) = 0
    OBVIOUS
  <1>1. CASE \/ Connect \/ SerialConnectFails \/ TcpDisconnect \/ SerialDisconnect
             \/ FlushBuffer
    <2>1. /\ pc' = pc /\ late' = late /\ (inbox' = << >> \/ inbox' = inbox)
          /\ \/ reqs' = reqs /\ wire' = wire
             \/ reqs' = << >> /\ wire' = << >>
      BY <1>1 DEF Connect, TcpConnect, SerialConnect, SerialConnectFails, TcpDisconnect,
                  SerialDisconnect, FlushBuffer, clientVars, callVars, lineVars
    <2> QED
      BY <1>0, <2>1, Sizes
  <1>2. CASE \E a \in Addrs : ReadRegister(a) \/ \E v \in Vals : WriteRegister(a, v)
    <2>1. pc = "idle" /\ UNCHANGED <<reqs, wire, inbox, late>>
      BY <1>2 DEF ReadRegister, WriteRegister, Begin, lineVars
    <2> QED
      BY <2>1, Sizes
  <1>3. ASSUME NEW r \in Calls, Send(r), UNCHANGED <<wire, late>>,
               pc \notin {"awaitEcho", "awaitValue"}, pc' \in {"awaitEcho", "awaitValue"}
        PROVE  LateFrames'
    <2>1. Len(reqs') = Len(reqs) + 1 /\ inbox' = << >>
      BY <1>3, QueueFacts DEF Send, TypeOK
    <2> QED
      BY <1>0, <1>3, <2>1, Sizes
  <1>4. CASE SendWrite
    <2>1. CASE Send(op) /\ pc' = "awaitEcho"
      BY <1>3, <1>4, <2>1 DEF SendWrite, TypeOK
    <2>2. CASE TryAgain /\ inbox' = << >> /\ reqs' = reqs
      BY <1>0, <1>4, <2>2, Sizes, TryAgainTypes DEF SendWrite
    <2> QED
      BY <1>4, <2>1, <2>2 DEF SendWrite
  <1>5. CASE SendRead
    <2>1. CASE Send(ReadRequest) /\ pc' = "awaitValue"
      BY <1>3, <1>5, <2>1, CallFields DEF SendRead, TypeOK, ReadRequest
    <2>2. CASE TryAgain /\ (inbox' = << >> \/ inbox' = inbox) /\ reqs' = reqs
      BY <1>0, <1>5, <2>2, Sizes, TryAgainTypes DEF SendRead
    <2> QED
      BY <1>5, <2>1, <2>2 DEF SendRead
  <1>6. CASE TakeEcho \/ TakeValue
    <2>1. /\ pc \in {"awaitEcho", "awaitValue"} /\ inbox # << >> /\ inbox' = Tail(inbox)
          /\ UNCHANGED <<reqs, wire, late>>
      BY <1>6 DEF TakeEcho, TakeValue, EchoComplete
    <2> QED
      BY <2>1, Sizes
  <1>7. CASE Timeout
    <2>1. /\ pc \in {"awaitEcho", "awaitValue"} /\ pc' \notin {"awaitEcho", "awaitValue"}
          /\ inbox' = << >> /\ UNCHANGED <<reqs, wire>>
          /\ late' = IF reqs = << >> /\ wire = << >> THEN late ELSE late + 1
      BY <1>7, TryAgainTypes DEF Timeout
    <2> QED
      BY <1>0, <2>1, Sizes
  <1>8. CASE ReceiveFails
    <2>1. reqs' = << >> /\ wire' = << >> /\ inbox' = << >> /\ late' = late
      BY <1>8 DEF ReceiveFails
    <2> QED
      BY <1>0, <2>1, Sizes
  <1>9. CASE Serve
    <2>1. /\ reqs # << >> /\ reqs' = Tail(reqs)
          /\ UNCHANGED <<inbox, late, pc>>
      BY <1>9 DEF Serve, callVars
    <2>2. \E m : wire' = Append(wire, m)
      BY <1>9 DEF Serve, Answer
    <2>3. Len(wire') = Len(wire) + 1
      BY <2>2 DEF TypeOK
    <2> QED
      BY <2>1, <2>3, Sizes
  <1>10. CASE RequestLost
    <2>1. /\ reqs # << >> /\ reqs' = Tail(reqs)
          /\ UNCHANGED <<wire, inbox, late, pc>>
      BY <1>10 DEF RequestLost, callVars
    <2> QED
      BY <2>1, Sizes
  <1>11. CASE Arrive \/ AnswerLost
    <2>1. /\ wire # << >> /\ wire' = Tail(wire)
          /\ UNCHANGED <<reqs, late, pc>>
          /\ (inbox' = inbox \/ \E m : inbox' = Append(inbox, m))
      BY <1>11 DEF Arrive, AnswerLost, callVars
    <2>2. Len(inbox') <= Len(inbox) + 1 /\ Len(inbox') \in Nat
      BY <2>1, Sizes DEF TypeOK
    <2> QED
      BY <2>1, <2>2, Sizes
  <1>12. CASE Panel \/ UNCHANGED vars
    <2>1. UNCHANGED <<reqs, wire, inbox, late, pc>>
      BY <1>12 DEF Panel, vars, lineVars, callVars
    <2> QED
      BY <2>1
  <1> QED
    BY <1>1, <1>2, <1>4, <1>5, <1>6, <1>7, <1>8, <1>9, <1>10, <1>11, <1>12
       DEF Next, Client, Device, Line

\* An answer has a value only if it answers a read, and then the register's.
LEMMA ServedAnswer ==
  ASSUME TypeOK, Serve
  PROVE  /\ reqs # << >> /\ reqs' = Tail(reqs) /\ inbox' = inbox /\ Head(reqs) \in Calls
         /\ \E m \in Answers :
              /\ wire' = Append(wire, m)
              /\ m.fn = "value" => /\ Head(reqs).fn = "read" /\ Head(reqs).addr \in Present
                                   /\ m.val = reg[Head(reqs).addr]
  <1>1. reqs # << >> /\ reqs' = Tail(reqs) /\ inbox' = inbox
    BY DEF Serve
  <1>2. Head(reqs) \in Calls /\ Head(reqs).addr \in Addrs /\ Head(reqs).val \in Values
    BY <1>1, QueueFacts, CallFields DEF TypeOK
  <1>3. ASSUME NEW fn \in {"value", "echo", "exception"}, NEW v \in Values, Answer(fn, v),
               fn = "value" => /\ Head(reqs).fn = "read" /\ Head(reqs).addr \in Present
                               /\ v = reg[Head(reqs).addr]
        PROVE  \E m \in Answers :
                 /\ wire' = Append(wire, m)
                 /\ m.fn = "value" => /\ Head(reqs).fn = "read"
                                      /\ Head(reqs).addr \in Present
                                      /\ m.val = reg[Head(reqs).addr]
    <2> DEFINE m == [fn |-> fn, val |-> v, intact |-> TRUE]
    <2>1. m \in Answers /\ m.fn = fn /\ m.val = v
      BY DEF Answers
    <2>2. wire' = Append(wire, m)
      BY <1>3 DEF Answer
    <2> HIDE DEF m
    <2> QED
      BY <1>3, <2>1, <2>2
  <1>4. CASE Head(reqs).addr \in Absent
    <2>1. Answer("exception", NoValue)
      BY <1>4 DEF Serve
    <2> QED
      BY <1>1, <1>2, <1>3, <2>1 DEF Values
  <1>5. CASE Head(reqs).addr \notin Absent
    <2>1. Head(reqs).addr \in Present
      BY <1>2, <1>5 DEF Present
    <2>2. reg[Head(reqs).addr] \in Values
      BY <2>1 DEF TypeOK, Values
    <2>3. \/ Answer("echo", Head(reqs).val)
          \/ Head(reqs).fn = "read" /\ Answer("value", reg[Head(reqs).addr])
      BY <1>5 DEF Serve
    <2> QED
      BY <1>1, <1>2, <1>3, <2>1, <2>2, <2>3
  <1> QED
    BY <1>4, <1>5

\* While the client waits for a value, what its register holds is seen.
LEMMA SeenGrows ==
  ASSUME TypeOK, Device \/ Line \/ Panel, pc = "awaitValue",
         op.addr \in Present => reg[op.addr] \in seen
  PROVE  seen \subseteq seen' /\ (op.addr \in Present => reg'[op.addr] \in seen')
  <1>1. ASSUME NEW a, NEW v, Changed(a, v)
        PROVE  seen \subseteq seen' /\ (op.addr \in Present => reg'[op.addr] \in seen')
    <2>1. /\ reg' = [reg EXCEPT ![a] = v]
          /\ seen' = IF a = op.addr THEN seen \cup {v} ELSE seen
      BY <1>1 DEF Changed
    <2>2. op.addr \in Present =>
            reg'[op.addr] = IF a = op.addr THEN v ELSE reg[op.addr]
      BY <2>1 DEF TypeOK
    <2> QED
      BY <2>1, <2>2
  <1>2. (\E a, v : Changed(a, v)) \/ UNCHANGED <<reg, seen>>
    BY DEF Device, Serve, RequestLost, Line, Arrive, AnswerLost, Panel
  <1> QED
    BY <1>1, <1>2

\* The frames of a read stay in front.
LEMMA ReadsFirstKept ==
  ASSUME TypeOK, ReadsFirst, Device \/ Line \/ Panel
  PROVE  ReadsFirst'
  <1> USE DEF ReadsFirst
  <1>1. CASE Serve
    <2>1. PICK m \in Answers :
            /\ reqs # << >> /\ reqs' = Tail(reqs) /\ inbox' = inbox
            /\ wire' = Append(wire, m) /\ (m.fn = "value" => Head(reqs).fn = "read")
      BY <1>1, ServedAnswer
    <2>2. /\ Head(reqs) = reqs[1] /\ 1 \in 1..Len(reqs)
          /\ \A i \in 1..Len(reqs') : i + 1 \in 1..Len(reqs) /\ reqs'[i] = reqs[i + 1]
      BY <2>1, QueueOrder DEF TypeOK
    <2>3. \A i \in 1..Len(wire') :
            \/ i = Len(wire) + 1 /\ wire'[i] = m
            \/ i \in 1..Len(wire) /\ wire'[i] = wire[i]
      BY <2>1, QueueOrder DEF TypeOK
    <2>4. ASSUME NEW i \in 1..Len(reqs')
          PROVE  reqs'[i].fn # "read"
      BY <2>2
    <2>5. ASSUME NEW i \in 1..Len(wire'), wire'[i].fn = "value"
          PROVE  i = 1 /\ inbox' = << >>
      <3>1. CASE i = Len(wire) + 1 /\ wire'[i] = m
        <4>1. wire = << >> /\ inbox = << >>
          BY <2>1, <2>2, <2>5, <3>1
        <4>2. Len(wire) = 0
          BY <4>1
        <4> QED
          BY <2>1, <3>1, <4>1, <4>2
      <3>2. CASE i \in 1..Len(wire) /\ wire'[i] = wire[i]
        BY <2>1, <2>5, <3>2
      <3> QED
        BY <2>3, <3>1, <3>2
    <2> QED
      BY <2>4, <2>5
  <1>2. CASE RequestLost
    <2>1. reqs # << >> /\ reqs' = Tail(reqs) /\ UNCHANGED <<wire, inbox>>
      BY <1>2 DEF RequestLost
    <2>2. \A i \in 1..Len(reqs') : i + 1 \in 1..Len(reqs) /\ reqs'[i] = reqs[i + 1]
      BY <2>1, QueueOrder DEF TypeOK
    <2>3. \A i \in 1..Len(reqs') : reqs'[i].fn # "read"
      BY <2>2
    <2> QED
      BY <2>1, <2>3
  <1>3. CASE Arrive \/ AnswerLost
    <2>1. wire # << >> /\ wire' = Tail(wire) /\ reqs' = reqs
      BY <1>3 DEF Arrive, AnswerLost
    <2>2. \A i \in 1..Len(wire') : i + 1 \in 1..Len(wire) /\ wire'[i] = wire[i + 1]
      BY <2>1, QueueOrder DEF TypeOK
    <2>3. \A i \in 1..Len(wire') : wire'[i].fn # "value"
      BY <2>2
    <2> QED
      BY <2>1, <2>3
  <1>4. CASE Panel
    BY <1>4 DEF Panel, lineVars
  <1> QED
    BY <1>1, <1>2, <1>3, <1>4 DEF Device, Line

\* A line without reads stays without.
LEMMA NoReadsKept ==
  ASSUME TypeOK, NoReads, Device \/ Line \/ Panel
  PROVE  NoReads'
  <1> USE DEF NoReads
  <1>1. CASE Serve
    <2>1. PICK m \in Answers :
            /\ reqs # << >> /\ reqs' = Tail(reqs) /\ inbox' = inbox
            /\ wire' = Append(wire, m) /\ (m.fn = "value" => Head(reqs).fn = "read")
      BY <1>1, ServedAnswer
    <2>2. /\ Head(reqs) = reqs[1] /\ 1 \in 1..Len(reqs)
          /\ \A i \in 1..Len(reqs') : i + 1 \in 1..Len(reqs) /\ reqs'[i] = reqs[i + 1]
      BY <2>1, QueueOrder DEF TypeOK
    <2>3. \A i \in 1..Len(wire') :
            \/ i = Len(wire) + 1 /\ wire'[i] = m
            \/ i \in 1..Len(wire) /\ wire'[i] = wire[i]
      BY <2>1, QueueOrder DEF TypeOK
    <2> QED
      BY <2>1, <2>2, <2>3
  <1>2. CASE RequestLost
    <2>1. reqs # << >> /\ reqs' = Tail(reqs) /\ UNCHANGED <<wire, inbox>>
      BY <1>2 DEF RequestLost
    <2>2. \A i \in 1..Len(reqs') : i + 1 \in 1..Len(reqs) /\ reqs'[i] = reqs[i + 1]
      BY <2>1, QueueOrder DEF TypeOK
    <2> QED
      BY <2>1, <2>2
  <1>3. CASE Arrive \/ AnswerLost
    <2>1. wire # << >> /\ wire' = Tail(wire) /\ reqs' = reqs
      BY <1>3 DEF Arrive, AnswerLost
    <2>2. \A i \in 1..Len(wire') : i + 1 \in 1..Len(wire) /\ wire'[i] = wire[i + 1]
      BY <2>1, QueueOrder DEF TypeOK
    <2> QED
      BY <2>1, <2>2
  <1>4. CASE Panel
    BY <1>4 DEF Panel, lineVars
  <1> QED
    BY <1>1, <1>2, <1>3, <1>4 DEF Device, Line

\* The verifying read and its answer stay behind all other frames, and the
\* answer has a value that the register had since the request.
LEMMA OwnReadLastKept ==
  ASSUME TypeOK, OwnReadLast, pc = "awaitValue", Device \/ Line \/ Panel
  PROVE  OwnReadLast'
  <1>0. /\ op' = op /\ ReadRequest' = ReadRequest
        /\ seen \subseteq seen' /\ (op.addr \in Present => reg'[op.addr] \in seen')
    <2>1. op' = op
      BY DEF Device, Serve, RequestLost, Line, Arrive, AnswerLost, Panel, callVars
    <2> QED
      BY <2>1, SeenGrows DEF OwnReadLast, ReadRequest
  <1> USE DEF OwnReadLast
  <1>1. CASE Serve
    <2>1. PICK m \in Answers :
            /\ reqs # << >> /\ reqs' = Tail(reqs) /\ inbox' = inbox
            /\ wire' = Append(wire, m)
            /\ m.fn = "value" => /\ Head(reqs).fn = "read" /\ Head(reqs).addr \in Present
                                 /\ m.val = reg[Head(reqs).addr]
      BY <1>1, ServedAnswer
    <2>2. /\ Head(reqs) = reqs[1] /\ 1 \in 1..Len(reqs)
          /\ \A i \in 1..Len(reqs') : i + 1 \in 1..Len(reqs) /\ reqs'[i] = reqs[i + 1]
      BY <2>1, QueueOrder DEF TypeOK
    <2>3. \A i \in 1..Len(wire') :
            \/ i = Len(wire) + 1 /\ wire'[i] = m
            \/ i \in 1..Len(wire) /\ wire'[i] = wire[i]
      BY <2>1, QueueOrder DEF TypeOK
    <2>4. /\ Len(reqs') = Len(reqs) - 1 /\ Len(wire') = Len(wire) + 1
          /\ Len(reqs) \in Nat /\ Len(wire) \in Nat
          /\ (Len(reqs) = 1 => reqs' = << >>)
      <3>1. Tail(reqs) \in Seq(Calls) /\ Len(Tail(reqs)) = Len(reqs) - 1
        BY <2>1, QueueFacts DEF TypeOK
      <3>2. Len(reqs) = 1 => Tail(reqs) = << >>
        BY LastTaken DEF TypeOK
      <3>3. Len(Append(wire, m)) = Len(wire) + 1
        BY QueueFacts DEF TypeOK
      <3> QED
        BY <2>1, <3>1, <3>2, <3>3, Sizes
    <2>5. ASSUME NEW i \in 1..Len(reqs'), reqs'[i].fn = "read"
          PROVE  i = Len(reqs') /\ reqs'[i] = ReadRequest
      <3>1. i + 1 \in 1..Len(reqs) /\ reqs[i + 1].fn = "read" /\ reqs'[i] = reqs[i + 1]
        BY <2>2, <2>5
      <3>2. i + 1 = Len(reqs) /\ reqs[i + 1] = ReadRequest
        BY <3>1
      <3> QED
        BY <2>4, <3>1, <3>2
    <2>6. ASSUME NEW i \in 1..Len(wire'), wire'[i].fn = "value"
          PROVE  i = Len(wire') /\ reqs' = << >> /\ wire'[i].val \in seen'
      <3>1. wire'[i] = m /\ i = Len(wire')
        BY <2>1, <2>3, <2>4, <2>6
      <3>2. Head(reqs) = ReadRequest /\ Len(reqs) = 1 /\ m.val = reg[Head(reqs).addr]
            /\ Head(reqs).addr \in Present
        BY <2>1, <2>2, <2>6, <3>1
      <3>3. Head(reqs).addr = op.addr
        BY <3>2 DEF ReadRequest
      <3> QED
        BY <1>0, <2>4, <3>1, <3>2, <3>3
    <2>7. ASSUME NEW i \in 1..Len(inbox')
          PROVE  ~ReadsAs(inbox'[i])
      BY <2>1, <2>7
    <2> QED
      BY <1>0, <2>5, <2>6, <2>7 DEF ReadsAs
  <1>2. CASE RequestLost
    <2>1. reqs # << >> /\ reqs' = Tail(reqs) /\ UNCHANGED <<wire, inbox>>
      BY <1>2 DEF RequestLost
    <2>2. \A i \in 1..Len(reqs') : i + 1 \in 1..Len(reqs) /\ reqs'[i] = reqs[i + 1]
      BY <2>1, QueueOrder DEF TypeOK
    <2>3. Len(reqs') = Len(reqs) - 1 /\ Len(reqs) \in Nat
      BY <2>1, Sizes
    <2>4. \A i \in 1..Len(wire') : wire'[i].fn # "value"
      BY <2>1
    <2>5. \A i \in 1..Len(inbox') : ~ReadsAs(inbox'[i])
      BY <2>1
    <2>6. ASSUME NEW i \in 1..Len(reqs'), reqs'[i].fn = "read"
          PROVE  i = Len(reqs') /\ reqs'[i] = ReadRequest
      BY <2>2, <2>3, <2>6
    <2> QED
      BY <1>0, <2>4, <2>5, <2>6 DEF ReadsAs
  <1>3. CASE Arrive \/ AnswerLost
    <2>1. wire # << >> /\ wire' = Tail(wire) /\ reqs' = reqs
      BY <1>3 DEF Arrive, AnswerLost
    <2>2. /\ Head(wire) = wire[1] /\ 1 \in 1..Len(wire) /\ Head(wire) \in Answers
          /\ \A i \in 1..Len(wire') : i + 1 \in 1..Len(wire) /\ wire'[i] = wire[i + 1]
      BY <2>1, QueueOrder, QueueFacts DEF TypeOK
    <2>3. /\ Len(wire') = Len(wire) - 1 /\ Len(wire) \in Nat /\ Len(inbox) \in Nat
          /\ (Len(wire) = 1 => wire' = << >>)
      <3>1. Tail(wire) \in Seq(Answers) /\ Len(Tail(wire)) = Len(wire) - 1
        BY <2>1, QueueFacts DEF TypeOK
      <3>2. Len(wire) = 1 => Tail(wire) = << >>
        BY LastTaken DEF TypeOK
      <3> QED
        BY <2>1, <3>1, <3>2, Sizes
    <2>4. ASSUME NEW i \in 1..Len(wire'), wire'[i].fn = "value"
          PROVE  i = Len(wire') /\ reqs' = << >> /\ wire'[i].val \in seen'
      <3>1. i + 1 \in 1..Len(wire) /\ wire[i + 1].fn = "value" /\ wire'[i] = wire[i + 1]
        BY <2>2, <2>4
      <3>2. i + 1 = Len(wire) /\ reqs = << >> /\ wire[i + 1].val \in seen
        BY <3>1
      <3>3. i = Len(wire')
        BY <2>3, <3>2
      <3>4. wire'[i].val \in seen'
        BY <1>0, <3>1, <3>2
      <3> QED
        BY <2>1, <3>2, <3>3, <3>4
    <2>5. \A i \in 1..Len(reqs') :
            reqs'[i].fn = "read" => i = Len(reqs') /\ reqs'[i] = ReadRequest
      BY <2>1
    <2>6. \A i \in 1..Len(inbox) : ~ReadsAs(inbox[i])
      BY <2>1
    <2>7. CASE inbox' = inbox
      BY <1>0, <2>4, <2>5, <2>6, <2>7 DEF ReadsAs
    <2>8. ASSUME NEW m \in Answers, inbox' = Append(inbox, m),
                 ReadsAs(m) => m = Head(wire)
          PROVE  OwnReadLast'
      <3>1. \A i \in 1..Len(inbox') :
              \/ i = Len(inbox) + 1 /\ inbox'[i] = m
              \/ i \in 1..Len(inbox) /\ inbox'[i] = inbox[i]
        BY <2>8, QueueOrder DEF TypeOK
      <3>2. Len(inbox') = Len(inbox) + 1
        BY <2>8, QueueFacts DEF TypeOK
      <3>3. ASSUME NEW i \in 1..Len(inbox'), ReadsAs(inbox'[i])
            PROVE  /\ i = Len(inbox') /\ wire' = << >> /\ reqs' = << >>
                   /\ inbox'[i].val \in seen'
        <4>1. i = Len(inbox') /\ inbox'[i] = m
          BY <2>6, <3>1, <3>2, <3>3
        <4>2. m = wire[1] /\ wire[1].fn = "value"
          BY <2>2, <2>8, <3>3, <4>1 DEF ReadsAs
        <4> QED
          BY <1>0, <2>1, <2>2, <2>3, <4>1, <4>2
      <3> QED
        BY <1>0, <2>4, <2>5, <3>3 DEF ReadsAs
    <2>9. DEFINE g == [Head(wire) EXCEPT !.intact = FALSE, !.val = NoValue]
    <2>10. g \in Answers /\ ~ReadsAs(g)
      BY <2>2 DEF Answers, Values, ReadsAs
    <2> QED
      BY <1>3, <2>2, <2>7, <2>8, <2>10 DEF Arrive, AnswerLost
  <1>4. CASE Panel
    BY <1>0, <1>4 DEF Panel, lineVars, ReadsAs
  <1> QED
    BY <1>1, <1>2, <1>3, <1>4 DEF Device, Line

\* Before a write is sent at most one frame, the late one, is under way, and
\* an echo that is taken leaves no frame of a read behind it.
LEMMA WriteSteps ==
  ASSUME TypeOK, WriteOnly, LateFrames, OneLate, SendWrite \/ TakeEcho
  PROVE  OneLate'
  <1>1. CASE TryAgain
    BY <1>1, TryAgainTypes DEF OneLate
  <1>2. CASE SendWrite /\ ~TryAgain
    <2>1. /\ pc = "sendWrite" /\ pc' = "awaitEcho" /\ reqs' = Append(reqs, op)
          /\ inbox' = << >> /\ UNCHANGED <<op, wire, late>>
      BY <1>2 DEF SendWrite, Send
    <2>2. Len(reqs) \in Nat /\ Len(wire) \in Nat /\ (wire = << >> <=> Len(wire) = 0)
          /\ Len(inbox) \in Nat /\ late \in Nat
      BY Sizes
    <2>3. SUFFICES ASSUME late <= 1
                   PROVE  ReadsFirst'
      BY <2>1 DEF OneLate
    <2>4. Len(reqs) + Len(wire) <= 1
      BY <2>1, <2>2, <2>3 DEF LateFrames, UnderWay
    <2>5. op.fn = "write"
      BY <2>1 DEF WriteOnly
    <2>6. \A i \in 1..Len(reqs') :
            \/ i = Len(reqs) + 1 /\ reqs'[i] = op
            \/ i \in 1..Len(reqs) /\ reqs'[i] = reqs[i]
      BY <2>1, QueueOrder DEF TypeOK
    <2>7. ASSUME NEW i \in 1..Len(reqs'), reqs'[i].fn = "read"
          PROVE  i = 1 /\ wire' = << >>
      <3>1. i \in 1..Len(reqs)
        BY <2>5, <2>6, <2>7
      <3>2. i = 1 /\ Len(wire) = 0
        BY <2>2, <2>4, <3>1
      <3> QED
        BY <2>1, <2>2, <3>2
    <2>8. \A i \in 1..Len(wire') : i = 1
      BY <2>1, <2>2, <2>4
    <2> QED
      BY <2>1, <2>7, <2>8 DEF ReadsFirst
  <1>3. CASE TakeEcho /\ ~TryAgain
    <2>1. /\ pc = "awaitEcho" /\ pc' = "sendRead" /\ inbox # << >>
          /\ UNCHANGED <<op, reqs, wire, late>>
      BY <1>3 DEF TakeEcho, EchoComplete
    <2>2. late <= 1 => NoReads'
      BY <2>1 DEF OneLate, ReadsFirst, NoReads
    <2> QED
      BY <2>1, <2>2 DEF OneLate
  <1> QED
    BY <1>1, <1>2, <1>3

\* The verifying read is sent behind frames of writes only, and the value
\* that is taken is its own, the last frame of all.
LEMMA ReadSteps ==
  ASSUME TypeOK, OneLate, SendRead \/ TakeValue
  PROVE  OneLate'
  <1>1. CASE TryAgain
    BY <1>1, TryAgainTypes DEF OneLate
  <1>2. CASE SendRead /\ ~TryAgain
    <2>1. /\ pc = "sendRead" /\ pc' = "awaitValue" /\ reqs' = Append(reqs, ReadRequest)
          /\ inbox' = << >> /\ UNCHANGED <<op, wire, reg, late>>
          /\ seen' = {reg[a] : a \in {op.addr} \cap Present}
      BY <1>2 DEF SendRead, Send
    <2>2. SUFFICES ASSUME late <= 1, op.fn = "write"
                   PROVE  OwnReadLast'
      BY <2>1 DEF OneLate
    <2>3. NoReads
      BY <2>1, <2>2 DEF OneLate
    <2>4. ReadRequest' = ReadRequest /\ ReadRequest \in Calls
      BY <2>1, CallFields DEF ReadRequest, TypeOK
    <2>5. \A i \in 1..Len(reqs') :
            \/ i = Len(reqs) + 1 /\ reqs'[i] = ReadRequest
            \/ i \in 1..Len(reqs) /\ reqs'[i] = reqs[i]
      BY <2>1, <2>4, QueueOrder DEF TypeOK
    <2>6. Len(reqs') = Len(reqs) + 1
      BY <2>1, <2>4, QueueFacts DEF TypeOK
    <2>7. \A i \in 1..Len(reqs') :
            reqs'[i].fn = "read" => i = Len(reqs') /\ reqs'[i] = ReadRequest'
      BY <2>3, <2>4, <2>5, <2>6 DEF NoReads
    <2>8. \A i \in 1..Len(wire') : wire'[i].fn # "value"
      BY <2>1, <2>3 DEF NoReads
    <2>9. op'.addr \in Present => reg'[op'.addr] \in seen'
      BY <2>1
    <2>10. 1..Len(inbox') = {}
      <3>1. Len(inbox') = 0
        BY <2>1
      <3> QED
        BY <3>1
    <2> QED
      BY <2>7, <2>8, <2>9, <2>10 DEF OwnReadLast
  <1>3. CASE TakeValue /\ ~TryAgain
    <2>1. /\ pc = "awaitValue" /\ inbox # << >>
          /\ ReadsAs(Head(inbox)) /\ Verifies(Head(inbox))
          /\ pc' = "idle" /\ UNCHANGED <<op, seen, reqs, late>>
      BY <1>3 DEF TakeValue, Return
    <2>2. Head(inbox) = inbox[1] /\ 1 \in 1..Len(inbox)
      BY <2>1, QueueOrder DEF TypeOK
    <2>3. late <= 1 /\ op.fn = "write" => op.val \in seen /\ reqs = << >>
      BY <2>1, <2>2 DEF OneLate, OwnReadLast, Verifies
    <2> QED
      BY <2>1, <2>3 DEF OneLate
  <1> QED
    BY <1>1, <1>2, <1>3

\* All steps keep the order of the frames.
LEMMA OneLateKept == TypeOK /\ WriteOnly /\ LateFrames /\ OneLate /\ [Next]_vars => OneLate'
  <1> SUFFICES ASSUME TypeOK, WriteOnly, LateFrames, OneLate, [Next]_vars
               PROVE  OneLate'
    OBVIOUS
  <1>1. CASE \/ Connect \/ SerialConnectFails \/ TcpDisconnect \/ SerialDisconnect
             \/ FlushBuffer
    <2>1. /\ pc = "idle" /\ UNCHANGED <<pc, op, result, seen, late>>
          /\ (reqs' = reqs \/ reqs' = << >>)
      BY <1>1 DEF Connect, TcpConnect, SerialConnect, SerialConnectFails, TcpDisconnect,
                  SerialDisconnect, FlushBuffer, clientVars, callVars, lineVars
    <2> QED
      BY <2>1 DEF OneLate
  <1>2. CASE \E a \in Addrs : ReadRegister(a) \/ \E v \in Vals : WriteRegister(a, v)
    <2>1. pc' \in {"idle", "sendRead", "sendWrite"} /\ result' = Failed
          /\ (pc' = "sendRead" => op'.fn = "read")
      BY <1>2 DEF ReadRegister, WriteRegister, Begin
    <2> QED
      BY <2>1 DEF OneLate, Failed
  <1>3. CASE Timeout \/ ReceiveFails
    BY <1>3, TryAgainTypes DEF Timeout, ReceiveFails, OneLate
  <1>4. CASE Device \/ Line \/ Panel
    <2>1. UNCHANGED <<pc, op, result, late>>
      BY <1>4 DEF Device, Serve, RequestLost, Line, Arrive, AnswerLost, Panel, callVars
    <2>2. pc = "idle" => seen' = seen /\ (reqs = << >> => reqs' = reqs)
      BY <1>4 DEF Device, Serve, RequestLost, Line, Arrive, AnswerLost, Panel, Changed, lineVars
    <2> QED
      BY <1>4, <2>1, <2>2, ReadsFirstKept, NoReadsKept, OwnReadLastKept DEF OneLate
  <1>5. CASE UNCHANGED vars
    BY <1>5 DEF vars, OneLate, ReadsFirst, NoReads, OwnReadLast, ReadRequest, ReadsAs
  <1> QED
    BY <1>1, <1>2, <1>3, <1>4, <1>5, WriteSteps, ReadSteps DEF Next, Client

\* The order of the frames is kept in every reachable state.
LEMMA OneLateAlways == Spec => []OneLate
  <1>1. Init => WriteOnly /\ LateFrames /\ OneLate
    <2> SUFFICES ASSUME Init
                 PROVE  LateFrames
      BY DEF Init, WriteOnly, OneLate, Failed
    <2>1. Len(reqs) = 0 /\ Len(wire) = 0 /\ Len(inbox) = 0 /\ late = 0 /\ pc = "idle"
      BY DEF Init
    <2> QED
      BY <2>1 DEF LateFrames, UnderWay
  <1>2. TypeOK /\ WriteOnly /\ [Next]_vars => WriteOnly'
    <2> SUFFICES ASSUME TypeOK, WriteOnly, [Next]_vars
                 PROVE  WriteOnly'
      OBVIOUS
    <2>1. CASE \E a \in Addrs : ReadRegister(a) \/ \E v \in Vals : WriteRegister(a, v)
      BY <2>1 DEF ReadRegister, WriteRegister, Begin, WriteOnly
    <2>2. CASE Client \/ ReceiveFails
      BY <2>2 DEF Client, SendWrite, TakeEcho, SendRead, TakeValue, Timeout, ReceiveFails,
                  TryAgain, Return, WriteOnly
    <2>3. CASE UNCHANGED <<pc, op>>
      BY <2>3 DEF WriteOnly
    <2> QED
      BY <2>1, <2>2, <2>3
         DEF Next, vars, callVars, Connect, TcpConnect, SerialConnect, SerialConnectFails,
             TcpDisconnect, SerialDisconnect, FlushBuffer, Device, Serve, RequestLost, Line,
             Arrive, AnswerLost, Panel
  <1> QED
    BY <1>1, <1>2, InvAlways, LateFramesKept, OneLateKept, PTL DEF Spec, Inv

-----------------------------------------------------------------------------
(* Theorems *)

\* The variables keep their types; in particular a write makes at most
\* MODBUS_WRITE_MAX_RETRIES attempts and every frame is well-formed.
THEOREM TypeCorrect == Spec => []TypeOK
  BY InvAlways, PTL DEF Inv

\* A read sent when nothing was under way returns a value its own register
\* had during the call, whatever was lost, garbled, refused or late before
\* (modbus_read_register, modbus_serial_read_register).
THEOREM ReadsAreGenuine == Spec => []ReadGenuine
  <1>1. Inv => ReadGenuine
    BY DEF Inv, Sound, ReadGenuine
  <1> QED
    BY <1>1, InvAlways, PTL

\* A write that returns success after a verifying read sent when nothing
\* was under way has reached its register, and no earlier write is left to
\* overwrite it (modbus_write_register, modbus_serial_write_register).
THEOREM WritesAreVerified == Spec => []WriteVerified
  <1>1. Inv => WriteVerified
    <2> SUFFICES ASSUME Inv, pc = "idle", op.fn = "write", result.ok, clean
                 PROVE  Done
      BY DEF WriteVerified
    <2>1. op.val \in seen /\ reqs = << >>
      BY DEF Inv, Sound
    <2>2. DOMAIN reqs = {}
      BY <2>1
    <2> QED
      BY <2>1, <2>2 DEF Done
  <1> QED
    BY <1>1, InvAlways, PTL

\* A write is never reported as done that is not, also when one answer came
\* late and shifted those that follow: by the time a value is taken for the
\* verifying read, only that read's own answer can have one.
THEOREM OneLateAnswer == Spec => []OneLateAnswerHarmless
  <1>1. OneLate => OneLateAnswerHarmless
    <2> SUFFICES ASSUME OneLate, pc = "idle", op.fn = "write", result.ok, late <= 1
                 PROVE  Done
      BY DEF OneLateAnswerHarmless
    <2>1. op.val \in seen /\ reqs = << >>
      BY DEF OneLate
    <2>2. DOMAIN reqs = {}
      BY <2>1
    <2> QED
      BY <2>1, <2>2 DEF Done
  <1> QED
    BY <1>1, OneLateAlways, PTL
=============================================================================
