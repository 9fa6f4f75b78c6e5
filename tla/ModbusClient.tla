---------------------------- MODULE ModbusClient ----------------------------
(***************************************************************************)
(* The two real Modbus clients, TCP (modbus_client.c, ModbusClient.cpp)   *)
(* and serial (modbus_serial_client.c, ModbusSerialClient.cpp), talking   *)
(* RTU frames over a line to the heat pump.  One call is in progress at a *)
(* time: a read, or a write of up to MaxAttempts attempts, each verified  *)
(* by a read.  Frames are requests and answers; an RTU answer to a read   *)
(* names no address, and the clients do not compare the address in the    *)
(* answer to a write.                                                      *)
(*                                                                         *)
(* The line keeps frames in order.  It loses requests and answers and     *)
(* garbles answers.  An answer that is still under way when the client    *)
(* stops waiting for it is late; MaxLate bounds their number.             *)
(***************************************************************************)
EXTENDS Naturals, Sequences

CONSTANTS
    Kinds,          \* the clients main may choose: "tcp", "serial"
    Addrs,          \* addresses of the registers the program knows
    Vals,           \* register values
    NoValue,        \* no register value
    Absent,         \* registers this firmware answers with an exception
    MaxAttempts,    \* MODBUS_WRITE_MAX_RETRIES, MODBUS_SERIAL_WRITE_MAX_RETRIES (3)
    Exclusive,      \* a serial device that is open cannot be opened again
    MaxOpen,        \* descriptors the process may have open for its client
    MaxLate         \* bound: late answers in one run

ASSUME ModbusClientAssumption ==
    /\ Kinds \subseteq {"tcp", "serial"}
    /\ NoValue \notin Vals
    /\ Absent \subseteq Addrs
    /\ MaxAttempts \in Nat \ {0}
    /\ Exclusive \in BOOLEAN
    /\ MaxOpen \in Nat \ {0}
    /\ MaxLate \in Nat

VARIABLES
    kind,       \* which client this is
    alive,      \* the C client exists (the TCP wrapper's disconnect destroys it)
    connected,  \* client->connected
    port,       \* client->socket_fd or client->port is set
    leaked,     \* how many descriptors are open that the client no longer knows
    pc,         \* where the call in progress is
    op,         \* the last call
    attempt,    \* its current attempt, retry + 1
    result,     \* what it returned
    reqs,       \* requests on their way to the device
    wire,       \* answers on their way back
    inbox,      \* answers in the receive buffer
    reg,        \* the device's registers
    late,       \* answers the client has stopped waiting for
    seen,       \* history: values of the register since its last read request
    clean       \* history: nothing was under way when that request was sent

clientVars == <<kind, alive, connected, port, leaked>>
callVars == <<pc, op, attempt, result>>
lineVars == <<reqs, wire, inbox>>
vars == <<kind, alive, connected, port, leaked, pc, op, attempt, result, reqs, wire,
          inbox, reg, late, seen, clean>>

Present == Addrs \ Absent
Failed == [ok |-> FALSE, val |-> NoValue]
Values == Vals \cup {NoValue}
Calls == [fn : {"read"}, addr : Addrs, val : {NoValue}]
           \cup [fn : {"write"}, addr : Addrs, val : Vals]
Answers == [fn : {"value", "echo", "exception"}, val : Values, intact : BOOLEAN]

Init ==
    /\ kind \in Kinds /\ alive = TRUE
    /\ connected = FALSE /\ port = FALSE /\ leaked = 0
    /\ pc = "idle" /\ attempt = 1 /\ result = Failed
    /\ op \in {c \in Calls : c.fn = "read"}
    /\ reqs = << >> /\ wire = << >> /\ inbox = << >>
    /\ reg \in [Present -> Vals] /\ late = 0 /\ seen = {} /\ clean = FALSE

-----------------------------------------------------------------------------
(* Connecting, disconnecting and flushing, between calls *)

\* Descriptors that are open: the client's own and those it has lost.
Open == leaked + (IF port THEN 1 ELSE 0)

\* A new socket replaces the old one, which is not closed; when the process
\* has no descriptor left socket() fails and nothing changes.  Answers meant
\* for the old socket may be lost with it.
TcpConnect ==
    /\ kind = "tcp" /\ pc = "idle" /\ alive /\ ~connected
    /\ Open < MaxOpen
    /\ connected' = TRUE /\ port' = TRUE /\ leaked' = Open
    /\ inbox' = << >>
    /\ \/ UNCHANGED <<reqs, wire>>
       \/ reqs' = << >> /\ wire' = << >>
    /\ UNCHANGED <<kind, alive, callVars, reg, late, seen, clean>>

\* windmi_serial_open succeeds unless the process has no descriptor left or
\* the device is held open exclusively, by this client too.
CanOpen == Open < MaxOpen /\ (Exclusive => Open = 0)

\* The new port replaces the old one, which is not closed, and is flushed.
SerialConnect ==
    /\ kind = "serial" /\ pc = "idle" /\ ~connected /\ CanOpen
    /\ connected' = TRUE /\ port' = TRUE /\ leaked' = Open
    /\ inbox' = << >>
    /\ UNCHANGED <<kind, alive, callVars, reqs, wire, reg, late, seen, clean>>

\* A port that cannot be opened leaves client->port null: the descriptor of
\* the old one is lost as well.
SerialConnectFails ==
    /\ kind = "serial" /\ pc = "idle" /\ ~connected
    /\ port' = FALSE /\ leaked' = Open
    /\ UNCHANGED <<kind, alive, connected, callVars, lineVars, reg, late, seen, clean>>

\* The wrapper destroys the C client: the socket is closed only if the
\* client is connected, and connect() returns false from then on.
TcpDisconnect ==
    /\ kind = "tcp" /\ pc = "idle" /\ alive
    /\ alive' = FALSE /\ connected' = FALSE /\ port' = FALSE
    /\ leaked' = IF connected THEN leaked ELSE Open
    /\ inbox' = << >>
    /\ UNCHANGED <<kind, callVars, reqs, wire, reg, late, seen, clean>>

SerialDisconnect ==
    /\ kind = "serial" /\ pc = "idle" /\ port
    /\ connected' = FALSE /\ port' = FALSE
    /\ inbox' = << >>
    /\ UNCHANGED <<kind, alive, leaked, callVars, reqs, wire, reg, late, seen, clean>>

\* flushBuffer, which main calls before it switches the device off.
FlushBuffer ==
    /\ pc = "idle" /\ inbox' = << >>
    /\ UNCHANGED <<clientVars, callVars, reqs, wire, reg, late, seen, clean>>

-----------------------------------------------------------------------------
(* Calls *)

\* A call on a client that is not connected fails at once.
Begin(c, first) ==
    /\ pc = "idle"
    /\ op' = c /\ attempt' = 1 /\ result' = Failed
    /\ pc' = IF connected THEN first ELSE "idle"
    /\ seen' = {} /\ clean' = FALSE
    /\ UNCHANGED <<clientVars, lineVars, reg, late>>

ReadRegister(a) == Begin([fn |-> "read", addr |-> a, val |-> NoValue], "sendRead")

WriteRegister(a, v) == Begin([fn |-> "write", addr |-> a, val |-> v], "sendWrite")

Return(r) == pc' = "idle" /\ result' = r /\ attempt' = 1 /\ UNCHANGED op

\* Mutant: one attempt too many.
TryAgainOnceMore ==
    IF op.fn = "write" /\ attempt <= MaxAttempts
      THEN pc' = "sendWrite" /\ attempt' = attempt + 1 /\ UNCHANGED <<op, result>>
      ELSE Return(Failed)

\* Mutant: the retry counter is not advanced.
TryAgainForever ==
    IF op.fn = "write"
      THEN pc' = "sendWrite" /\ UNCHANGED <<op, attempt, result>>
      ELSE Return(Failed)

\* A failed step ends a read; a write goes on to its next attempt, if any,
\* also when the link is known to be lost.
TryAgain ==
    IF op.fn = "write" /\ attempt < MaxAttempts
      THEN pc' = "sendWrite" /\ attempt' = attempt + 1 /\ UNCHANGED <<op, result>>
      ELSE Return(Failed)

\* A transfer of a write fails: the TCP client does not notice the loss.
TcpWriteLost == UNCHANGED connected

SerialWriteLost == connected' = FALSE

WriteLost == IF kind = "tcp" THEN TcpWriteLost ELSE SerialWriteLost

\* Mutant: a read that hears nothing leaves the client connected.
ReadLostUnnoticed == UNCHANGED connected

ReadLost == connected' = FALSE

\* Mutant: the receive buffer is not flushed first.
SendUnflushed(request) == reqs' = Append(reqs, request) /\ UNCHANGED inbox

\* What has arrived is flushed before a frame is sent.
Send(request) == reqs' = Append(reqs, request) /\ inbox' = << >>

SendWrite ==
    /\ pc = "sendWrite"
    /\ \/ Send(op) /\ pc' = "awaitEcho" /\ UNCHANGED <<connected, op, attempt, result>>
       \/ inbox' = << >> /\ WriteLost /\ TryAgain /\ UNCHANGED reqs
    /\ UNCHANGED <<kind, alive, port, leaked, wire, reg, late, seen, clean>>

\* Eight bytes have arrived: an echo, or a shorter answer and part of the next.
EchoComplete == inbox # << >> /\ (Head(inbox).fn = "echo" \/ Len(inbox) > 1)

\* Mutant: the write is not read back.
TakeEchoUnverified ==
    /\ pc = "awaitEcho" /\ EchoComplete
    /\ IF Head(inbox).fn = "echo" /\ Head(inbox).intact
         THEN Return([ok |-> TRUE, val |-> op.val])
         ELSE TryAgain
    /\ inbox' = Tail(inbox)
    /\ UNCHANGED <<clientVars, reqs, wire, reg, late, seen, clean>>

\* The slave, the function code and the CRC must be right; whose write it
\* answers is not looked at.
TakeEcho ==
    /\ pc = "awaitEcho" /\ EchoComplete
    /\ IF Head(inbox).fn = "echo" /\ Head(inbox).intact
         THEN pc' = "sendRead" /\ UNCHANGED <<op, attempt, result>>
         ELSE TryAgain
    /\ inbox' = Tail(inbox)
    /\ UNCHANGED <<clientVars, reqs, wire, reg, late, seen, clean>>

ReadRequest == [fn |-> "read", addr |-> op.addr, val |-> NoValue]

\* The read of a readRegister call, or the one that verifies a write.
SendRead ==
    /\ pc = "sendRead"
    /\ \/ /\ connected
          /\ Send(ReadRequest) /\ pc' = "awaitValue"
          /\ seen' = {reg[a] : a \in {op.addr} \cap Present}
          /\ clean' = (reqs = << >> /\ wire = << >>)
          /\ UNCHANGED <<connected, op, attempt, result>>
       \/ /\ connected
          /\ inbox' = << >> /\ ReadLost /\ TryAgain /\ UNCHANGED <<reqs, seen, clean>>
       \/ /\ ~connected
          /\ TryAgain /\ UNCHANGED <<connected, reqs, inbox, seen, clean>>
    /\ UNCHANGED <<kind, alive, port, leaked, wire, reg, late>>

\* Mutant: the CRC of the answer is not checked.
ReadsAnyCrc(a) == a.fn = "value"

\* An exception, an echo and a garbled answer are turned down.
ReadsAs(a) == a.fn = "value" /\ a.intact

\* Mutant: what is read back is not compared.
VerifiesAny(a) == TRUE

\* What is read back after a write must be the value written.
Verifies(a) == op.fn = "write" => a.val = op.val

TakeValue ==
    /\ pc = "awaitValue" /\ inbox # << >>
    /\ LET a == Head(inbox) IN
         IF ReadsAs(a) /\ Verifies(a)
           THEN Return([ok |-> TRUE, val |-> a.val])
           ELSE TryAgain
    /\ inbox' = Tail(inbox)
    /\ UNCHANGED <<clientVars, reqs, wire, reg, late, seen, clean>>

\* Nothing, or too little, has arrived for 2 s.  If an answer is still to
\* come it will be late.
Timeout ==
    /\ \/ pc = "awaitEcho" /\ ~EchoComplete /\ WriteLost
       \/ pc = "awaitValue" /\ inbox = << >> /\ ReadLost
    /\ IF reqs = << >> /\ wire = << >>
         THEN late' = late
         ELSE late < MaxLate /\ late' = late + 1
    /\ inbox' = << >>
    /\ TryAgain
    /\ UNCHANGED <<kind, alive, port, leaked, reqs, wire, reg, seen, clean>>

\* The connection is reset: what is on its way is lost with it.
ReceiveFails ==
    /\ \/ pc = "awaitEcho" /\ WriteLost
       \/ pc = "awaitValue" /\ ReadLost
    /\ reqs' = << >> /\ wire' = << >> /\ inbox' = << >>
    /\ TryAgain
    /\ UNCHANGED <<kind, alive, port, leaked, reg, late, seen, clean>>

-----------------------------------------------------------------------------
(* The device and the line *)

Changed(a, v) ==
    /\ reg' = [reg EXCEPT ![a] = v]
    /\ seen' = IF pc = "awaitValue" /\ a = op.addr THEN seen \cup {v} ELSE seen

Answer(fn, v) == wire' = Append(wire, [fn |-> fn, val |-> v, intact |-> TRUE])

\* The device answers a request.  It may confirm a write it does not keep.
Serve ==
    /\ reqs # << >> /\ reqs' = Tail(reqs)
    /\ LET r == Head(reqs) IN
         IF r.addr \in Absent
           THEN Answer("exception", NoValue) /\ UNCHANGED <<reg, seen>>
           ELSE \/ /\ r.fn = "read" /\ Answer("value", reg[r.addr])
                   /\ UNCHANGED <<reg, seen>>
                \/ /\ r.fn = "write" /\ Answer("echo", r.val)
                   /\ Changed(r.addr, r.val) \/ UNCHANGED <<reg, seen>>
    /\ UNCHANGED <<clientVars, callVars, inbox, late, clean>>

RequestLost ==
    /\ reqs # << >> /\ reqs' = Tail(reqs)
    /\ UNCHANGED <<clientVars, callVars, wire, inbox, reg, late, seen, clean>>

\* An answer arrives in the receive buffer, if there is one, intact or garbled.
Arrive ==
    /\ wire # << >> /\ wire' = Tail(wire)
    /\ \/ port /\ inbox' = Append(inbox, Head(wire))
       \/ port /\ inbox' = Append(inbox, [Head(wire) EXCEPT !.intact = FALSE, !.val = NoValue])
       \/ ~port /\ UNCHANGED inbox
    /\ UNCHANGED <<clientVars, callVars, reqs, reg, late, seen, clean>>

AnswerLost ==
    /\ wire # << >> /\ wire' = Tail(wire)
    /\ UNCHANGED <<clientVars, callVars, reqs, inbox, reg, late, seen, clean>>

\* Someone turns a knob at the device.
Panel ==
    /\ \E a \in Present, v \in Vals : v # reg[a] /\ Changed(a, v)
    /\ UNCHANGED <<clientVars, callVars, lineVars, late, clean>>

-----------------------------------------------------------------------------
Device == Serve \/ RequestLost
Line == Arrive \/ AnswerLost
Client == SendWrite \/ TakeEcho \/ SendRead \/ TakeValue \/ Timeout
Connect == TcpConnect \/ SerialConnect
Poll == connected /\ \E a \in Addrs : ReadRegister(a)

Next ==
    \/ Connect \/ SerialConnectFails \/ TcpDisconnect \/ SerialDisconnect \/ FlushBuffer
    \/ \E a \in Addrs : ReadRegister(a) \/ \E v \in Vals : WriteRegister(a, v)
    \/ Client \/ ReceiveFails \/ Device \/ Line \/ Panel

\* A call's own steps do not stop, and its waits have timeouts; frames do
\* not stay under way for ever.  The control loop polls a connected client
\* and tries to connect one that is not, and a connect that is possible
\* again and again succeeds in the end.
Fairness ==
    /\ WF_vars(Client) /\ WF_vars(Device) /\ WF_vars(Line)
    /\ SF_vars(Poll) /\ SF_vars(Connect)

Spec == Init /\ [][Next]_vars /\ Fairness

-----------------------------------------------------------------------------
(* Properties *)

\* The type of the state; a write never makes more than MaxAttempts attempts,
\* and no more than MaxOpen descriptors are open.
TypeOK ==
    /\ kind \in Kinds /\ alive \in BOOLEAN
    /\ connected \in BOOLEAN /\ port \in BOOLEAN
    /\ leaked \in Nat /\ Open <= MaxOpen
    /\ pc \in {"idle", "sendWrite", "awaitEcho", "sendRead", "awaitValue"}
    /\ op \in Calls /\ attempt \in 1..MaxAttempts
    /\ result \in [ok : BOOLEAN, val : Values]
    /\ reqs \in Seq(Calls) /\ wire \in Seq(Answers) /\ inbox \in Seq(Answers)
    /\ reg \in [Present -> Vals] /\ late \in 0..MaxLate /\ seen \subseteq Vals
    /\ clean \in BOOLEAN

\* The value a read returns is one the register had between the request and
\* the return, however many answers were lost, garbled, refused or late
\* before, provided nothing was under way when the request was sent: what
\* has arrived by then is flushed (modbus_read_register, send_frame).
ReadGenuine ==
    pc = "idle" /\ op.fn = "read" /\ result.ok /\ clean => result.val \in seen

\* The register held the value while it was read back, and no write of an
\* earlier attempt or call is on its way to overwrite it.
Done ==
    /\ op.val \in seen
    /\ \A i \in DOMAIN reqs : reqs[i].fn # "write"

\* A write reported as done is done, if nothing was under way when the read
\* that verifies it was sent (modbus_write_register).
WriteVerified ==
    pc = "idle" /\ op.fn = "write" /\ result.ok /\ clean => Done

\* A single late answer shifts all that follow, since answers to reads name
\* no register and echoes are not compared with the request; even so no
\* write is reported as done that is not.
OneLateAnswerHarmless ==
    pc = "idle" /\ op.fn = "write" /\ result.ok /\ late <= 1 => Done

\* Every call returns, whatever the line and the device do; the control
\* thread relies on it to see a stop request.
CallsReturn == pc # "idle" ~> pc = "idle"

\* If the device falls silent for ever the client notices, again after
\* every reconnect, although a TCP write leaves it connected: the polling
\* reads clear the flag that makes the control loop reconnect.
SilenceNoticed == <>[](inbox = << >>) => []<>(~connected)

\* A client that lost its connection gets it back if the control loop tries
\* for long enough, unless the wrapper has destroyed it.  This is what
\* docs/SERIAL_PORT_PLAN.md asks of connect(), which must close the stale
\* descriptor first.
ReconnectSucceeds == ~connected ~> (connected \/ ~alive)
=============================================================================
