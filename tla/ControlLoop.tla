----------------------------- MODULE ControlLoop -----------------------------
(***************************************************************************)
(* The control logic of ControlLoop.cpp: what the control thread does     *)
(* with commands from the web server and with the device's registers, in  *)
(* one turn after the other of threadFunc.  How the thread is woken is    *)
(* ControlThread's matter, how the queue works CmdQueue's.                *)
(*                                                                         *)
(* Temperatures in the program's floats are hundredths of a degree here,  *)
(* registers hold tenths, as in the device.  The device's own panel can   *)
(* change a register at any time; any Modbus access can fail; a failed    *)
(* write may or may not have reached the register; a save of the settings  *)
(* can fail or be cut short.  What a read that succeeds returns is taken   *)
(* for the register's value: ModbusClient!ReadGenuine says when it is.     *)
(***************************************************************************)
EXTENDS Integers, Sequences, FiniteSets

CONSTANTS
    DhwRequests, HeatRequests,      \* temperatures users ask for, in hundredths
    ModeRequests,                   \* working modes users ask for
    PriorityRequests,               \* 0 or 1
    OccupancyRequests,              \* occupancy modes users ask for
    BootDevice,                     \* the registers before the first start
    PanelWrites,                    \* <<register, value>> the panel can set
    PrioritySupported,              \* FALSE: firmware without register 0x02BF
    Missing,                        \* what a key that is not in the file holds
    PartialSaves,                   \* what a failing save may leave: see NotOpened
    QueueRoom,                      \* commands the queue holds
    MaxRequests, MaxFaults, MaxPanel, MaxRestarts   \* bounds on the environment

\* config.h, in hundredths
DHW_TARGET_MIN == 4000
DHW_TARGET_MAX == 6300
HEATING_TARGET_MIN == 2500
HEATING_TARGET_MAX == 6300

MODE_SET_OFF == 0
MODE_SET_HEAT_DHW == 2

\* The registers written, in the order in which handlers write them.
WriteOrder == <<"mode", "dhw", "heat", "prio", "occ">>
\* The registers readStatus reads, in its order; "other" stands for the four
\* further ones without which a status does not count as read.
ReadOrder == <<"other", "mode", "dhw", "heat", "prio", "occ">>

Registers == {"mode", "dhw", "heat", "prio", "occ"}

\* temp_to_raw and raw_to_temp: the conversion to tenths truncates.
TempToRaw(t) == t \div 10
RawToTemp(r) == r * 10

\* The values a register of the device takes on its own: its documented
\* running modes and target ranges.
RawDhw == TempToRaw(DHW_TARGET_MIN) .. TempToRaw(DHW_TARGET_MAX)
RawHeat == TempToRaw(HEATING_TARGET_MIN) .. TempToRaw(HEATING_TARGET_MAX)
DeviceValue(r, v) ==
    /\ v \in Nat
    /\ r = "mode" => v \in 0 .. 2
    /\ r = "dhw" => v \in RawDhw
    /\ r = "heat" => v \in RawHeat

ASSUME ControlLoopAssumption ==
    /\ DhwRequests \subseteq Nat /\ HeatRequests \subseteq Nat
    /\ ModeRequests \subseteq Int
    /\ PriorityRequests \subseteq {0, 1} /\ OccupancyRequests \subseteq Nat
    /\ BootDevice \in [Registers -> Nat]
    /\ \A r \in Registers : DeviceValue(r, BootDevice[r])
    /\ \A w \in PanelWrites : w[1] \in Registers /\ DeviceValue(w[1], w[2])
    /\ PrioritySupported \in BOOLEAN
    /\ Missing \notin Int /\ Missing \notin {"dhw", "heating"}
    /\ PartialSaves \subseteq -1 .. 3
    /\ QueueRoom \in Nat \ {0}
    /\ MaxRequests \in Nat /\ MaxFaults \in Nat /\ MaxPanel \in Nat /\ MaxRestarts \in Nat

VARIABLES
    pc,         \* where the control thread is in its turn
    queue,      \* cmd_queue_
    mem,        \* the members of ControlLoop
    dev,        \* the device's registers
    ini,        \* the settings file
    connected,  \* the client's connection
    status,     \* the snapshot readStatus filled, until it is published
    snap,       \* the snapshot published last
    asked,      \* ghost: the targets users asked for last, 0 for never
    known,      \* ghost: those of them carried out by this process after its
                \* first complete status
    calm,       \* ghost: nothing has gone wrong or interfered since the last
                \* complete status was read
    unsaved,    \* ghost: the last save of this process failed
    mine,       \* ghost: the priority register was last set by a write of this
                \* process that was acknowledged
    used        \* how much of the bounds is used up

vars == <<pc, queue, mem, dev, ini, connected, status, snap, asked, known, calm, unsaved,
          mine, used>>

-----------------------------------------------------------------------------
(* Settings and start *)

\* The settings file, by its four keys; one that does not exist has none.
NoFile == [mode |-> Missing, prio |-> Missing, dhw |-> Missing, heat |-> Missing]

Or(value, default) == IF value = Missing THEN default ELSE value

\* main: what loadFromFile and the getters' defaults yield.
Load(file) ==
    [mode |-> Or(file.mode, 3), prio |-> Or(file.prio, "dhw"),
     dhw |-> Or(file.dhw, 4500), heat |-> Or(file.heat, 4000)]

\* The constructor followed by setInitialSettings.
BootMem(file) ==
    [desired_working_mode |-> Load(file).mode,
     current_priority |-> Load(file).prio,
     mDhwTarget |-> Load(file).dhw,
     mHeatingTarget |-> Load(file).heat,
     current_mode |-> MODE_SET_HEAT_DHW,
     last_heating_target |-> 4500,
     saved_dhw_target |-> 4600,
     saved_heating_target |-> 4500,
     saved_targets_initialized |-> FALSE]

\* StatusSnapshot{}: the members the properties look at, as they are
\* default-initialised.
NoStatus == [online |-> FALSE, working_mode |-> 0, dhw |-> 0, heat |-> 0, occ |-> 2]

Init ==
    /\ pc = "boot" /\ queue = <<>>
    /\ ini = NoFile /\ mem = BootMem(NoFile)
    /\ dev = BootDevice /\ connected = TRUE
    /\ status = NoStatus /\ snap = NoStatus
    /\ asked = [dhw |-> 0, heat |-> 0] /\ known = {} /\ calm = FALSE
    /\ unsaved = FALSE /\ mine = FALSE
    /\ used = [requests |-> 0, faults |-> 0, panel |-> 0, restarts |-> 0]

-----------------------------------------------------------------------------
(* Modbus accesses and saves *)

AllOk == [r \in Registers |-> "ok"]
AllLost == [r \in Registers |-> "lost"]
Rank(order, r) == CHOOSE i \in DOMAIN order : order[i] = r

\* One write fails, with or without effect, and either only that one (the
\* device refuses it) or all later ones too (the link is gone).
FaultyWrites ==
    {[r \in Registers |->
        IF r = first THEN how
        ELSE IF rest /\ Rank(WriteOrder, r) > Rank(WriteOrder, first) THEN "lost"
        ELSE "ok"] :
     first \in Registers, how \in {"lost", "unacked"}, rest \in BOOLEAN}

\* A save leaves its first n keys in the file, in the order in which
\* std::map yields them: dhw, heat, prio, mode.  A file that cannot be opened
\* stays as it is.  (A line that is cut short counts as missing: half a
\* priority reads as "dhw", half a mode of one digit as none, and no decision
\* depends on the targets in the file.)
NotOpened == -1
AllKeys == 4
AllSaved == [r \in Registers |-> AllKeys]

\* The save that follows the write of register r fails, and either only that
\* one or all later ones too.  Together with the later writes lost, this is
\* what a crash inside a handler leaves behind.
FaultySaves ==
    {[r \in Registers |->
        IF r = first THEN n
        ELSE IF rest /\ Rank(WriteOrder, r) > Rank(WriteOrder, first) THEN NotOpened
        ELSE AllKeys] :
     first \in Registers \ {"occ"}, n \in PartialSaves, rest \in BOOLEAN}

\* Likewise the registers whose reads fail.
FaultyReads ==
    {{r} : r \in Registers \cup {"other"}}
    \cup {{ReadOrder[j] : j \in i .. Len(ReadOrder)} : i \in DOMAIN ReadOrder}

MayFail == used.faults < MaxFaults

\* What may become of the writes and saves of a handler, and of the reads of
\* a status.
WriteOutcomes ==
    IF connected THEN {AllOk} \cup (IF MayFail THEN FaultyWrites ELSE {})
                 ELSE {AllLost}
SaveOutcomes == {AllSaved} \cup (IF MayFail THEN FaultySaves ELSE {})
Outcomes == [writes : WriteOutcomes, saves : SaveOutcomes]
ReadOutcomes ==
    IF connected THEN {{}} \cup (IF MayFail THEN FaultyReads ELSE {})
                 ELSE {Registers \cup {"other"}}

\* A failed transfer may cost the connection; it and a failed save use up the
\* bound.
AfterAccess(failed, spoiled) ==
    /\ UNCHANGED connected \/ (failed /\ connected' = FALSE)
    /\ used' = IF (failed /\ connected) \/ spoiled THEN [used EXCEPT !.faults = @ + 1] ELSE used

\* writeRegister(r, v) under the outcomes o, in a state s of memory, device
\* and file; Acked tells whether it returned without an exception.
Outcome(r, o) == IF r = "prio" /\ ~PrioritySupported THEN "lost" ELSE o.writes[r]
Acked(r, o) == Outcome(r, o) = "ok"
WriteRegister(s, r, v, o) ==
    IF Outcome(r, o) = "lost" THEN s ELSE [s EXCEPT !.dev[r] = v]

Key(i, n, value) == IF i <= n THEN value ELSE Missing

\* fireSettingsCallback: main's callback saves the four settings; it does not
\* look at the result of saveToFile, and neither does anyone else.
FireSettingsCallback(s, n) ==
    IF n = NotOpened
      THEN [s EXCEPT !.unsaved = TRUE]
      ELSE [s EXCEPT !.ini = [dhw |-> Key(1, n, s.mem.mDhwTarget),
                              heat |-> Key(2, n, s.mem.mHeatingTarget),
                              prio |-> Key(3, n, s.mem.current_priority),
                              mode |-> Key(4, n, s.mem.desired_working_mode)],
                     !.unsaved = n < AllKeys]

SetDhwTarget(s, t, o) ==
    LET w == WriteRegister(s, "dhw", TempToRaw(t), o)
    IN  IF Acked("dhw", o)
          THEN FireSettingsCallback([w EXCEPT !.mem.mDhwTarget = t], o.saves["dhw"])
          ELSE w

\* Mutant: a heating target is written but not saved.
SetHeatingTargetUnsaved(s, t, o) ==
    LET w == WriteRegister(s, "heat", TempToRaw(t), o)
    IN  IF Acked("heat", o) THEN [w EXCEPT !.mem.mHeatingTarget = t] ELSE w

SetHeatingTarget(s, t, o) ==
    LET w == WriteRegister(s, "heat", TempToRaw(t), o)
    IN  IF Acked("heat", o)
          THEN FireSettingsCallback([w EXCEPT !.mem.mHeatingTarget = t], o.saves["heat"])
          ELSE w

\* setRunningMode and the update of current_mode_ on its success.
SetRunningMode(s, m, o) ==
    LET w == WriteRegister(s, "mode", m, o)
    IN  IF Acked("mode", o) THEN [w EXCEPT !.mem.current_mode = m] ELSE w

\* The priority register and, on success, current_priority_.
SetPriority(s, v, o) ==
    LET w == WriteRegister(s, "prio", v, o)
    IN  IF Acked("prio", o)
          THEN [w EXCEPT !.mem.current_priority = IF v = 1 THEN "dhw" ELSE "heating",
                         !.mine = TRUE]
          ELSE [w EXCEPT !.mine = @ /\ Outcome("prio", o) = "lost"]

-----------------------------------------------------------------------------
(* The web server's handlers *)

Requests ==
    [type : {"dhw"}, val : DhwRequests] \cup [type : {"heat"}, val : HeatRequests]
    \cup [type : {"mode"}, val : ModeRequests]
    \cup [type : {"prio"}, val : PriorityRequests]
    \cup [type : {"occ"}, val : OccupancyRequests]

\* The handlers' range checks (422); a missing mode parses as -1 (400), any
\* other mode is accepted.
Accepts(c) ==
    CASE c.type = "dhw" -> c.val \in DHW_TARGET_MIN .. DHW_TARGET_MAX
      [] c.type = "heat" -> c.val \in HEATING_TARGET_MIN .. HEATING_TARGET_MAX
      [] c.type = "mode" -> c.val # -1
      [] c.type = "prio" -> TRUE
      [] c.type = "occ" -> c.val \in 0 .. 2

\* Mutant: the push does not look whether the queue is full.
SubmitUnchecked(c) ==
    /\ used.requests < MaxRequests
    /\ Accepts(c) /\ pc # "lastCommands"
    /\ queue' = Append(queue, c)
    /\ used' = [used EXCEPT !.requests = @ + 1]
    /\ UNCHANGED <<pc, mem, dev, ini, connected, status, snap, asked, known, calm,
                   unsaved, mine>>

\* A handler pushes its command, unless the queue is full or the thread
\* that polls the web server is already in stop().
Submit(c) ==
    /\ used.requests < MaxRequests
    /\ Accepts(c) /\ Len(queue) < QueueRoom /\ pc # "lastCommands"
    /\ queue' = Append(queue, c)
    /\ used' = [used EXCEPT !.requests = @ + 1]
    /\ UNCHANGED <<pc, mem, dev, ini, connected, status, snap, asked, known, calm,
                   unsaved, mine>>

-----------------------------------------------------------------------------
(* processCommands *)

DeviceMode(m) == IF m = 0 THEN MODE_SET_OFF ELSE MODE_SET_HEAT_DHW

\* Mutant: heating-only mode takes the wrong minimum.
OverrideWrongMinimum(s, m, o) ==
    CASE m = 2 -> SetPriority(SetDhwTarget(s, HEATING_TARGET_MIN, o), 0, o)
      [] OTHER -> s

\* The overrides that follow a successful change of the running mode.
Override(s, m, o) ==
    CASE m = 1 -> SetPriority(SetHeatingTarget(s, HEATING_TARGET_MIN, o), 1, o)
      [] m = 2 -> SetPriority(SetDhwTarget(s, DHW_TARGET_MIN, o), 0, o)
      [] m = 3 -> SetPriority(
                    SetHeatingTarget(SetDhwTarget(s, s.mem.saved_dhw_target, o),
                                     s.mem.saved_heating_target, o),
                    1, o)
      [] OTHER -> s

\* One command, under the outcomes o of its writes and saves.
ProcessCommand(s, c, o) ==
    CASE c.type = "dhw" ->
           [SetDhwTarget(s, c.val, o) EXCEPT !.mem.saved_dhw_target = c.val]
      [] c.type = "heat" ->
           [SetHeatingTarget(s, c.val, o) EXCEPT !.mem.last_heating_target = c.val,
                                                 !.mem.saved_heating_target = c.val]
      [] c.type = "prio" ->
           LET w == SetPriority(s, c.val, o)
           IN  IF Acked("prio", o) THEN FireSettingsCallback(w, o.saves["prio"]) ELSE w
      [] c.type = "occ" -> WriteRegister(s, "occ", c.val, o)
      [] c.type = "mode" ->
           LET d == FireSettingsCallback([s EXCEPT !.mem.desired_working_mode = c.val],
                                         o.saves["mode"])
               w == SetRunningMode(d, DeviceMode(c.val), o)
           IN  IF Acked("mode", o) THEN Override(w, c.val, o) ELSE w

State == [mem |-> mem, dev |-> dev, ini |-> ini, unsaved |-> unsaved, mine |-> mine]
Becomes(s) ==
    /\ mem' = s.mem /\ dev' = s.dev /\ ini' = s.ini
    /\ unsaved' = s.unsaved /\ mine' = s.mine

\* processCommands pops the oldest command and carries it out, whether or
\* not the link is still there.
Process ==
    /\ pc \in {"commands", "lastCommands"} /\ queue # <<>>
    /\ LET c == Head(queue) IN
        /\ \E o \in Outcomes :
            /\ Becomes(ProcessCommand(State, c, o))
            /\ AfterAccess(o.writes # AllOk, o.saves # AllSaved)
        /\ IF c.type \in {"dhw", "heat"}
             THEN /\ asked' = [asked EXCEPT ![c.type] = c.val]
                  /\ known' = IF mem.saved_targets_initialized THEN known \cup {c.type}
                                                               ELSE known \ {c.type}
             ELSE UNCHANGED <<asked, known>>
    /\ queue' = Tail(queue)
    /\ UNCHANGED <<pc, status, snap, calm>>

-----------------------------------------------------------------------------
(* readStatus and applyControlLogic *)

Critical == {"other", "mode", "dhw", "prio"}

\* The registers that cannot be read: the failed ones and 0x02BF on
\* firmware that does not know it.
Unread(f) == IF PrioritySupported THEN f ELSE f \cup {"prio"}

\* The snapshot readStatus fills when the reads in f fail.
StatusRead(f) ==
    [online |-> Unread(f) \cap Critical = {},
     working_mode |-> mem.desired_working_mode,
     dhw |-> IF "dhw" \in f THEN NoStatus.dhw ELSE RawToTemp(dev["dhw"]),
     heat |-> IF "heat" \in f THEN mem.last_heating_target ELSE RawToTemp(dev["heat"]),
     occ |-> IF "occ" \in f THEN NoStatus.occ ELSE dev["occ"]]

\* Mutant: every read takes the device's targets for the user's.
MemReadAlwaysSaves(f) ==
    [mem EXCEPT
        !.saved_dhw_target = IF "dhw" \notin f THEN RawToTemp(dev["dhw"]) ELSE @,
        !.last_heating_target = IF "heat" \notin f THEN RawToTemp(dev["heat"]) ELSE @,
        !.saved_heating_target = IF "heat" \notin f THEN RawToTemp(dev["heat"]) ELSE @,
        !.saved_targets_initialized = @ \/ StatusRead(f).online]

\* What readStatus does to the members.
MemRead(f) ==
    LET fresh(r) == r \notin f /\ ~mem.saved_targets_initialized
    IN  [mem EXCEPT
           !.current_mode = IF "mode" \notin f /\ dev["mode"] \in 0 .. 2
                              THEN dev["mode"] ELSE @,
           !.saved_dhw_target = IF fresh("dhw") THEN RawToTemp(dev["dhw"]) ELSE @,
           !.last_heating_target = IF "heat" \notin f THEN RawToTemp(dev["heat"]) ELSE @,
           !.saved_heating_target = IF fresh("heat") THEN RawToTemp(dev["heat"]) ELSE @,
           !.saved_targets_initialized = @ \/ StatusRead(f).online]

\* The read before the loop: published only when it is complete.
FirstRead ==
    /\ pc = "boot"
    /\ \E f \in ReadOutcomes :
        /\ mem' = MemRead(f)
        /\ snap' = IF StatusRead(f).online THEN StatusRead(f) ELSE snap
        /\ AfterAccess(f # {}, FALSE)
    /\ pc' = "loop"
    /\ UNCHANGED <<queue, dev, ini, status, asked, known, calm, unsaved, mine>>

\* The head of the loop, connected or after a successful connect(); failed
\* connects change nothing here.
BeginTurn ==
    /\ pc = "loop" /\ pc' = "commands"
    /\ connected' = TRUE /\ calm' = FALSE
    /\ UNCHANGED <<queue, mem, dev, ini, status, snap, asked, known, unsaved, mine, used>>

Drained ==
    /\ pc = "commands" /\ queue = <<>> /\ pc' = "read"
    /\ UNCHANGED <<queue, mem, dev, ini, connected, status, snap, asked, known, calm,
                   unsaved, mine, used>>

\* readStatus in the loop; an incomplete status is published as offline and
\* ends the turn.
Read ==
    /\ pc = "read"
    /\ \E f \in ReadOutcomes :
        /\ mem' = MemRead(f)
        /\ IF StatusRead(f).online
             THEN pc' = "apply" /\ status' = StatusRead(f) /\ UNCHANGED snap
             ELSE pc' = "loop" /\ snap' = StatusRead(f) /\ UNCHANGED status
        /\ calm' = (f = {} /\ StatusRead(f).online)
        /\ AfterAccess(f # {}, FALSE)
    /\ UNCHANGED <<queue, dev, ini, asked, known, unsaved, mine>>

Off(a, b) == IF a > b THEN a - b ELSE b - a

\* Mutant: the running mode is set by commands only.
EnforceModeNever(s, o) == s

\* The parts of applyControlLogic, in its order: the running mode, ...
EnforceMode(s, o) ==
    LET m == DeviceMode(s.mem.desired_working_mode)
    IN  IF s.mem.current_mode # m THEN SetRunningMode(s, m, o) ELSE s

\* Mutant: in mode 3 a target is lowered to its setpoint but never raised.
EnforceTargetsDownOnly(s, o) ==
    IF s.mem.desired_working_mode = 3 /\ status.dhw > s.mem.saved_dhw_target + 50
      THEN SetDhwTarget(s, s.mem.saved_dhw_target, o) ELSE s

\* ... the targets, judged by the status that was read, ...
EnforceTargets(s, o) ==
    LET saved == s.mem
        dhw3 == IF Off(status.dhw, saved.saved_dhw_target) > 50
                  THEN SetDhwTarget(s, saved.saved_dhw_target, o) ELSE s
    IN  CASE saved.desired_working_mode = 1 ->
               IF status.heat > HEATING_TARGET_MIN + 50
                 THEN SetHeatingTarget(s, HEATING_TARGET_MIN, o) ELSE s
          [] saved.desired_working_mode = 2 ->
               IF status.dhw > DHW_TARGET_MIN + 50
                 THEN SetDhwTarget(s, DHW_TARGET_MIN, o) ELSE s
          [] saved.desired_working_mode = 3 ->
               IF Off(status.heat, saved.saved_heating_target) > 50
                 THEN SetHeatingTarget(dhw3, saved.saved_heating_target, o) ELSE dhw3
          [] OTHER -> s

\* ... and the priority, judged by current_priority_ alone.
EnforcePriority(s, o) ==
    CASE s.mem.desired_working_mode \in {1, 3} ->
           IF s.mem.current_priority # "dhw" THEN SetPriority(s, 1, o) ELSE s
      [] s.mem.desired_working_mode = 2 ->
           IF s.mem.current_priority # "heating" THEN SetPriority(s, 0, o) ELSE s
      [] OTHER -> s

ApplyControlLogic(s, o) == EnforcePriority(EnforceTargets(EnforceMode(s, o), o), o)

\* applyControlLogic and the publication of the status it worked on.
Apply ==
    /\ pc = "apply"
    /\ \E o \in Outcomes :
        /\ Becomes(ApplyControlLogic(State, o))
        /\ calm' = (calm /\ o.writes = AllOk)
        /\ AfterAccess(o.writes # AllOk, o.saves # AllSaved)
    /\ snap' = status /\ status' = NoStatus
    /\ pc' = "loop"
    /\ UNCHANGED <<queue, asked, known>>

-----------------------------------------------------------------------------
(* The environment *)

\* Somebody turns a knob on the device.
Panel ==
    /\ used.panel < MaxPanel
    /\ \E w \in PanelWrites : /\ dev' = [dev EXCEPT ![w[1]] = w[2]]
                              /\ mine' = (mine /\ w[1] # "prio")
    /\ used' = [used EXCEPT !.panel = @ + 1]
    /\ calm' = FALSE
    /\ UNCHANGED <<pc, queue, mem, ini, connected, status, snap, asked, known, unsaved>>

Reboot ==
    /\ used.restarts < MaxRestarts
    /\ used' = [used EXCEPT !.restarts = @ + 1]
    /\ pc' = "boot" /\ queue' = <<>> /\ mem' = BootMem(ini) /\ connected' = TRUE
    /\ status' = NoStatus /\ snap' = NoStatus /\ known' = {} /\ calm' = FALSE
    /\ unsaved' = FALSE /\ mine' = FALSE
    /\ UNCHANGED <<ini, asked>>

\* The process dies and is started again: only device and file remain.
CrashRestart == Reboot /\ UNCHANGED dev

\* After the thread's end main tries to switch the device off; later a new
\* start.
SwitchOffAndRestart ==
    /\ dev' \in {dev, [dev EXCEPT !["mode"] = MODE_SET_OFF]}
    /\ Reboot

\* A clean stop: the thread leaves its loop at the head, pending commands
\* are dropped.
StopRestart == pc = "loop" /\ SwitchOffAndRestart

\* A clean stop that ends the reconnect loop: the thread goes on to the
\* pending commands and reads a status, all without a link, before it leaves.
StopReconnecting ==
    /\ pc = "loop" /\ ~connected /\ used.restarts < MaxRestarts
    /\ pc' = "lastCommands"
    /\ UNCHANGED <<queue, mem, dev, ini, connected, status, snap, asked, known, calm,
                   unsaved, mine, used>>
LeaveReconnecting == pc = "lastCommands" /\ queue = <<>> /\ SwitchOffAndRestart

Loop ==
    \/ FirstRead \/ BeginTurn \/ Process \/ Drained \/ Read \/ Apply
    \/ LeaveReconnecting

Next ==
    \/ Loop
    \/ \E c \in Requests : Submit(c)
    \/ Panel \/ CrashRestart \/ StopRestart \/ StopReconnecting

\* The control thread keeps turning, and its end is followed by a new start;
\* nobody else is obliged to act.
Spec == Init /\ [][Next]_vars /\ WF_vars(Loop)

-----------------------------------------------------------------------------
(* Properties *)

Priorities == {"dhw", "heating"}

Members ==
    [desired_working_mode : Int, current_priority : Priorities,
     mDhwTarget : Nat, mHeatingTarget : Nat, current_mode : 0 .. 2,
     last_heating_target : Nat, saved_dhw_target : Nat, saved_heating_target : Nat,
     saved_targets_initialized : BOOLEAN]

Files ==
    [mode : Int \cup {Missing}, prio : Priorities \cup {Missing},
     dhw : Nat \cup {Missing}, heat : Nat \cup {Missing}]

Snapshots == [online : BOOLEAN, working_mode : Int, dhw : Nat, heat : Nat, occ : Nat]

TypeOK ==
    /\ pc \in {"boot", "loop", "commands", "read", "apply", "lastCommands"}
    /\ queue \in Seq(Requests) /\ Len(queue) <= QueueRoom
    /\ mem \in Members /\ dev \in [Registers -> Nat] /\ ini \in Files
    /\ connected \in BOOLEAN
    /\ status \in Snapshots /\ snap \in Snapshots
    /\ asked \in [dhw : Nat, heat : Nat] /\ known \subseteq {"dhw", "heat"}
    /\ calm \in BOOLEAN /\ unsaved \in BOOLEAN /\ mine \in BOOLEAN
    /\ used \in [requests : Nat, faults : Nat, panel : Nat, restarts : Nat]

\* However commands, overrides, restores, restarts and knobs follow each
\* other, the device's targets and the setpoints the loop will restore stay
\* within the limits that only the web handlers check.
LegalTargets ==
    /\ RawToTemp(dev["dhw"]) \in DHW_TARGET_MIN .. DHW_TARGET_MAX
    /\ RawToTemp(dev["heat"]) \in HEATING_TARGET_MIN .. HEATING_TARGET_MAX
    /\ mem.saved_dhw_target \in DHW_TARGET_MIN .. DHW_TARGET_MAX
    /\ mem.saved_heating_target \in HEATING_TARGET_MIN .. HEATING_TARGET_MAX

Near(r, t) == Off(RawToTemp(r), t) <= 50

\* The priority is held as far as the loop can tell: current_priority_ is p,
\* and the register too, if this process set it last.  A register that the
\* panel or an earlier process set, or an unacknowledged write, is not held.
PriorityHeld(p) ==
    /\ mem.current_priority = p
    /\ mine => dev["prio"] = IF p = "dhw" THEN 1 ELSE 0

\* What applyControlLogic holds the device to in each working mode.  This is
\* less than the mode table of README.md:269 demands, and the code does no
\* more: the user's DHW target of mode 1 and heating target of mode 2 are
\* written by commands and by the way back to mode 3 only, so a change from
\* mode 2 to mode 1 leaves DHW at the minimum; and the priority register is
\* never compared, only current_priority_ is.
Enforced ==
    LET m == mem.desired_working_mode IN
    /\ dev["mode"] = DeviceMode(m)
    /\ m = 1 => RawToTemp(dev["heat"]) <= HEATING_TARGET_MIN + 50
    /\ m = 2 => RawToTemp(dev["dhw"]) <= DHW_TARGET_MIN + 50
    /\ m = 3 => /\ Near(dev["dhw"], mem.saved_dhw_target)
                /\ Near(dev["heat"], mem.saved_heating_target)
    /\ m \in {1, 3} => PriorityHeld("dhw")
    /\ m = 2 => PriorityHeld("heating")

\* One undisturbed turn suffices: after it the device is in the state that
\* applyControlLogic holds it to, whatever commands, failures, knobs and
\* restarts went before.
CleanTurnEnforces == pc = "loop" /\ calm => Enforced

\* Once a command has set a target (after the first complete status), no
\* sequence of mode changes, overrides, reads and failed writes makes the
\* loop forget it.
SetpointKept ==
    /\ "dhw" \in known => mem.saved_dhw_target = asked.dhw
    /\ "heat" \in known => mem.saved_heating_target = asked.heat

\* A restart, by a crash at any point or by a clean stop, finds the working
\* mode in force before it, and the targets the program worked with, unless
\* the last save failed or the crash cut it short: on every path that changes
\* one of them the file is written (main.cpp:276), and one save that succeeds
\* makes up for all that failed before.
RestartKeepsMode ==
    [][used'.restarts # used.restarts /\ ~unsaved =>
        /\ mem'.desired_working_mode = mem.desired_working_mode
        /\ mem'.mDhwTarget = mem.mDhwTarget
        /\ mem'.mHeatingTarget = mem.mHeatingTarget]_vars

\* When failures, knobs, commands and restarts have come to an end, the
\* device reaches the state that applyControlLogic holds it to, and stays
\* there.
Converges == <>[]Enforced

-----------------------------------------------------------------------------
(* What the documentation says and the code does not do.  Each of these is *)
(* refuted by a run of its own.                                            *)

\* The persistence design: targets are kept across restarts.  Checked
\* without failures.
SetpointsSurviveRestart ==
    mem.saved_targets_initialized =>
        /\ asked.dhw # 0 => Near(TempToRaw(mem.saved_dhw_target), asked.dhw)
        /\ asked.heat # 0 => Near(TempToRaw(mem.saved_heating_target), asked.heat)

\* dhw_priority_report.md: on firmware without 0x02BF the failing read is
\* caught gracefully, so a complete status is published in the end.
EventuallyOnline == <>snap.online
=============================================================================
