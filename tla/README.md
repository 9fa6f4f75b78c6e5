# A verification of the Windmi heat pump controller

The controller connects a web interface to a Rotenso Windmi heat pump. Users
choose targets and one of four working modes; a control thread carries their
commands out over Modbus, reads the device's status every 30 s and corrects the
device where it has left what the working mode demands. These modules model that
core from its source, with the program's life around it, its self-test and the
web page that drives it; TLC checks them on small instances, and TLAPS proves
their main safety properties for every value of the constants.

Paths below are those of the repository, seen from the directory that holds it:
`src/src/core/ControlLoop.cpp` is the file `src/core/ControlLoop.cpp`.

## 1. Inventory

### The parts

| Part | State | Operations | Interacts with |
|---|---|---|---|
| `CmdQueue` (ControlLoop.hpp/.cpp) | ring of 16 commands, two atomic indices | `push`, `pop`, `empty` | pushed by web handlers (main's thread), popped by the control thread, no lock |
| `StatusQueue` (same files) | ring of 32 snapshots, three free-running 32-bit counters | `push` (overwrites), `pop`, `latest` | control thread to `/api/status` |
| Control thread (`start`, `stop`, `kick`, `threadFunc`) | stop and running flags, kick mutex, condition, generation, retry counter | reconnect rounds, three timed waits | woken by web handlers, joined by main |
| Control logic (`processCommands`, `readStatus`, `applyControlLogic`) | desired working mode, priority, targets, saved setpoints, device mode | one per command type; read; enforce | device registers, settings callback |
| `WebServer` | shutting-down flag, last status, pointers to the queues | five command handlers, `/api/status`, files | `CmdQueue`, `kick`, `StatusQueue` |
| Web page (app.js) | shown mode, pending choice, timers, polling flag | clicks, POSTs, polls with retries | the handlers, over connections that fail |
| `Config` and settings file | key/value map, `settings.ini` | load, save | loaded by main, saved from the control thread |
| Modbus clients (TCP, serial, simulated), RTU frames, CRC | socket or port, connected flag | connect, read, write with retries and verification | control thread; main at shutdown |
| `Platform` | mutexes, conditions, threads, instance lock, signals | wrappers of the operating system | everyone |
| `main` | the global objects, `g_running` | start-up, poll loop, shutdown with an OFF write | everyone |
| Self-test | report, the heating target it overwrites | six tests in a row | run by main instead of the controller |
| Logger, unused helpers | | | |

Two threads matter: main's, which polls the web server and runs its handlers,
and the control thread. They share the command queue, the status queue, the stop
and running flags and the kick mutex with its condition and generation. Further
actors are the browser, the device's panel, the signal and, through the instance
lock, the settings file and the device, a second program on the same machine.

### What is hard

* A push and its kick can fall anywhere between the control thread's last `pop`
  and its blocking; a stop can fall into a reconnect round.
* The ring has no lock: each thread sees the other's index late, and commands
  are structs whose copies take time.
* Any Modbus transfer can fail, and a failed write may have reached the device.
  A mode command is up to four writes. The rest of a batch runs even if the link
  has gone.
* The device has a panel of its own, so a status is stale as soon as it is read.
* The setpoints to be restored in mode 3 come from commands, from the first
  complete status, or from defaults, and overrides write minima over the
  registers they were read from.
* The process can die anywhere; only the device and the settings file remain,
  and the file is truncated before it is written. A save that fails is not
  noticed.
* Snapshots are published into a ring that overwrites, under a reader without a
  lock, with counters that wrap.
* A shutdown has to end, with the device off, whatever the device does; a second
  program may be waiting, or have been forced past the lock.
* The page shows a choice before the server knows of it, and learns of its fate
  from polls that bring older states, from timers and from failing requests.

`PROJECT.json` lists these hazards at their lines, with the properties that
would catch each one going wrong and, where there is none, why.

### What makes each part correct

* Queue: first in, first out; nothing lost, doubled, torn or reordered; never
  mistaken for empty when full.
* Thread: no lost wake-up; a stop always ends it; commands are taken from the
  queue; the mutex is not held during I/O; waits are bounded.
* Logic: legal targets only; a user's setpoint is not forgotten; one undisturbed
  turn suffices to enforce the working mode; convergence; settings that were saved
  survive.
* Snapshots: whole, never older than the last one shown, the last one in the end.
* Life of the program: one owner of the device; OFF is the last word; a signal
  ends it; what was saved comes back.
* Self-test: a pass means that everything passed and nothing was left behind.
* Page: a choice is not reverted before its time; what is shown in the end is
  what the controller does; an outage is shown.

## 2. Modules

| Module | Models | Extends or instantiates |
|---|---|---|
| `BoundedFifo` | what the queue promises (abstract) | |
| `CmdQueue` | `CmdQueue::push/pop/empty` | instantiates `BoundedFifo` as the refinement target |
| `CmdQueue_proofs` | theorems on `CmdQueue` | `CmdQueue` |
| `ControlThread` | `start`, `stop`, `kick`, `threadFunc`'s loop and waits, `wait_for` | |
| `ControlThread_proofs` | theorems on `ControlThread` | `ControlThread` |
| `ControlLoop` | commands, status reads, enforcement, settings, restarts | |
| `ControlLoop_proofs` | theorems on `ControlLoop` | `ControlLoop` |
| `ModbusClient` | the TCP and serial clients: connect, disconnect, read, verified write | |
| `ModbusClient_proofs` | theorems on `ModbusClient` | `ModbusClient` |
| `StatusQueue` | `StatusQueue::push/latest` and `apiStatusHandler` | |
| `StatusQueue_proofs` | theorems on `StatusQueue` | `StatusQueue` |
| `Lifecycle` | `main`, the instance lock, signals, the settings file | |
| `Lifecycle_proofs` | theorems on `Lifecycle` | `Lifecycle` |
| `SelfTest` | `selftest_run` | |
| `SelfTest_proofs` | theorems on `SelfTest` | `SelfTest` |
| `WebPage` | the page's working mode, with handlers, queue and turns behind it | |
| `WebPage_proofs` | theorems on `WebPage` | `WebPage` |
| `MC...` | model-checking instances | the module named |

The components meet at these places. `ControlThread`, `ControlLoop` and `WebPage`
use the queue as what `CmdQueue` is shown to implement, a bounded FIFO (a counter in
the first, a sequence in the others). `ControlLoop` takes turns that
`ControlThread` shows always to come. Both take from `ModbusClient` that a
call returns, that a silent device is noticed, and that a write reported as done
is done; a write reported as failed may have been applied (`unacked`).
`SelfTest` takes the same from it, with the late answers that `ReadGenuine`
excludes. `WebPage` composes page, handlers, queue, turns and snapshots: it takes
from `StatusQueue` that the newest snapshot is answered, and keeps of
`ControlLoop` the mode and the priority. `Lifecycle` uses that a stop ends the
thread (`StopCompletes`).

### CmdQueue

One step per shared access. `PushCheck` and `PopCheck` are the index loads and
the full and empty tests, `...CopyBegin` and `...CopyEnd` the struct copy,
`PushPublish` and `PopRelease` the release stores. An acquire load may return any
value between the one this thread read last (`headSeen`, `tailSeen`) and the
newest one; a copy that overlaps a write yields `Torn`. `Pending`, the
commands between head and tail, is the abstraction function.

### ControlThread

`mainPc` and `loopPc` are the two threads' places. The observed generation is
abstracted to `kicked`, whether a kick came since the sleep noted it. `mutex` is
held between steps by the control thread only: `kick` takes and releases it
within one step, for which it must be free. Blocking and releasing the mutex are
one step (`Block`), as the condition variable guarantees; notification, spurious
wake-ups and timeouts are steps of their own. `wait_for` with a predicate loops
as in Platform.hpp: wake, evaluate, and block again *with the full timeout*.
`empty()` and `pop()` may miss a push whose kick is still outstanding
(`LooksEmpty`), since only the kick's mutex orders it. `mark` follows one
command through the queue until it is popped. What becomes of it then is
`ControlLoop`'s matter: a priority or occupancy command whose write fails is
dropped (ControlLoop.cpp:527, :537).

### ControlLoop

Handlers are functions on a state of memory, device and file, under an assumed
outcome for each register's write: `ok`, `lost`, or `unacked` (applied but
reported as failed, which a write that cannot be verified is). Either one write
fails or all from one on. Reads fail likewise; `other` stands for the four
further registers without which a status does not count as read. A read that
succeeds returns what the register holds; `ModbusClient!ReadGenuine` says when
that is so. `Process` is
one turn of `processCommands`' loop, `Read` is `readStatus`, `Apply` is
`applyControlLogic` and the publication. The settings callback is part of the
handlers that call it. It may fail to open the file, which then stays as it was,
or leave only the first of the four keys in it (`PartialSaves`); nobody notices,
and a later start takes defaults for what is missing. Failed reconnects change nothing here and are stutters
(`BeginTurn` is the turn that has a link); a stop that ends the reconnect loop
lets the thread carry out the pending commands without one
(`StopReconnecting`).

Temperatures are hundredths of a degree; the device's registers hold tenths, and
`TempToRaw` truncates as the cast does. (In single precision `temp * 10.0f` is
exact to the tenth for every hundredth from 25 to 63, so nothing more is lost.)

A handler is one step. A crash inside it is the handler with all its later writes
and saves failing, followed by a restart. Commands arrive, knobs turn and restarts
happen between any two steps.

The ghost variables `asked` (targets users asked for), `known` (those carried
out after the first complete status), `calm` (nothing has interfered since the
last complete status), `unsaved` (the last save failed) and `mine` (the priority
register was last set by an acknowledged write of this process) serve the
properties only.

`Enforced` is what `applyControlLogic` holds the device to: the running mode, the
target that mode 1 or 2 suppresses, both targets in mode 3, and the priority,
which the loop judges by `current_priority_`. The register has that priority if
this process set it last (`mine`); one that the panel, an earlier process or an
unacknowledged write set is not looked at. The repository's mode table demands
more; section 3 lists where the code falls short of it.

### ModbusClient

One model for both clients, whose protocol code is the same; they differ in
`connect`, `disconnect` and in what a failed transfer of a write does to
`connected` (nothing for TCP). `pc` is the place in the call: `sendWrite` and
`awaitEcho` are one attempt of a write, `sendRead` and `awaitValue` a read or the
verification. A read answer has 7 bytes, an echo 8, an exception 5. Hence
`EchoComplete`: an exception alone is too short for the eight bytes the write
waits for, so the wait times out. Whatever a receive leaves over is flushed by
the next send.

The line is a FIFO of requests (`reqs`), of answers (`wire`) and the receive
buffer (`inbox`). Frames are lost or, as answers, garbled; a garbled frame never
passes the CRC. Frames arrive whole: a fragment counts as lost or garbled. A
`Timeout` with a frame still under way makes its answer `late`; without one, the
answer was lost. `ReceiveFails` is a reset connection, which takes everything
under way with it. The device may confirm a write it does not keep, and its
panel changes registers at any time.

The old socket or port, which no one closes when a failed transfer is followed
by `connect`, is one more `leaked`. `MaxOpen` is the number of descriptors the
process may have open for its client; when lost links have used it up, no connect
succeeds any more. `Exclusive` says whether a leaked port keeps the device from
being opened again (CreateFileW with share mode 0 on Windows).

`seen` and `clean` serve the properties: the values of the register since the
last read request, and whether nothing was under way when it was sent.

### StatusQueue

As in `CmdQueue`, one step per shared access and two per copy of a snapshot.
Snapshots are numbered; the counters are kept unreduced, and `Word` gives the
32-bit value that is stored and compared, so that the wrap is part of the model
while the properties can speak of older and newer. A load may be late, but not
behind what the release store it has seen makes visible (`VisibleHead`).
`lastStatus` is the handler's `last_status_`, which it keeps when `latest` finds
nothing.

### Lifecycle

`pc[p]` is process p's place in `main`: lock, first connect, self-test or
settings, control thread, web server, serving, join, OFF, release. Every early
exit and a crash at any place lead to `ended`, where the system closes what the
process held. The lock is the set of its holders: flock's one owner on POSIX,
where `--force` goes on without it, or the handles to the named mutex on Windows,
where `--force` adds one. The control thread writes the device's mode and saves
settings at any time between its start and the join. A save is two steps, opening
(which truncates) and closing, which writes as many keys as the disk takes; the
join waits for one under way. `spoilt` says that the last save met a fault or was
cut off by a crash, or that a process went past the lock since it. The
shutdown client of a TCP gateway does not survive its own `disconnect`
(`KeepsClient`), so its further attempts cannot connect.

### SelfTest

`pc` is the test being run. Any transfer may throw; a failed write may have been
applied, and a failed read may leave an answer under way (`late`) for which the
next reads are mistaken. The process may be killed anywhere and run again; on a
serial line, whose `connect` discards only what has arrived, an answer to the
killed run may reach the next one. Such a run is `stale`: its first answer may be
the killed run's, its later ones are shifted, and what it writes back is not what
it found. `initial`, `touched` and `stale` serve the properties only.

### WebPage

`currentMode`, `pendingMode`, `timers` and `polling` are the page's variables;
`posts` are requests under way, served in any order; `answer` is a status on its
way. The page's modes 3 and 4 are the server's mode 3 with either priority
(`Backend`, `Display`). Behind it stand the handlers, the queue with a full
case, and a control loop of three places (`turn`, `commands`, `apply`) whose link
may fail at any of them, with the snapshots it publishes: the priority read
before enforcement, or the defaults of a failed read. `unseen`, `troubled` and
`last` serve the properties only.

## 3. Runs

| Run | Checks | Shows |
|---|---|---|
| `cmd_queue` | `TypeOK`, `RingOrder`, `NoSlotRace`, `ImplementsFifo` | stale views err on the safe side; copies never collide; the ring implements the FIFO |
| `control_thread` | `TypeOK`, `NoLostWakeup`, `KickNeverWaitsForIO`, `WaitBounded`, `KickSuffices`, `StopCompletes`, `CommandTaken` | the thread never sleeps through a command or a stop, even with a dead link; a reconnect wait is stretched by kicks, but by no more than the queue's room allows; kicks alone get every command taken while the link is up; with time and a device that answers in the end, the queue outlives outages |
| `loop_safety` | `TypeOK`, `LegalTargets`, `SetpointKept`, `RestartKeepsMode` | limits, setpoints and settings hold through commands, a failed transfer or save and a restart |
| `loop_converges` | `CleanTurnEnforces`, `Converges` | one undisturbed turn suffices, after any history; when the disturbances end, the state `applyControlLogic` holds the device to is reached for good |
| `modbus_client` | `TypeOK`, `ReadGenuine`, `WriteVerified`, `OneLateAnswerHarmless`, `CallsReturn`, `SilenceNoticed` | a read over a quiet line is genuine and a write reported as done is done, also after one late answer; calls return and a silent device is noticed, also when no descriptor is left |
| `status_queue` | `SnapshotWhole`, `NeverBackwards`, `LatestShown` | snapshots are whole unless a full lap overtakes a copy; the page never goes back and gets the last one in the end |
| `lifecycle` | `OneController`, `OffIsLast`, `DeviceOwned`, `SettingsReturn`, `SignalEnds` | without `--force` one process at a time touches the device; after a logged OFF the device is off; a signal always ends the program; a start never meets a file that is still being written, and finds the last save unless that save failed or a crash cut it off |
| `self_test` | `TypeOK`, `RestoredOrReported`, `VerdictSound` | whatever a run leaves behind, it reports as a failure, unless it began with a killed run's answer on the line |
| `web_page` | `FirstChoiceShown`, `PageConverges`, `LastClickWins`, `OutageShown` | a first choice is shown for its ten seconds; page, loop and device agree in the end; the last click prevails; outages are shown |

`modbus_client` also marks the limits of the flush before each send. It makes a
read genuine only if nothing is under way: with one late answer and a client that
sends at once, every read of a status can return its predecessor's value. With
`MaxLate = 2`, `OneLateAnswerHarmless` read without its condition fails: two late
answers can pass for an echo and a verification.

The exceptions these properties name are behaviours of the code, found while
stating them. After 2^32 snapshots `latest` finds nothing for the next 31
(`Wrapping`), because it compares counters that have wrapped with ones that have
not. A connection lost between the last register a status needs and the end of
the turn is followed by an online snapshot and by rounds that publish nothing
(`unseen`): the page shows the device online for the whole outage. A self-test
that is run soon after one was killed on a serial line can pass with a shifted
answer and write a foreign value back (`stale`). POSTs that overlap may be served in the other order, so an earlier click can
prevail. The timer of an earlier click clears a later choice
(`FirstChoiceShown` holds for the first only).

Three more runs each refute one sentence of the repository's documents;
`PROJECT.json` quotes it under `findings`:

| Run | Says | Does |
|---|---|---|
| `loop_restart_targets` | targets are kept across restarts | the setpoint an override replaced is lost |
| `loop_no_priority` | a missing 0x02BF is handled gracefully | no status is ever complete, nothing is enforced |
| `serial_reconnect` | the serial `connect` closes a stale port so that reconnecting works | it leaks it; on Windows the port can then never be opened again |

The models also contain disagreements without a run of their own:

* The mode table (README.md:269) gives mode 1 the user's DHW target and mode 2 the
  user's heating target. A change between the two leaves the target at the
  minimum the other mode set (ControlLoop.cpp:568), and `applyControlLogic` only
  ever lowers it; the setpoint is remembered (`SetpointKept`) and written back by
  mode 3 alone. Without failures, DHW 52.05, mode 2, mode 1 shows it.
* The same table has the priority register at 1 in modes 1 and 3 and at 0 in mode
  2 ("must have DHW priority", ControlLoop.cpp:677). What is compared is
  `current_priority_`: after a write that was applied but not acknowledged, or a
  knob, the register stays wrong however many turns follow.
* "OFF mode write failed after 3 attempts" (main.cpp:362): over TCP the
  `disconnect` after a failed write destroys the client, so that the later
  attempts cannot connect (`KeepsClient`); there may have been one.
* "User setpoints are saved when explicit temperature commands are received"
  (docs/working-modes.md:44): one whose write failed before the first complete
  status is overwritten by the next read (ControlLoop.cpp:313).
* `wait_for` with a predicate (Platform.hpp:218, "until predicate returns true or
  timeout") restarts its timeout at every wake-up, which `WaitBounded` bounds.
* The enforcement changes the priority without the settings callback
  (ControlLoop.cpp:682), so a restart brings the old one back.
* An occupancy mode that cannot be read is reported as 2, not as "last known
  value" (ControlLoop.cpp:347).
* The mode handler accepts modes other than 0 to 3 (WebServer.cpp:386), which the
  loop saves and treats as heat and DHW.
* The priority in a mode request is "handled by control_loop" (WebServer.cpp:393);
  it is dropped. The page's mode 4 is therefore never confirmed, and the page
  falls back to mode 3 or 4 as the register says.
* Handlers answer 202 "Command queued" also when the queue refused the command
  (WebServer.cpp:292). Their 503 for a server that is shutting down cannot occur:
  no request is polled after `stop`.
* `pendingMode` "prevents status poll from reverting mode before command is
  processed" (app.js:14), except for an earlier click's timer and for a stale
  status that happens to match.
* "DHW tank approaches target when DHW is active" (SimulatedModbusClient.hpp:27)
  is not implemented; the leaving water overshoots instead of approaching
  (SimulatedModbusClient.cpp:160).

### Bounds

* `cmd_queue`: 4 slots instead of 16, two commands, no bound on pushes and pops.
  Three pending commands, a wrap, and views a full lap old all occur; the proofs
  cover every capacity.
* `control_thread`: a queue of 2 commands, 2 connect attempts, waits of 1 to
  3 ticks, at most one spurious wake-up. Everything else is unbounded. Two
  commands are enough for one in the queue while another is being pushed; two
  attempts for a wait between attempts and a last one.
* `loop_...`: up to 3 requests, 1 or 2 failed transfers, 1 knob, 1 restart.
  Three requests make a round trip between modes with a setpoint in it. In
  `loop_safety` a save may also fail: not opened, nothing written, or all but the
  working mode; `loop_converges` does without, since its properties do not look
  at the file. Requests
  lie inside, outside and on the limits, one with hundredths that truncation
  drops (52.05); knobs lie just inside and outside the tolerance of 0.5. The
  proofs need none of these bounds.
* `modbus_client`: two registers and one that is absent, two values, the code's
  three attempts, one late answer, two descriptors, so that one link is lost and
  replaced before none is left; calls and faults are unbounded.
  Two registers are enough to confuse one with another. One late answer is all
  `OneLateAnswerHarmless` speaks of; the three are proved for any number.

* `status_queue`: 3 slots, counters that wrap at 6 instead of 2^32, 10
  snapshots: the ring goes round three times, the counters once, with the reader
  up to a lap behind. Polls are unbounded.
* `lifecycle`: 2 processes, either system, each client, `--force` and a self-test;
  starts, signals, crashes and writes are unbounded; one save (a second one only
  repeats it with another content) of 2 keys, so that a cut falls between them.
* `self_test`: 3 targets, one of them the test value, two foreign values, one to
  be mistaken for a target and one for the right device, a right and a wrong device; runs, kills, failures and knobs
  are unbounded.
* `web_page`: 2 clicks, on OFF and on mode 4, from modes 1 and 3; a queue of one,
  one retry of a poll, and one mishap: a failed request, an outage or another
  client's command. Two clicks are enough for a timer of the one to meet the
  other, and for two requests to overlap; repairs, polls and turns are unbounded.

Deadlock is checked in every run: `ControlThread` ends in an explicit
`Terminated` step, the other specifications never end (`Lifecycle` and `SelfTest`
start again, a page keeps polling, a status queue keeps being read).

### Fairness

* `ControlThread!Spec`: weak fairness of the control thread's own steps, of join
  and of the kick in `stop`: threads are scheduled. Strong fairness of the kick
  after a push: the control thread takes the mutex again and again, but is off it
  for all its I/O (`KickNeverWaitsForIO`), so a waiting kick gets it. No fairness
  for requests, signals, ticks or timeouts, so `KickSuffices` and `StopCompletes` do
  not lean on a timeout.
* `CommandTaken` has as its premise (`TimeAndDevice`) that time passes and
  timeouts fire, and, as an assumption on the environment, that a device that is
  tried again and again answers.
* `ControlLoop!Spec`: weak fairness of the control thread's turn, which
  `ControlThread` justifies. A program that has been stopped counts only if it is
  started again.
* `ModbusClient!Spec`: weak fairness of a call's steps, whose waits have
  timeouts, and of the line, on which no frame stays for ever. Strong fairness of
  polling reads and of a connect that is possible: the control loop reads a
  connected client every 30 s and tries to connect one that is not.
* `StatusQueue!Spec`: weak fairness of a push that has begun and of the reader,
  whose page polls every five seconds; strong fairness of loads that return the
  newest value, since a store becomes visible in the end. None for pushes.
* `Lifecycle!Spec`: weak fairness of main's steps and of a save that has begun:
  threads are scheduled, and connecting, writing and joining return
  (`CallsReturn`, `StopCompletes`). None for signals, writes or starts; an outcome
  is never assumed.
* `WebPage!Spec`: weak fairness of timers, polls, answers, requests under way and
  of the control loop's turns. Nobody has to repair the link: where a property
  needs it, it is its premise.
* `SelfTest` has safety properties only.

## 4. Proofs

| Theorem | States |
|---|---|
| `CmdQueue_proofs!TypeCorrect`, `OrderKept`, `RaceFree` | the three invariants of the ring, for every capacity from 2 |
| `CmdQueue_proofs!RefinesFifo` | every step of the ring is a step of the bounded FIFO or a stutter |
| `ControlThread_proofs!TypeCorrect`, `WakeupsKept`, `KickIsQuick` | types, no lost wake-up, mutex free during I/O, for all queue sizes, retry limits and timeouts |
| `ControlThread_proofs!WaitsEnd` | how long a wait can be stretched by kicks and spurious wake-ups, likewise |
| `ControlLoop_proofs!TypeCorrect`, `TargetsLegal`, `SetpointsKept` | types, limits and setpoints, for all requests, knobs and numbers of faults |
| `ControlLoop_proofs!CleanTurnSuffices` | after an undisturbed turn running mode, targets and priority are what `applyControlLogic` holds them to, whatever went before |
| `ControlLoop_proofs!EnforcementLasts` | only a command, a knob or a restart ends that state (an action property that no run states) |
| `ControlLoop_proofs!ModeSurvivesRestart` | a restart finds the settings unless the last save failed, whatever saves failed before |
| `ModbusClient_proofs!TypeCorrect`, `ReadsAreGenuine`, `WritesAreVerified` | types, and what a successful read or write over a quiet line means, for all registers, values, attempts and numbers of late answers |
| `ModbusClient_proofs!OneLateAnswer` | what a successful write means when one answer came late, likewise |
| `StatusQueue_proofs!SnapshotsWhole`, `NoStepBack` | whole snapshots, never an older one, for every capacity, counter width and number of snapshots |
| `Lifecycle_proofs!LockWorks`, `OffStays` | the lock's promise and OFF as the last word, for any number of processes, starts, crashes and attempts |
| `Lifecycle_proofs!DeviceIsOwned`, `SettingsComeBack` | the action properties on the device's owner and on the settings a start finds |
| `SelfTest_proofs!TypeCorrect`, `TargetRestored`, `PassMeansPass` | what exit code 0 means, for all targets and device types, after any history of failed and killed runs, stale runs excepted |
| `WebPage_proofs!ChoiceShown` | the first choice is shown until its timeout, for all buttons, settings, queue sizes and retries |
| `WebPage_proofs!LastChoiceCarriedOut` | the safety half of `LastClickWins`: once the page's requests are served and executed, the mode is the one clicked last (an invariant that no run states) |

The only assumptions are those named in the modules: capacities and limits are
positive naturals, the ring of snapshots divides the range of its counters, the
model values differ, and the device's own panel sets documented values.

**CmdQueue.** `RingOrder` does not mention what the slots contain, which the
refinement needs. The inductive invariant adds that every slot between head and
tail holds a command and that the local copies agree with their slots. The
refinement follows action by action: only `PushPublish` and `PopRelease` change
`Pending`, the former by appending what was copied into the slot, the latter by
dropping the slot whose content it hands over. The arithmetic of the ring is in a
handful of lemmas on `Dist` and `Wrap`.

**ControlThread.** `NoLostWakeup` speaks of a thread that is about to block or
blocked. To be inductive it needs who holds the mutex at each place of the
control thread: a thread between `pred` and `block` holds it, so a kick comes
before the predicate or after the block, never in between; and which places of
main follow a stop.

`WaitBounded` is proved with an account of the ticks waited (`WaitAccount`): they
are those of the present timeout and of the timeouts it replaced, and each of
these is paid for (`Restarts`) by a spurious wake-up or, in a reconnect wait, by a
command in the queue. A handler kicks only after a push and nothing is
popped during a reconnect wait, so the queue's length counts the kicks; the one
kick extra is that of a command popped before its kick came. A notified thread
that has not run yet owes a timeout already (`Due`), and a predicate that has
become true ends the account (`Over`).

**ControlLoop.** A good state (`Good`) is one that has its types, legal
registers and setpoints, a file that shows the working mode and targets in
memory unless the last save failed, and the believed priority in the register if
this process set it last (`MineHeld`). Each operator is shown to keep a good state good, and each except the two
temperature commands and the first reads to leave the setpoints alone
(`KeepsSaved`). The invariant adds that queued commands passed the handlers'
checks and that a setpoint counts as known only after the first complete status,
without which reads could overwrite it. The restart theorem follows from the file
showing what memory holds in every state that is not `unsaved`: every handler that
changes a setting saves all four, so one save that succeeds makes up for those that
failed.

`CleanTurnEnforces` needs that a status which nothing has disturbed since it was
read shows the device (`CalmStatus`): then a write is left out only where the
register is as demanded or within the tolerance, and one that is made ends within
a tenth of a degree of the setpoint (`CleanNear`). Without a priority register no
status is complete, so the priority can be written in a calm turn, and where it is
not written the belief is right and `MineHeld` speaks for the register. A command cannot come between
read and enforcement, since both belong to one turn. `EnforcementLasts` needs no
calm: every value `applyControlLogic` writes is one it holds the device to,
whatever status it is judged by, so a write that is superfluous, lost, or applied
and reported as failed leaves an enforced device enforced; a read moves a setpoint
only to what the register holds. The two together are what `Converges` adds
fairness to.

**ModbusClient.** `ReadGenuine` and `WriteVerified` speak of the moment a call
returns. The invariant adds what holds on the way (`OwnAnswerOnly`): while the
client waits for the answer to a read that was sent into a quiet line, at most
one frame is under way, it is that request or its answer, and the answer's value
is one the register has had since. Requests and answers move from one queue to
the next without changing their number, so no other answer can be taken for it.

`OneLateAnswerHarmless` is about a line that is not quiet. At most one frame is
under way besides the answer waited for (`LateFrames`). The invariant follows
where a read's frame may stand among them (`OneLate`): first while an echo is
awaited, since what is late comes before the write's own frames (`ReadsFirst`);
nowhere once an echo has been taken (`NoReads`); last while the verification is
awaited (`OwnReadLast`). So the value that verifies the write is the verifying
read's own, and the late frame can only have passed for the echo.

**StatusQueue.** Snapshot k stays in its slot until the push that comes round to
it begins, `Capacity` pushes later (`Kept`). That needs two facts of arithmetic:
reducing a counter to 32 bits does not change its slot, since the capacity divides
2^32, and two snapshots in one slot are at least a lap apart. The rest follows the
reader: what it began to copy is what its tail announced, and what was shown before
is no newer than the tail it has seen.

**Lifecycle.** A process inside that did not go past an occupied lock holds it, and
of its holders at most one did not go past it (`LockHeld`; on Windows the mutex has
several holders, on POSIX the forced process has none). A report comes only after
the join, so the control thread is silent then (`OffWritten`). `FileInv` says that
a save is under way only while its control thread is alive, that unless something
spoilt it there is only the last one asked for, and that the file is whole when
none is under way. A start reads the file while no thread that could write it is
alive: its own is not started, and the lock has kept others out.

**SelfTest.** While a run counts as passed, every transfer of it has succeeded, so
unless it began with one (`stale`) no answer is under way and every read is genuine
(`NothingLate`). Hence the
original read is the target the run began with (`TargetKnown`) and the tests behind
the present place have passed (`PassedSoFar`).

**WebPage.** Before the first click there is no request, after it only its own
(`OwnRequests`), as long as nothing fails. The choice is shown while it is pending;
when a poll confirms it, the answer may be a snapshot older than the command, and
what matters is that none after it shows another mode. Answer, published snapshot,
snapshot being filled and registers follow each other: a mode other than 4 shown by
one is that of all behind it (`Follows`), the command of the click sets that mode
again, and enforcement does not take it away. Mode 4 is excepted because a snapshot
has the priority before the enforcement that ends it. `ChoiceHeld` then says that
the choice is pending or confirmed so. For `LastChoiceInForce` the invariant
(`OnItsWay`) follows the last choice: it is in the page's only request, or the last
command in the queue, or the working mode; executing a command over a dead link
still sets the working mode.

The theorems that no run states were checked with TLC on the runs' instances
before they were proved.

Only model-checked: the liveness properties (`KickSuffices`,
`CommandTaken`, `StopCompletes`, `Converges`, `CallsReturn`, `SilenceNoticed`,
`LatestShown`, `SignalEnds`, `PageConverges`, `LastClickWins`,
`OutageShown`), which need fairness. Every invariant and every action property that
a run checks is proved.

## 5. Not modelled, and the plan

Not modelled: logging, the wording and layout of answers and page, the parsing of
arguments, the diagnostic, power and COP values of a status (nothing depends on
them), the page's sliders and occupancy buttons (the pattern of the mode without
its mapping), the simulated client (a demonstration in floating point that
nothing else depends on), the bytes of frames and the CRC polynomial (pure
functions; frames here are intact or garbled), and the sources
that are not built or not called (`selftest.c`, `spsc_queue.h`, `SpscQueue`,
`StatusMonitor`, `JsonHelpers`, `StatusQueue::pop`, the read of several
registers, `docs/header_example.hpp`).

Two simplifications remain that hide behaviour: on Windows `SerialPort::flush`
discards nothing that was received (Platform.cpp:613), while the model flushes as
the POSIX code does; and `ControlLoop` takes every read that succeeds for genuine,
which `ReadGenuine` promises over a quiet line only.

Planned: the safety halves of further liveness properties, as
`EnforcementLasts` and `LastChoiceCarriedOut` are for `Converges` and
`LastClickWins`: what the page shows once polls and turns have caught up
(`PageConverges`, `OutageShown`), and where a command is while it has not been
taken (`CommandTaken`).

## 6. Running

    tlc -config ControlLoopSafety.cfg MCControlLoop
    tlapm ControlLoop_proofs.tla
