----------------------------- MODULE Lifecycle -----------------------------
(***************************************************************************)
(* The life of the program (main.cpp): the instance lock (Platform.cpp),  *)
(* start-up and its failures, the settings file (Config.cpp), the signal, *)
(* and a shutdown that stops the control thread, writes OFF to the device *)
(* with a client of its own and releases the lock.  Several processes are *)
(* started on one machine, with --force or without, against one device.   *)
(*                                                                         *)
(* What the control thread does is in ControlLoop and ControlThread; here *)
(* it writes the device's mode and saves settings at any time it is alive. *)
(* The device is on or off.  A save is two steps: the file is truncated   *)
(* when the stream is opened, and its few hundred bytes are written when  *)
(* it is closed.  A file is what a prefix of one save left on the disk.    *)
(***************************************************************************)
EXTENDS Integers, FiniteSets

CONSTANTS
    Proc,           \* processes
    CommandLines,   \* the options programs are started with
    MaxSaves,       \* bound: saves in a behaviour
    MaxAttempts,    \* attempts at the OFF write (3 in main)
    Keys,           \* number of keys main reads from the settings file (4)
    Garbled,        \* what a value cut short on the disk reads as
    Panel           \* the device's own panel, as a writer of its mode

Clients == {"tcp", "serial", "demo"}
Options == [force : BOOLEAN, client : Clients, selftest : BOOLEAN]

ASSUME LifecycleAssumption ==
    /\ CommandLines \subseteq Options
    /\ MaxSaves \in Nat
    /\ MaxAttempts \in Nat \ {0} /\ Keys \in Nat \ {0}
    /\ Garbled \notin 0 .. MaxSaves
    /\ Panel \notin Proc

VARIABLES
    system,         \* "posix" or "windows"
    pc,             \* each process's place in main
    opts,           \* its command line
    lock,           \* who holds the lock: flock's owner, or the mutex's handles
    overrode,       \* processes that started past an occupied lock with --force
    running,        \* g_running
    saving,         \* the save a process's control thread has under way; 0 for none
    loaded,         \* the settings read for setInitialSettings; 0 is a default
    attempt,        \* attempts at the OFF write so far
    client,         \* whether the shutdown client still has its modbus_client_t
    report,         \* what the last shutdown logged about the OFF write
    device,         \* the device's mode and who wrote it
    file,           \* the settings file
    saves,          \* saves asked for so far; a save's number is its content
    spoilt          \* history: the last save met a fault, or since it a process
                    \* was killed in a save or went past an occupied lock

process == <<pc, opts, running, attempt, client, report, loaded>>
settings == <<file, saves, saving, spoilt>>
vars == <<system, process, lock, overrode, device, settings>>

NoOptions == [force |-> FALSE, client |-> "demo", selftest |-> FALSE]
\* Between acquire_lock and release_lock.
Inside(p) == pc[p] \notin {"ended", "lock"}

\* The control thread lives from start to the join in stop.
ThreadAlive(p) == pc[p] \in {"web", "serving", "join"}

Defaults == [k \in 1 .. Keys |-> 0]
NoFile == [number |-> 0, keys |-> 0]

Init ==
    /\ system \in {"posix", "windows"}
    /\ pc = [p \in Proc |-> "ended"]
    /\ opts = [p \in Proc |-> NoOptions]
    /\ lock = {} /\ overrode = {}
    /\ running = [p \in Proc |-> TRUE]
    /\ saving = [p \in Proc |-> 0]
    /\ loaded = Defaults
    /\ attempt = [p \in Proc |-> 0]
    /\ client = [p \in Proc |-> TRUE]
    /\ report = [p \in Proc |-> "none"]
    /\ device = [on |-> TRUE, by |-> Panel]
    /\ file = NoFile
    /\ saves = 0 /\ spoilt = FALSE

Goto(p, to) == pc' = [pc EXCEPT ![p] = to]

\* Leaving main, or dying: the system closes what the process held.
End(p) ==
    /\ Goto(p, "ended")
    /\ lock' = lock \ {p} /\ overrode' = overrode \ {p}
    /\ opts' = [opts EXCEPT ![p] = NoOptions]
    /\ running' = [running EXCEPT ![p] = TRUE]
    /\ attempt' = [attempt EXCEPT ![p] = 0]
    /\ client' = [client EXCEPT ![p] = TRUE]
    /\ report' = [report EXCEPT ![p] = "none"]

\* Going on without touching the lock.
Proceed(p, to) ==
    /\ Goto(p, to)
    /\ UNCHANGED <<opts, lock, overrode, running, attempt, client, report>>

-----------------------------------------------------------------------------
(* Start-up *)

\* The command line.
Start(p, o) ==
    /\ pc[p] = "ended"
    /\ Goto(p, "lock")
    /\ opts' = [opts EXCEPT ![p] = o]
    /\ UNCHANGED <<system, lock, overrode, running, attempt, client, report, loaded,
                   device, settings>>

\* Mutant: the flock is tried but its failure is not looked at.
AcquireLockUnchecked(p) ==
    /\ pc[p] = "lock"
    /\ Goto(p, "connect")
    /\ lock' = IF lock = {} THEN {p} ELSE lock
    /\ UNCHANGED <<system, opts, overrode, running, attempt, client, loaded,
                   report, device, settings>>

\* acquire_instance_lock: a mutex is there as long as anyone has a handle to
\* it, --force adds one; a flock has one owner, and --force goes on without.
AcquireLock(p) ==
    /\ pc[p] = "lock"
    /\ IF lock = {} \/ opts[p].force
         THEN /\ Goto(p, "connect")
              /\ lock' = IF lock = {} \/ system = "windows" THEN lock \cup {p} ELSE lock
              /\ overrode' = IF lock = {} THEN overrode ELSE overrode \cup {p}
              /\ spoilt' = (spoilt \/ lock # {})
              /\ UNCHANGED <<opts, running, attempt, client, report>>
         ELSE End(p) /\ UNCHANGED spoilt
    /\ UNCHANGED <<system, loaded, device, file, saves, saving>>

\* The first connect, for the self-test or for normal operation; a device
\* that does not answer ends the program.
Connect(p) ==
    /\ pc[p] = "connect"
    /\ \/ Proceed(p, IF opts[p].selftest THEN "selftest" ELSE "load")
       \/ opts[p].client # "demo" /\ End(p)
    /\ UNCHANGED <<system, loaded, device, settings>>

\* selftest_run, its report and exit (SelfTest has the details).
RunSelfTest(p) ==
    /\ pc[p] = "selftest"
    /\ End(p)
    /\ UNCHANGED <<system, loaded, device, settings>>

\* loadFromFile and the getters: keys that are missing take their default,
\* a line cut short may still parse.
LoadedSettings(f) ==
    {[k \in 1 .. Keys |-> IF k <= f.keys THEN f.number
                          ELSE IF k = f.keys + 1 THEN d ELSE 0] :
        d \in IF f.number > 0 THEN {0, Garbled} ELSE {0}}

Load(p) ==
    /\ pc[p] = "load"
    /\ Goto(p, "start")
    /\ loaded' \in LoadedSettings(file)
    /\ UNCHANGED <<system, opts, lock, overrode, running, attempt, client, report,
                   device, settings>>

\* setInitialSettings, and the control thread is started, or cannot be.
StartLoop(p) ==
    /\ pc[p] = "start"
    /\ loaded' = Defaults
    /\ \/ Proceed(p, "web")
       \/ End(p)
    /\ UNCHANGED <<system, device, settings>>

\* The web server; a port that is taken stops the control thread, which ends
\* what it is doing, and the program, without an OFF write.
StartWeb(p) ==
    /\ pc[p] = "web"
    /\ \/ Proceed(p, "serving")
       \/ saving[p] = 0 /\ End(p)
    /\ UNCHANGED <<system, loaded, device, settings>>

-----------------------------------------------------------------------------
(* The control thread *)

\* A command or the enforcement writes the device's mode.
ControlWrite(p, on) ==
    /\ ThreadAlive(p)
    /\ opts[p].client # "demo"
    /\ device' = [on |-> on, by |-> p]
    /\ UNCHANGED <<system, process, lock, overrode, settings>>

\* The settings callback: the values are set and the file is opened, which
\* truncates it.  Where its directory is missing, which the program never
\* creates, it cannot be opened, and no one is told.
SaveBegin(p) ==
    /\ ThreadAlive(p) /\ saving[p] = 0
    /\ saves < MaxSaves
    /\ saves' = saves + 1
    /\ \/ /\ saving' = [saving EXCEPT ![p] = saves + 1] /\ file' = NoFile
          /\ spoilt' = (overrode # {})
       \/ spoilt' = TRUE /\ UNCHANGED <<saving, file>>
    /\ UNCHANGED <<system, process, lock, overrode, device>>

\* The stream is closed and its buffer written, as far as the disk has room.
\* (Of two processes that save at once, the later one's content prevails.)
SaveEnd(p) ==
    /\ saving[p] # 0
    /\ \E n \in 0 .. Keys :
         /\ file' = [number |-> saving[p], keys |-> n]
         /\ spoilt' = (spoilt \/ n < Keys)
    /\ saving' = [saving EXCEPT ![p] = 0]
    /\ UNCHANGED <<system, process, lock, overrode, device, saves>>

-----------------------------------------------------------------------------
(* Shutdown *)

\* SIGINT, SIGTERM or a console event, once the handler is installed.
Signal(p) ==
    /\ Inside(p) /\ running[p]
    /\ running' = [running EXCEPT ![p] = FALSE]
    /\ UNCHANGED <<system, pc, opts, attempt, client, report, loaded,
                   lock, overrode, device, settings>>

\* Mutant: OFF is written before the control thread is joined.
StopServingEarlyOff(p) ==
    /\ pc[p] = "serving" /\ ~running[p]
    /\ device' = [on |-> FALSE, by |-> p]
    /\ report' = [report EXCEPT ![p] = "ok"]
    /\ Goto(p, "join")
    /\ UNCHANGED <<system, opts, lock, overrode, running, attempt, client, loaded,
                   settings>>

\* The poll loop ends; WebServer::stop refuses further commands.
StopServing(p) ==
    /\ pc[p] = "serving" /\ ~running[p]
    /\ Proceed(p, "join")
    /\ UNCHANGED <<system, loaded, device, settings>>

\* Mutant: the lock is given up as soon as the thread has been joined.
JoinAndRelease(p) ==
    /\ pc[p] = "join" /\ saving[p] = 0
    /\ Goto(p, IF opts[p].client = "demo" THEN "release" ELSE "off")
    /\ lock' = lock \ {p}
    /\ UNCHANGED <<system, opts, overrode, running, attempt, client, loaded,
                   report, device, settings>>

\* Mutant: stop asks the thread to end and does not wait for it.
JoinWithoutWaiting(p) ==
    /\ pc[p] = "join"
    /\ Proceed(p, IF opts[p].client = "demo" THEN "release" ELSE "off")
    /\ UNCHANGED <<system, loaded, device, settings>>

\* ControlLoop::stop joins the thread, which ends what it is doing; then the
\* connection is closed.  Demo mode writes no OFF.
Join(p) ==
    /\ pc[p] = "join" /\ saving[p] = 0
    /\ Proceed(p, IF opts[p].client = "demo" THEN "release" ELSE "off")
    /\ UNCHANGED <<system, loaded, device, settings>>

\* A failed write is followed by disconnect; only the serial client can
\* connect again (ModbusClient's Impl destroys its modbus_client_t).
KeepsClient(c) == c = "serial"

OffSucceeds(p) ==
    /\ client[p]
    /\ device' = [on |-> FALSE, by |-> p]
    /\ report' = [report EXCEPT ![p] = "ok"]
    /\ Goto(p, "release")
    /\ UNCHANGED <<attempt, client>>

\* An attempt fails at connecting, which also is the fate of a client that
\* was destroyed, or at writing; then the write may have been applied
\* without a confirmation.
OffFails(p) ==
    /\ attempt' = [attempt EXCEPT ![p] = @ + 1]
    /\ \/ UNCHANGED <<client, device>>
       \/ /\ client[p]
          /\ client' = [client EXCEPT ![p] = KeepsClient(opts[p].client)]
          /\ \/ UNCHANGED device
             \/ device' = [on |-> FALSE, by |-> p]
    /\ IF attempt[p] + 1 = MaxAttempts
         THEN report' = [report EXCEPT ![p] = "failed"] /\ Goto(p, "release")
         ELSE UNCHANGED <<pc, report>>

\* Mutant: the loop over the attempts does not count them.
OffAttemptUncounted(p) ==
    /\ pc[p] = "off"
    /\ \/ OffSucceeds(p)
       \/ /\ client' = [client EXCEPT ![p] = KeepsClient(opts[p].client)]
          /\ UNCHANGED <<pc, attempt, report, device>>
    /\ UNCHANGED <<system, opts, running, loaded, lock, overrode, settings>>

\* One turn of the loop over the three attempts at the OFF write.
OffAttempt(p) ==
    /\ pc[p] = "off"
    /\ OffSucceeds(p) \/ OffFails(p)
    /\ UNCHANGED <<system, opts, running, loaded, lock, overrode, settings>>

\* release_lock and return.
Release(p) ==
    /\ pc[p] = "release"
    /\ End(p)
    /\ UNCHANGED <<system, loaded, device, settings>>

\* The process is killed or dies of an exception, or of a signal before the
\* handlers are installed.
Crash(p) ==
    /\ pc[p] # "ended"
    /\ End(p)
    /\ saving' = [saving EXCEPT ![p] = 0]
    /\ spoilt' = (spoilt \/ saving[p] # 0)
    /\ UNCHANGED <<system, loaded, device, file, saves>>

\* Someone turns the device on or off at its panel.
TurnKnob(on) ==
    /\ device' = [on |-> on, by |-> Panel]
    /\ UNCHANGED <<system, process, lock, overrode, settings>>

-----------------------------------------------------------------------------
MainStep(p) ==
    \/ AcquireLock(p) \/ Connect(p) \/ RunSelfTest(p) \/ Load(p) \/ StartLoop(p)
    \/ StartWeb(p)
    \/ StopServing(p) \/ Join(p) \/ OffAttempt(p) \/ Release(p)

Next ==
    \/ \E p \in Proc :
        \/ \E o \in CommandLines : Start(p, o)
        \/ MainStep(p)
        \/ \E on \in BOOLEAN : ControlWrite(p, on)
        \/ SaveBegin(p) \/ SaveEnd(p)
        \/ Signal(p) \/ Crash(p)
    \/ \E on \in BOOLEAN : TurnKnob(on)

\* Threads are scheduled, and connecting, writing and closing return.
Fairness == \A p \in Proc : WF_vars(MainStep(p) \/ SaveEnd(p))

Spec == Init /\ [][Next]_vars /\ Fairness

-----------------------------------------------------------------------------
(* Properties *)

\* Of the processes between acquire_lock and release_lock, at most one did
\* not go past an occupied lock with --force (Platform.cpp:144 and :171).
OneController == Cardinality({p \in Proc : Inside(p)} \ overrode) <= 1

\* As long as --force was not used to go past the lock, no process touches
\* the device while another one is between start-up and its last write: the
\* OFF of a shutdown never hits a successor's device (main.cpp:342).
DeviceOwned ==
    [][\A p \in Proc : device' # device /\ device'.by = p /\ overrode = {}
         => \A q \in Proc \ {p} : ~Inside(q)]_vars

\* When the shutdown logged "OFF write OK", the device is off, unless
\* someone else has turned it on since: the process's own control thread
\* never writes after that (main.cpp:316, join before OFF).
OffIsLast ==
    \A p \in Proc : report[p] = "ok" /\ device.by = p => ~device.on

\* A program that starts gets all the settings its predecessors were last
\* asked to save, and the defaults if there was nothing to save; none of
\* them is still writing the file it reads.  This takes the join, which
\* waits for a save under way, and the lock, which keeps the next program
\* from the file until then.  It holds unless the file of that save could not be
\* opened or the disk was full, or its process was killed during the save,
\* which leaves the file empty, or --force was used to go past the lock
\* (main.cpp:260 and :276, Config.cpp:60).
SettingsReturn ==
    [][\A p \in Proc : pc[p] = "load" /\ pc'[p] = "start" /\ ~spoilt
         => loaded' = [k \in 1 .. Keys |-> saves]]_vars

\* SIGINT or SIGTERM ends the program, whatever the device does: the waits
\* of start-up and shutdown are bounded (main.cpp:338).
SignalEnds ==
    \A p \in Proc : (~running[p] /\ Inside(p)) ~> pc[p] = "ended"
=============================================================================
