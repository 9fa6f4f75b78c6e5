-------------------------- MODULE Lifecycle_proofs --------------------------
(***************************************************************************)
(* Proofs about Lifecycle, for any number of processes, starts, crashes    *)
(* and saves, all command lines and any number of attempts.  A process     *)
(* that is inside and did not go past an occupied lock holds the lock, and *)
(* of those who hold it at most one did not go past it (LockHeld).  The    *)
(* OFF write lies between the join and the release (OffWritten).  A save   *)
(* is under way only while its process's control thread is alive, and,     *)
(* unless something went wrong, it is the last one asked for; the file is  *)
(* whole when none is (FileInv).                                           *)
(***************************************************************************)
EXTENDS Lifecycle, FiniteSetTheorems, TLAPS

Places == {"ended", "lock", "connect", "selftest", "load", "start", "web", "serving",
           "join", "off", "release"}

Types ==
    /\ pc \in [Proc -> Places] /\ opts \in [Proc -> Options]
    /\ lock \subseteq Proc /\ overrode \subseteq Proc
    /\ report \in [Proc -> {"none", "ok", "failed"}]
    /\ device \in [on : BOOLEAN, by : Proc \cup {Panel}]

LockHeld ==
    /\ \A p \in Proc : Inside(p) => p \in lock \/ p \in overrode
    /\ \A p, q \in lock : p \notin overrode /\ q \notin overrode => p = q

OffWritten ==
    \A p \in Proc :
        /\ report[p] # "none" => pc[p] = "release"
        /\ report[p] = "ok" /\ device.by = p => ~device.on

Inv == Types /\ LockHeld /\ OffWritten

-----------------------------------------------------------------------------
LEMMA InitInv == Init => Inv
<1> SUFFICES ASSUME Init PROVE Inv
  OBVIOUS
<1>1. NoOptions \in Options
  BY DEF NoOptions, Options, Clients
<1>2. device \in [on : BOOLEAN, by : Proc \cup {Panel}]
  BY DEF Init
<1>3. Types
  BY <1>1, <1>2 DEF Init, Types, Places
<1>4. LockHeld /\ OffWritten
  BY DEF Init, LockHeld, OffWritten, Inside
<1> QED BY <1>3, <1>4 DEF Inv

\* A process that ends, in whatever way, gives up what it holds.
LEMMA EndInv ==
    ASSUME Inv, NEW p \in Proc, End(p), UNCHANGED device
    PROVE  Inv'
<1>1. NoOptions \in Options
  BY DEF NoOptions, Options, Clients
<1>2. Types'
  BY <1>1 DEF Inv, Types, End, Goto, Places
<1>3. LockHeld'
  BY DEF Inv, Types, End, Goto, LockHeld, Inside
<1>4. OffWritten'
  BY DEF Inv, Types, End, Goto, OffWritten
<1> QED BY <1>2, <1>3, <1>4 DEF Inv

\* A process that goes on, before its OFF write.
LEMMA MovesInv ==
    ASSUME Inv, NEW p \in Proc, NEW to \in Places, Goto(p, to),
           UNCHANGED <<opts, lock, overrode, report, device>>,
           pc[p] \notin {"off", "release"},
           to \notin {"ended", "lock"} => Inside(p)
    PROVE  Inv'
<1>1. Types'
  BY DEF Inv, Types, Goto
<1>2. LockHeld'
  BY DEF Inv, Types, Goto, LockHeld, Inside
<1>3. OffWritten'
  BY DEF Inv, Types, Goto, OffWritten
<1> QED BY <1>1, <1>2, <1>3 DEF Inv

\* Steps that leave all of this alone.
LEMMA IdleInv ==
    ASSUME Inv, UNCHANGED <<pc, opts, lock, overrode, report, device>>
    PROVE  Inv'
BY DEF Inv, Types, LockHeld, Inside, OffWritten

LEMMA StartInv ==
    ASSUME Inv, NEW p \in Proc, NEW o \in CommandLines, Start(p, o)
    PROVE  Inv'
<1>1. o \in Options
  BY LifecycleAssumption
<1>2. UNCHANGED <<lock, overrode, report, device>>
  BY DEF Start
<1>3. Types'
  BY <1>1, <1>2 DEF Inv, Types, Start, Goto, Places
<1>4. LockHeld'
  BY <1>2 DEF Inv, Types, Start, Goto, LockHeld, Inside
<1>5. OffWritten'
  BY <1>2 DEF Inv, Types, Start, Goto, OffWritten
<1> QED BY <1>3, <1>4, <1>5 DEF Inv

LEMMA AcquireLockInv ==
    ASSUME Inv, NEW p \in Proc, AcquireLock(p)
    PROVE  Inv'
<1>1. CASE End(p)
  BY <1>1, EndInv DEF AcquireLock
<1>2. CASE /\ Goto(p, "connect")
           /\ lock' = IF lock = {} \/ system = "windows" THEN lock \cup {p} ELSE lock
           /\ overrode' = IF lock = {} THEN overrode ELSE overrode \cup {p}
           /\ UNCHANGED <<opts, report>>
  <2>1. UNCHANGED device /\ pc[p] = "lock"
    BY DEF AcquireLock
  <2>2. Types'
    BY <1>2, <2>1 DEF Inv, Types, Goto, Places
  <2>3. LockHeld'
    BY <1>2, <2>1 DEF Inv, Types, Goto, LockHeld, Inside
  <2>4. OffWritten'
    BY <1>2, <2>1 DEF Inv, Types, Goto, OffWritten
  <2> QED BY <2>2, <2>3, <2>4 DEF Inv
<1> QED BY <1>1, <1>2 DEF AcquireLock

\* The steps of main before and after its service that only go on or end.
LEMMA WayInv ==
    ASSUME Inv, NEW p \in Proc,
           \/ Connect(p) \/ RunSelfTest(p) \/ Load(p) \/ StartLoop(p) \/ StartWeb(p)
           \/ StopServing(p) \/ Join(p) \/ Release(p)
    PROVE  Inv'
<1>1. UNCHANGED device
  BY DEF Connect, RunSelfTest, Load, StartLoop, StartWeb, StopServing, Join, Release
<1>2. \/ End(p)
      \/ \E to \in Places \ {"ended", "lock"} :
            /\ Goto(p, to)
            /\ UNCHANGED <<opts, lock, overrode, report>>
            /\ Inside(p) /\ pc[p] \notin {"off", "release"}
  BY DEF Connect, RunSelfTest, Load, StartLoop, StartWeb, StopServing, Join, Release,
         Proceed, Inside, Places
<1> QED BY <1>1, <1>2, EndInv, MovesInv

\* The control thread writes only before the join, hence before any report.
LEMMA ControlWriteInv ==
    ASSUME Inv, NEW p \in Proc, NEW on \in BOOLEAN, ControlWrite(p, on)
    PROVE  Inv'
<1>1. UNCHANGED <<pc, opts, lock, overrode, report>>
  BY DEF ControlWrite, process
<1>2. device' = [on |-> on, by |-> p] /\ pc[p] # "release"
  BY DEF ControlWrite, ThreadAlive
<1>3. device' \in [on : BOOLEAN, by : Proc \cup {Panel}]
  BY <1>2
<1>4. device'.by = p
  BY <1>2
<1>5. OffWritten'
  BY <1>1, <1>2, <1>4 DEF Inv, Types, OffWritten
<1> QED BY <1>1, <1>3, <1>5 DEF Inv, Types, LockHeld, Inside

LEMMA TurnKnobInv ==
    ASSUME Inv, NEW on \in BOOLEAN, TurnKnob(on)
    PROVE  Inv'
<1>1. UNCHANGED <<pc, opts, lock, overrode, report>>
  BY DEF TurnKnob, process
<1>2. device' = [on |-> on, by |-> Panel] /\ Panel \notin Proc
  BY LifecycleAssumption DEF TurnKnob
<1>3. device' \in [on : BOOLEAN, by : Proc \cup {Panel}] /\ device'.by \notin Proc
  BY <1>2
<1> QED BY <1>1, <1>3 DEF Inv, Types, LockHeld, Inside, OffWritten

\* One attempt at the OFF write.
LEMMA OffAttemptInv ==
    ASSUME Inv, NEW p \in Proc, OffAttempt(p)
    PROVE  Inv'
<1>1. UNCHANGED <<opts, lock, overrode>> /\ pc[p] = "off" /\ report[p] = "none"
  BY DEF OffAttempt, Inv, Types, OffWritten
<1>2. /\ device' \in [on : BOOLEAN, by : Proc \cup {Panel}]
      /\ device' = device \/ (device'.by = p /\ ~device'.on)
  <2>1. CASE UNCHANGED device
    BY <2>1 DEF Inv, Types
  <2>2. CASE device' = [on |-> FALSE, by |-> p]
    BY <2>2
  <2> QED BY <2>1, <2>2 DEF OffAttempt, OffSucceeds, OffFails
<1>3. CASE UNCHANGED <<pc, report>>
  <2>1. Types'
    BY <1>1, <1>2, <1>3 DEF Inv, Types
  <2>2. LockHeld'
    BY <1>1, <1>3 DEF Inv, LockHeld, Inside
  <2>3. OffWritten'
    BY <1>1, <1>2, <1>3 DEF Inv, Types, OffWritten
  <2> QED BY <2>1, <2>2, <2>3 DEF Inv
<1>4. ASSUME NEW r \in {"ok", "failed"},
             report' = [report EXCEPT ![p] = r], pc' = [pc EXCEPT ![p] = "release"],
             r = "ok" => device'.by = p /\ ~device'.on
      PROVE  Inv'
  <2>1. Types'
    BY <1>1, <1>2, <1>4 DEF Inv, Types, Places
  <2>2. LockHeld'
    BY <1>1, <1>4 DEF Inv, Types, LockHeld, Inside
  <2>3. OffWritten'
    BY <1>1, <1>2, <1>4 DEF Inv, Types, OffWritten
  <2> QED BY <2>1, <2>2, <2>3 DEF Inv
<1>5. CASE OffSucceeds(p)
  <2>1. device'.by = p /\ ~device'.on
    BY <1>5 DEF OffSucceeds
  <2> QED BY <1>4, <1>5, <2>1 DEF OffSucceeds, Goto
<1>6. CASE OffFails(p)
  BY <1>3, <1>4, <1>6 DEF OffFails, Goto
<1> QED BY <1>5, <1>6 DEF OffAttempt

LEMMA NextInv == Inv /\ [Next]_vars => Inv'
<1> SUFFICES ASSUME Inv, [Next]_vars PROVE Inv'
  OBVIOUS
<1>1. ASSUME NEW p \in Proc, NEW o \in CommandLines, Start(p, o) PROVE Inv'
  BY <1>1, StartInv
<1>2. ASSUME NEW p \in Proc, MainStep(p) PROVE Inv'
  BY <1>2, AcquireLockInv, WayInv, OffAttemptInv DEF MainStep
<1>3. ASSUME NEW p \in Proc, NEW on \in BOOLEAN, ControlWrite(p, on) PROVE Inv'
  BY <1>3, ControlWriteInv
<1>4. ASSUME NEW p \in Proc, SaveBegin(p) \/ SaveEnd(p) \/ Signal(p) PROVE Inv'
  BY <1>4, IdleInv DEF SaveBegin, SaveEnd, Signal, process
<1>5. ASSUME NEW p \in Proc, Crash(p) PROVE Inv'
  BY <1>5, EndInv DEF Crash
<1>6. ASSUME NEW on \in BOOLEAN, TurnKnob(on) PROVE Inv'
  BY <1>6, TurnKnobInv
<1>7. CASE UNCHANGED vars
  BY <1>7, IdleInv DEF vars, process
<1> QED BY <1>1, <1>2, <1>3, <1>4, <1>5, <1>6, <1>7 DEF Next

\* Inv is inductive.
THEOREM Invariance == Spec => []Inv
BY InitInv, NextInv, PTL DEF Spec

-----------------------------------------------------------------------------
\* Two processes inside that did not go past the lock are one.
LEMMA OneInside ==
    ASSUME Inv, NEW p \in Proc, NEW q \in Proc, Inside(p), Inside(q),
           p \notin overrode, q \notin overrode
    PROVE  p = q
BY DEF Inv, LockHeld

\* At most one process that did not go past an occupied lock with --force is
\* between acquire_lock and release_lock, for any number of processes.
THEOREM LockWorks == Spec => []OneController
<1>1. Inv => OneController
  <2> SUFFICES ASSUME Inv PROVE OneController
    OBVIOUS
  <2> DEFINE S == {p \in Proc : Inside(p)} \ overrode
  <2>1. CASE S = {}
    BY <2>1, FS_EmptySet DEF OneController
  <2>2. CASE S # {}
    <3>1. PICK x : x \in S
      BY <2>2
    <3>2. S = {x}
      BY <3>1, OneInside
    <3>3. Cardinality({x}) = 1
      BY FS_Singleton
    <3> QED BY <3>2, <3>3 DEF OneController
  <2> QED BY <2>1, <2>2
<1> QED BY Invariance, <1>1, PTL

\* After "OFF write OK" the device is off unless someone else turned it on.
THEOREM OffStays == Spec => []OffIsLast
<1>1. Inv => OffIsLast
  BY DEF Inv, OffWritten, OffIsLast
<1> QED BY Invariance, <1>1, PTL

\* Without --force no process writes to the device while another is inside.
THEOREM DeviceIsOwned == Spec => DeviceOwned
<1> DEFINE Owned ==
      \A p \in Proc : device' # device /\ device'.by = p /\ overrode = {}
        => \A q \in Proc \ {p} : ~Inside(q)
<1>1. Inv /\ [Next]_vars => [Owned]_vars
  <2> SUFFICES ASSUME Inv, Next, NEW p \in Proc, device' # device, device'.by = p,
                      overrode = {}, NEW q \in Proc \ {p}, Inside(q)
               PROVE  FALSE
    OBVIOUS
  <2>1. ASSUME NEW r \in Proc, NEW o \in CommandLines, Start(r, o) PROVE FALSE
    BY <2>1 DEF Start
  <2>2. ASSUME NEW r \in Proc, SaveBegin(r) \/ SaveEnd(r) \/ Signal(r) \/ Crash(r) PROVE FALSE
    BY <2>2 DEF SaveBegin, SaveEnd, Signal, Crash
  <2>3. ASSUME NEW on \in BOOLEAN, TurnKnob(on) PROVE FALSE
    BY <2>3, LifecycleAssumption DEF TurnKnob
  <2>4. ASSUME NEW r \in Proc, NEW on \in BOOLEAN, ControlWrite(r, on) PROVE FALSE
    <3>1. r = p /\ Inside(r)
      BY <2>4 DEF ControlWrite, ThreadAlive, Inside
    <3> QED BY <3>1, OneInside
  <2>5. ASSUME NEW r \in Proc, MainStep(r) PROVE FALSE
    <3>1. OffAttempt(r)
      BY <2>5 DEF MainStep, AcquireLock, Connect, RunSelfTest, Load, StartLoop, StartWeb,
                  StopServing, Join, Release
    <3>2. device' = [on |-> FALSE, by |-> r] /\ pc[r] = "off"
      BY <3>1 DEF OffAttempt, OffSucceeds, OffFails
    <3>3. r = p /\ Inside(r)
      BY <3>2 DEF Inside
    <3> QED BY <3>3, OneInside
  <2> QED BY <2>1, <2>2, <2>3, <2>4, <2>5 DEF Next
<1> QED BY Invariance, <1>1, PTL DEF Spec, DeviceOwned

-----------------------------------------------------------------------------
\* The file holds all of the last save, or there was none.
Whole == saves = 0 \/ file = [number |-> saves, keys |-> Keys]

NoSave == \A p \in Proc : saving[p] = 0

FileInv ==
    /\ saves \in Nat
    /\ saving \in [Proc -> Nat]
    /\ \A p \in Proc : saving[p] # 0 => ThreadAlive(p)
    /\ saves = 0 => file = NoFile /\ NoSave
    /\ ~spoilt => overrode = {}
    /\ ~spoilt => \A p \in Proc : saving[p] # 0 => saving[p] = saves
    /\ ~spoilt /\ NoSave => Whole

\* Only the thread of a process that has the lock to itself is in a save.
LEMMA OneSaves ==
    ASSUME Inv, FileInv, overrode = {}, NEW p \in Proc, Inside(p), NEW q \in Proc, q # p
    PROVE  saving[q] = 0
BY OneInside DEF FileInv, ThreadAlive, Inside

\* A save begins: of a file that could be opened, all is still to come.
LEMMA SaveBeginInv ==
    ASSUME Inv, FileInv, NEW p \in Proc, SaveBegin(p)
    PROVE  FileInv'
<1>1. /\ ThreadAlive(p) /\ Inside(p) /\ saving[p] = 0 /\ UNCHANGED <<pc, overrode>>
      /\ saves' = saves + 1 /\ saves \in Nat
  BY DEF SaveBegin, FileInv, process, ThreadAlive, Inside
<1>2. CASE spoilt' = TRUE /\ UNCHANGED <<saving, file>>
  BY <1>1, <1>2 DEF FileInv, ThreadAlive
<1>3. CASE /\ saving' = [saving EXCEPT ![p] = saves + 1]
           /\ spoilt' = (overrode # {})
  <2>1. saving' \in [Proc -> Nat] /\ saving'[p] = saves'
    BY <1>1, <1>3 DEF FileInv
  <2>2. \A q \in Proc : saving'[q] # 0 => ThreadAlive(q)'
    BY <1>1, <1>3 DEF FileInv, ThreadAlive
  <2>3. ASSUME ~spoilt', NEW q \in Proc, saving'[q] # 0 PROVE q = p
    BY <1>1, <1>3, <2>3, OneSaves DEF FileInv
  <2>4. ~NoSave' /\ saves' # 0 /\ saves' \in Nat
    BY <1>1, <2>1 DEF NoSave
  <2>5. ~spoilt' => overrode' = {}
    BY <1>1, <1>3, Zenon
  <2>6. ~spoilt' => \A q \in Proc : saving'[q] # 0 => saving'[q] = saves'
    BY <2>1, <2>3
  <2> QED BY <2>1, <2>2, <2>4, <2>5, <2>6, Zenon DEF FileInv
<1> QED BY <1>2, <1>3 DEF SaveBegin

\* A save that ends well makes the file whole.
LEMMA SaveEndInv ==
    ASSUME FileInv, NEW p \in Proc, SaveEnd(p)
    PROVE  FileInv'
<1>1. /\ saving[p] # 0 /\ saving' = [saving EXCEPT ![p] = 0]
      /\ UNCHANGED <<pc, overrode, saves>>
  BY DEF SaveEnd, process
<1>2. PICK n \in 0 .. Keys :
         /\ file' = [number |-> saving[p], keys |-> n]
         /\ spoilt' = (spoilt \/ n < Keys)
  BY DEF SaveEnd
<1>3. saving' \in [Proc -> Nat] /\ saves # 0
  BY <1>1 DEF FileInv, NoSave
<1>4. \A q \in Proc : saving'[q] # 0 => saving'[q] = saving[q]
  BY <1>1 DEF FileInv
<1>5. ~spoilt' => ~spoilt /\ ~(n < Keys)
  BY <1>2, Zenon
<1>6. ASSUME ~spoilt' PROVE Whole'
  <2>1. n = Keys
    BY <1>5, <1>6, LifecycleAssumption
  <2> QED BY <1>1, <1>2, <1>5, <1>6, <2>1 DEF FileInv, Whole
<1> QED BY <1>1, <1>3, <1>4, <1>5, <1>6 DEF FileInv, ThreadAlive

\* Steps that leave the saves alone, and end or move a process that has none
\* under way, or one whose thread stays alive.
LEMMA OtherFileInv ==
    ASSUME FileInv, UNCHANGED <<file, saves, saving>>,
           \A q \in Proc : saving[q] # 0 /\ ThreadAlive(q) => ThreadAlive(q)',
           ~spoilt' => ~spoilt,
           ~spoilt' /\ overrode = {} => overrode' = {}
    PROVE  FileInv'
BY DEF FileInv, NoSave, Whole

\* The steps of main end or leave the thread only when no save is under way.
LEMMA MainFileInv ==
    ASSUME Inv, FileInv, NEW p \in Proc, MainStep(p)
    PROVE  FileInv'
<1>1. UNCHANGED <<file, saves, saving>>
  BY DEF MainStep, AcquireLock, Connect, RunSelfTest, Load, StartLoop, StartWeb, StopServing,
         Join, OffAttempt, Release, settings
<1>2. ASSUME End(p), UNCHANGED spoilt, ~ThreadAlive(p) \/ saving[p] = 0
      PROVE  FileInv'
  <2>1. \A q \in Proc : saving[q] # 0 /\ ThreadAlive(q) => ThreadAlive(q)'
    BY <1>2 DEF End, Goto, ThreadAlive, Inv, Types
  <2> QED BY <1>1, <1>2, <2>1, OtherFileInv DEF End
<1>3. ASSUME NEW to, Goto(p, to), UNCHANGED <<overrode, spoilt>>,
             \/ ~ThreadAlive(p) \/ saving[p] = 0
             \/ to \in {"serving", "join"}
      PROVE  FileInv'
  <2>1. \A q \in Proc : saving[q] # 0 /\ ThreadAlive(q) => ThreadAlive(q)'
    BY <1>3 DEF Goto, ThreadAlive, Inv, Types
  <2> QED BY <1>1, <1>3, <2>1, OtherFileInv
<1>4. CASE AcquireLock(p)
  <2>1. ~ThreadAlive(p)
    BY <1>4 DEF AcquireLock, ThreadAlive
  <2>2. CASE End(p) /\ UNCHANGED spoilt
    BY <1>2, <2>1, <2>2
  <2>3. CASE /\ Goto(p, "connect")
             /\ overrode' = IF lock = {} THEN overrode ELSE overrode \cup {p}
             /\ spoilt' = (spoilt \/ lock # {})
    <3>1. \A q \in Proc : saving[q] # 0 /\ ThreadAlive(q) => ThreadAlive(q)'
      BY <2>1, <2>3 DEF Goto, ThreadAlive, Inv, Types
    <3> QED BY <1>1, <2>3, <3>1, OtherFileInv
  <2> QED BY <1>4, <2>2, <2>3 DEF AcquireLock
<1>5. CASE Connect(p) \/ RunSelfTest(p) \/ Load(p) \/ StartLoop(p) \/ Release(p)
  <2>1. ~ThreadAlive(p) /\ UNCHANGED spoilt
    BY <1>5 DEF Connect, RunSelfTest, Load, StartLoop, Release, ThreadAlive, settings
  <2> QED BY <1>2, <1>3, <1>5, <2>1 DEF Connect, RunSelfTest, Load, StartLoop, Release, Proceed
<1>6. CASE StartWeb(p) \/ StopServing(p) \/ Join(p)
  <2>1. UNCHANGED spoilt
    BY <1>6 DEF StartWeb, StopServing, Join, settings
  <2> QED BY <1>2, <1>3, <1>6, <2>1 DEF StartWeb, StopServing, Join, Proceed
<1>7. CASE OffAttempt(p)
  <2>1. ~ThreadAlive(p) /\ UNCHANGED <<spoilt, overrode>>
    BY <1>7 DEF OffAttempt, ThreadAlive, settings
  <2>2. pc' = pc \/ Goto(p, "release")
    BY <1>7 DEF OffAttempt, OffSucceeds, OffFails
  <2>3. CASE pc' = pc
    BY <1>1, <2>1, <2>3, OtherFileInv DEF ThreadAlive
  <2> QED BY <1>3, <2>1, <2>2, <2>3
<1> QED BY <1>4, <1>5, <1>6, <1>7 DEF MainStep

\* A process killed in a save spoils the file.
LEMMA CrashFileInv ==
    ASSUME Inv, FileInv, NEW p \in Proc, Crash(p)
    PROVE  FileInv'
<1>1. /\ End(p) /\ saving' = [saving EXCEPT ![p] = 0]
      /\ spoilt' = (spoilt \/ saving[p] # 0) /\ UNCHANGED <<file, saves>>
  BY DEF Crash
<1>2. saving' \in [Proc -> Nat] /\ saving'[p] = 0 /\ \A q \in Proc \ {p} : saving'[q] = saving[q]
  BY <1>1 DEF FileInv
<1>3. \A q \in Proc : saving'[q] # 0 => ThreadAlive(q)'
  BY <1>1, <1>2 DEF FileInv, End, Goto, ThreadAlive, Inv, Types
<1>4. overrode = {} => overrode' = {}
  BY <1>1 DEF End
<1>5. ~spoilt' => \A q \in Proc : saving'[q] = saving[q]
  BY <1>1, <1>2
<1> QED BY <1>1, <1>2, <1>3, <1>4, <1>5 DEF FileInv, NoSave, Whole

\* Inv and FileInv are inductive together.
THEOREM FileInvariance == Spec => [](Inv /\ FileInv)
<1>1. Init => FileInv
  BY DEF Init, FileInv, NoSave, Whole
<1>2. Inv /\ FileInv /\ [Next]_vars => FileInv'
  <2> SUFFICES ASSUME Inv, FileInv, [Next]_vars PROVE FileInv'
    OBVIOUS
  <2>1. ASSUME NEW p \in Proc, NEW o \in CommandLines, Start(p, o) PROVE FileInv'
    <3>1. \A q \in Proc : saving[q] # 0 /\ ThreadAlive(q) => ThreadAlive(q)'
      BY <2>1 DEF Start, Goto, ThreadAlive, Inv, Types
    <3> QED BY <2>1, <3>1, OtherFileInv DEF Start, settings
  <2>2. ASSUME NEW p \in Proc, Signal(p) \/ \E on \in BOOLEAN : ControlWrite(p, on)
        PROVE  FileInv'
    BY <2>2, OtherFileInv DEF Signal, ControlWrite, ThreadAlive, settings, process
  <2>3. ASSUME NEW on \in BOOLEAN, TurnKnob(on) PROVE FileInv'
    BY <2>3, OtherFileInv DEF TurnKnob, ThreadAlive, settings, process
  <2>4. CASE UNCHANGED vars
    BY <2>4, OtherFileInv DEF vars, ThreadAlive, settings, process
  <2> QED BY <2>1, <2>2, <2>3, <2>4, MainFileInv, SaveBeginInv, SaveEndInv, CrashFileInv
          DEF Next
<1> QED BY <1>1, <1>2, InitInv, NextInv, PTL DEF Spec

\* Only Load takes a process from "load" to "start".
LEMMA OnlyLoad ==
    ASSUME Types, Next, NEW p \in Proc, pc[p] = "load", pc'[p] = "start"
    PROVE  loaded' \in LoadedSettings(file)
<1>1. ASSUME NEW r \in Proc, NEW o \in CommandLines, Start(r, o) PROVE FALSE
  BY <1>1 DEF Types, Start, Goto
<1>2. ASSUME NEW r \in Proc,
             \/ SaveBegin(r) \/ SaveEnd(r) \/ Signal(r)
             \/ \E on \in BOOLEAN : ControlWrite(r, on)
      PROVE  FALSE
  BY <1>2 DEF SaveBegin, SaveEnd, Signal, ControlWrite, process
<1>3. ASSUME NEW on \in BOOLEAN, TurnKnob(on) PROVE FALSE
  BY <1>3 DEF TurnKnob, process
<1>4. ASSUME NEW r \in Proc, End(r) PROVE FALSE
  BY <1>4 DEF Types, End, Goto
<1>5. ASSUME NEW r \in Proc, Crash(r) PROVE FALSE
  BY <1>4, <1>5 DEF Crash
<1>6. ASSUME NEW r \in Proc, MainStep(r) PROVE loaded' \in LoadedSettings(file)
  <2>1. ASSUME NEW to, Goto(r, to), to # "start" PROVE FALSE
    BY <2>1 DEF Types, Goto
  <2>2. CASE AcquireLock(r)
    BY <1>4, <2>1, <2>2 DEF AcquireLock
  <2>3. CASE Connect(r) \/ RunSelfTest(r) \/ StartLoop(r) \/ StartWeb(r)
    BY <1>4, <2>1, <2>3 DEF Connect, RunSelfTest, StartLoop, StartWeb, Proceed
  <2>4. CASE Load(r)
    BY <2>4 DEF Load
  <2>5. CASE StopServing(r) \/ Join(r) \/ Release(r)
    BY <1>4, <2>1, <2>5 DEF StopServing, Join, Release, Proceed
  <2>6. CASE OffAttempt(r)
    BY <2>1, <2>6 DEF OffAttempt, OffSucceeds, OffFails
  <2> QED BY <1>6, <2>2, <2>3, <2>4, <2>5, <2>6 DEF MainStep
<1> QED BY <1>1, <1>2, <1>3, <1>5, <1>6 DEF Next

\* A program that reads a file no save has spoilt finds it whole: it is
\* alone, and its own control thread does not run yet.
LEMMA ReadsWhole ==
    ASSUME Inv, FileInv, ~spoilt, NEW p \in Proc, pc[p] = "load"
    PROVE  Whole
<1>1. overrode = {} /\ Inside(p) /\ ~ThreadAlive(p)
  BY DEF FileInv, Inside, ThreadAlive
<1>2. NoSave
  BY <1>1, OneSaves DEF FileInv, NoSave
<1> QED BY <1>2 DEF FileInv

\* A whole file gives back every key of its save.
LEMMA WholeFile ==
    ASSUME FileInv, Whole, NEW l \in LoadedSettings(file)
    PROVE  l = [k \in 1 .. Keys |-> saves]
<1>1. CASE saves = 0
  <2>1. file = [number |-> 0, keys |-> 0]
    BY <1>1 DEF FileInv, NoFile
  <2>2. l = [k \in 1 .. Keys |-> IF k <= 0 THEN 0 ELSE IF k = 0 + 1 THEN 0 ELSE 0]
    BY <2>1 DEF LoadedSettings
  <2> QED BY <1>1, <2>2
<1>2. CASE file = [number |-> saves, keys |-> Keys]
  <2>1. PICK d : l = [k \in 1 .. Keys |-> IF k <= Keys THEN saves
                                          ELSE IF k = Keys + 1 THEN d ELSE 0]
    BY <1>2 DEF LoadedSettings
  <2> QED BY <2>1, LifecycleAssumption
<1> QED BY <1>1, <1>2 DEF Whole

\* A start finds all of what was last saved, in whatever order processes
\* start, save, stop and die, unless that save itself failed or was cut
\* short or --force was used, for any number of keys, saves and processes.
THEOREM SettingsComeBack == Spec => SettingsReturn
<1> DEFINE Returned ==
      \A p \in Proc : pc[p] = "load" /\ pc'[p] = "start" /\ ~spoilt
        => loaded' = [k \in 1 .. Keys |-> saves]
<1>1. Inv /\ FileInv /\ [Next]_vars => [Returned]_vars
  BY OnlyLoad, ReadsWhole, WholeFile DEF Inv
<1> QED BY FileInvariance, <1>1, PTL DEF Spec, SettingsReturn
=============================================================================
