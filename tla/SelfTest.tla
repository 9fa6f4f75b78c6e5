------------------------------ MODULE SelfTest ------------------------------
(***************************************************************************)
(* The self-test (selftest.cpp), which main runs instead of the           *)
(* controller on a connected client: five registers are read, then the    *)
(* heating target is overwritten with a test value, read back and put     *)
(* back.  The exit code tells whether all of it went well.                 *)
(*                                                                         *)
(* Any transfer may fail with a ModbusException.  A write that failed may  *)
(* have been applied all the same, and one that was reported as done is    *)
(* done, as ModbusClient shows.  A read that failed may leave its answer   *)
(* under way (late); the reads after it may then each get the answer of    *)
(* their predecessor (ModbusClient!ReadGenuine has this as its condition). *)
(* The process may be killed at any step and started again, which may      *)
(* leave an answer under way as well; a serial line keeps it, since        *)
(* connecting discards only what has arrived.  A run that begins with one  *)
(* is stale.  The heating target may be changed at the device's panel.     *)
(***************************************************************************)
EXTENDS Naturals, Sequences

CONSTANTS
    Targets,        \* values of REG_HEATING_TARGET, in tenths of a degree
    TestValue,      \* temp_to_raw(SELFTEST_DHW_TARGET_TEMP) (450)
    Foreign,        \* what the other registers hold
    DeviceTypes     \* values of REG_DEVICE_TYPE

ASSUME SelfTestAssumption ==
    /\ TestValue \in Targets
    /\ Foreign \subseteq Nat /\ Targets \subseteq Nat

WindmiType == 8     \* Rotenso Windmi 8kW
Tests == 1 .. 6

VARIABLES
    pc,             \* the place in selftest_run
    deviceType,     \* REG_DEVICE_TYPE
    heating,        \* REG_HEATING_TARGET
    late,           \* the answer to a failed read is still under way
    original,       \* original_heating
    passed,         \* the tests whose read_ok, write_ok and verify_ok are all set
    critical,       \* all_critical_passed
    initial,        \* history: the heating target when the run began
    touched,        \* history: it was changed at the panel during the run
    stale           \* history: an answer was under way when the run began

device == <<deviceType, heating, late>>
ghosts == <<initial, touched, stale>>
vars == <<pc, device, original, passed, critical, ghosts>>

\* Tests 1 to 5, by the register they read; the other places are test 6's.
Reads == <<"type", "heating", "dhw", "outdoor", "tank">>
Places == {Reads[t] : t \in 1 .. 5}
            \cup {"idle", "original", "write", "verify", "restore", "done"}

Init ==
    /\ pc = "idle"
    /\ deviceType \in DeviceTypes /\ heating \in Targets /\ late = FALSE
    /\ original = 0 /\ passed = {} /\ critical = FALSE
    /\ initial = heating /\ touched = FALSE /\ stale = FALSE

\* main connects and calls selftest_run.  An answer that was under way may
\* have been lost, or have come and been discarded, or still come: the type
\* of the device, if the run before was killed while it read it.
Run ==
    /\ pc = "idle"
    /\ pc' = Reads[1]
    /\ passed' = {} /\ critical' = TRUE /\ original' = 0
    /\ late' \in {late, FALSE}
    /\ initial' = heating /\ touched' = FALSE /\ stale' = late'
    /\ UNCHANGED <<deviceType, heating>>

\* The values a successful read of a register with value v may return.
Answers(v) == IF late THEN {v} \cup Foreign ELSE {v}

\* Mutant: a failed read only shows in the counts.
FailUncritical(to) ==
    /\ pc' = to
    /\ late' \in {late, TRUE}
    /\ UNCHANGED <<deviceType, heating, original, passed, critical, ghosts>>

\* A read throws: all_critical_passed is cleared.
Fail(to) ==
    /\ pc' = to
    /\ critical' = FALSE
    /\ late' \in {late, TRUE}
    /\ UNCHANGED <<deviceType, heating, original, passed, ghosts>>

After(t) == IF t = 5 THEN "original" ELSE Reads[t + 1]

\* Tests 1 to 5 read a register; only the device type's value matters, and a
\* wrong one does not keep the test from counting as passed.
ReadTest(t) ==
    /\ pc = Reads[t]
    /\ \/ /\ pc' = After(t)
          /\ passed' = passed \cup {t}
          /\ \E v \in Answers(IF t = 1 THEN deviceType ELSE heating) :
                critical' = (critical /\ (t = 1 => v = WindmiType))
          /\ UNCHANGED <<device, original, ghosts>>
       \/ Fail(After(t))

\* Mutant: test 6 goes on although the original could not be read.
ReadOriginalUnchecked ==
    /\ pc = "original"
    /\ \/ /\ original' \in Answers(heating)
          /\ pc' = "write"
          /\ UNCHANGED <<device, passed, critical, ghosts>>
       \/ Fail("write")

\* Test 6 saves the heating target it reads; without it nothing is written.
ReadOriginal ==
    /\ pc = "original"
    /\ \/ /\ original' \in Answers(heating)
          /\ pc' = "write"
          /\ UNCHANGED <<device, passed, critical, ghosts>>
       \/ Fail("done")

\* A write that fails may have been applied; it leaves nothing of an earlier
\* read under way, or does.
FailedWrite(v) ==
    /\ critical' = FALSE
    /\ heating' \in {heating, v}
    /\ late' \in BOOLEAN

\* writeRegister(REG_HEATING_TARGET, test_value): after a failed one the
\* original value is not put back.
WriteTestValue ==
    /\ pc = "write"
    /\ \/ /\ heating' = TestValue
          /\ late' \in {late, FALSE}
          /\ pc' = "verify"
          /\ UNCHANGED critical
       \/ FailedWrite(TestValue) /\ pc' = "done"
    /\ UNCHANGED <<deviceType, original, passed, ghosts>>

\* Read back and compared; whatever the outcome, the original is restored.
Verify ==
    /\ pc = "verify"
    /\ \/ /\ \E v \in Answers(heating) :
                /\ passed' = IF v = TestValue THEN passed \cup {6} ELSE passed
                /\ critical' = (critical /\ v = TestValue)
          /\ pc' = "restore"
          /\ UNCHANGED <<device, original, ghosts>>
       \/ Fail("restore")

\* Mutant: a failed restoration is logged but does not count.
RestoreUncritical ==
    /\ pc = "restore" /\ pc' = "done"
    /\ \/ heating' = original /\ late' \in {late, FALSE}
       \/ heating' \in {heating, original} /\ late' \in BOOLEAN
    /\ UNCHANGED <<deviceType, original, passed, critical, ghosts>>

\* writeRegister(REG_HEATING_TARGET, original_heating)
Restore ==
    /\ pc = "restore" /\ pc' = "done"
    /\ \/ /\ heating' = original /\ late' \in {late, FALSE}
          /\ UNCHANGED critical
       \/ FailedWrite(original)
    /\ UNCHANGED <<deviceType, original, passed, ghosts>>

\* The report is printed, main disconnects and exits with its code.
Exit ==
    /\ pc = "done" /\ pc' = "idle"
    /\ UNCHANGED <<device, original, passed, critical, ghosts>>

\* The process is killed, while it waits for an answer or between transfers;
\* a write under way may be applied.
Kill ==
    /\ pc \notin {"idle", "done"}
    /\ pc' = "idle"
    /\ critical' = FALSE
    /\ late' \in {late, TRUE}
    /\ \/ UNCHANGED heating
       \/ pc = "write" /\ heating' = TestValue
       \/ pc = "restore" /\ heating' = original
    /\ UNCHANGED <<deviceType, original, passed, ghosts>>

TurnKnob(v) ==
    /\ heating' = v
    /\ touched' = TRUE
    /\ UNCHANGED <<pc, deviceType, late, original, passed, critical, initial, stale>>

Next ==
    \/ Run \/ Exit \/ Kill
    \/ \E t \in 1 .. 5 : ReadTest(t)
    \/ ReadOriginal \/ WriteTestValue \/ Verify \/ Restore
    \/ \E v \in Targets : TurnKnob(v)

Spec == Init /\ [][Next]_vars

-----------------------------------------------------------------------------
(* Properties *)

TypeOK ==
    /\ pc \in Places
    /\ deviceType \in DeviceTypes /\ heating \in Targets \cup Foreign
    /\ original \in Targets \cup Foreign \cup {0}
    /\ initial \in Targets \cup Foreign
    /\ passed \subseteq Tests
    /\ late \in BOOLEAN /\ critical \in BOOLEAN
    /\ touched \in BOOLEAN /\ stale \in BOOLEAN

\* A self-test that ends with exit code 0 leaves the heating target as it
\* found it, unless someone changed it at the panel meanwhile: every way in
\* which the test value, or an original misread after a failed transfer, can
\* stay behind is reported as a failure (selftest.cpp:209).  A stale run is
\* excepted: all its reads may be shifted by one without any of them
\* failing, and then it writes back what another register holds.
RestoredOrReported ==
    pc = "done" /\ critical /\ ~touched /\ ~stale => heating = initial

\* "Self-test PASSED" is logged only when six of six tests passed, and, but
\* for a stale run, whose first answer may be another's 8, on a Windmi 8kW.
\* The converse does not hold: a wrong device type or a failed restoration
\* fails the run with six of six.
VerdictSound ==
    pc = "done" /\ critical => passed = Tests /\ (stale \/ deviceType = WindmiType)
=============================================================================
