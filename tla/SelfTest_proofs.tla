-------------------------- MODULE SelfTest_proofs --------------------------
(***************************************************************************)
(* Proofs about SelfTest.  A run counts as passed so far (critical) only   *)
(* while every transfer has succeeded, so the tests behind it have passed; *)
(* unless it began with an answer under way (stale) none is under way      *)
(* then, every read is genuine, and the original that was read is the      *)
(* target the run began with.                                              *)
(***************************************************************************)
EXTENDS SelfTest, TLAPS

\* The places before the test value is written.
Before == {"type", "heating", "dhw", "outdoor", "tank", "original", "write"}

\* The tests behind a place of a run that has not failed.
Behind(place) ==
    IF place = "type" THEN {}
    ELSE IF place = "heating" THEN {1}
    ELSE IF place = "dhw" THEN {1, 2}
    ELSE IF place = "outdoor" THEN {1, 2, 3}
    ELSE IF place = "tank" THEN {1, 2, 3, 4}
    ELSE IF place \in {"original", "write", "verify"} THEN {1, 2, 3, 4, 5}
    ELSE Tests

\* What test 6 writes back was read from a register.
OriginalRead == pc \in {"write", "verify", "restore"} => original \in Targets \cup Foreign

\* Only a failed transfer or an earlier run leaves an answer under way.
NothingLate == critical /\ ~stale => ~late

PassedSoFar ==
    critical => /\ passed = Behind(pc)
                /\ pc # "type" => stale \/ deviceType = WindmiType

TargetKnown ==
    critical /\ ~touched /\ ~stale =>
        /\ pc \in Before \cup {"done"} => heating = initial
        /\ pc \in {"write", "verify", "restore"} => original = initial
        /\ pc = "verify" => heating = TestValue

Inv ==
    /\ TypeOK
    /\ OriginalRead
    /\ NothingLate
    /\ PassedSoFar
    /\ TargetKnown

-----------------------------------------------------------------------------
\* The place names that the sequence Reads stands for.
LEMMA ReadsPlaces ==
    /\ Reads[1] = "type" /\ Reads[2] = "heating" /\ Reads[3] = "dhw"
    /\ Reads[4] = "outdoor" /\ Reads[5] = "tank"
    /\ Places = {"type", "heating", "dhw", "outdoor", "tank", "idle", "original",
                 "write", "verify", "restore", "done"}
<1>1. /\ Reads[1] = "type" /\ Reads[2] = "heating" /\ Reads[3] = "dhw"
      /\ Reads[4] = "outdoor" /\ Reads[5] = "tank"
  BY DEF Reads
<1>2. {Reads[t] : t \in 1 .. 5} = {"type", "heating", "dhw", "outdoor", "tank"}
  <2>1. 1 .. 5 = {1, 2, 3, 4, 5}
    OBVIOUS
  <2> QED BY <1>1, <2>1
<1> QED BY <1>1, <1>2 DEF Places

\* The test that follows a place.
LEMMA AfterPlaces ==
    /\ After(1) = "heating" /\ After(2) = "dhw" /\ After(3) = "outdoor"
    /\ After(4) = "tank" /\ After(5) = "original"
BY ReadsPlaces DEF After

\* A read over a quiet line is genuine, and any answer is a register's value.
LEMMA AnswersGenuine ==
    ASSUME NEW v, NEW a \in Answers(v)
    PROVE  /\ a \in {v} \cup Foreign
           /\ ~late => a = v
BY DEF Answers

LEMMA InitInv == Init => Inv
BY ReadsPlaces, SelfTestAssumption
   DEF Init, Inv, TypeOK, OriginalRead, NothingLate, PassedSoFar, TargetKnown, Before,
       Tests

\* A read that throws, from a place of the run to a later one.
LEMMA FailInv ==
    ASSUME Inv, NEW to \in Places, Fail(to),
           to \in Before => pc \in Before,
           to \in {"write", "verify", "restore"} => pc \in {"write", "verify", "restore"}
    PROVE  Inv'
BY ReadsPlaces
   DEF Fail, Inv, TypeOK, OriginalRead, NothingLate, PassedSoFar, TargetKnown,
       Before, ghosts

\* One of the first five tests succeeds.
LEMMA ReadTestInv ==
    ASSUME Inv, NEW t \in 1 .. 5, ReadTest(t)
    PROVE  Inv'
<1>0. pc = Reads[t] /\ pc \in Before /\ After(t) \in Before /\ After(t) # "write"
  <2>1. t \in {1, 2, 3, 4, 5}
    OBVIOUS
  <2> QED BY <2>1, ReadsPlaces, AfterPlaces DEF ReadTest, Before
<1>1. CASE Fail(After(t))
  BY <1>0, <1>1, FailInv, ReadsPlaces DEF Before
<1>2. ASSUME pc' = After(t), passed' = passed \cup {t},
             NEW v \in Answers(IF t = 1 THEN deviceType ELSE heating),
             critical' = (critical /\ (t = 1 => v = WindmiType)),
             UNCHANGED <<device, original, ghosts>>
      PROVE  Inv'
  <2>1. UNCHANGED <<deviceType, heating, late, original, initial, touched, stale>>
    BY <1>2 DEF device, ghosts
  <2>2. critical' \in BOOLEAN /\ (critical' => critical)
    BY <1>2 DEF Inv, TypeOK
  <2>3. TypeOK'
    BY <1>0, <1>2, <2>1, <2>2, ReadsPlaces DEF Inv, TypeOK, Tests, Before
  <2>4. OriginalRead' /\ NothingLate' /\ TargetKnown'
    BY <1>0, <1>2, <2>1, <2>2
       DEF Inv, OriginalRead, NothingLate, TargetKnown, Before
  <2>5. PassedSoFar'
    <3> SUFFICES ASSUME critical'
                 PROVE  /\ passed' = Behind(pc')
                        /\ ~stale => deviceType' = WindmiType
      BY <2>1 DEF PassedSoFar
    <3>1. /\ passed = Behind(pc) /\ (~stale => ~late)
          /\ pc # "type" => stale \/ deviceType = WindmiType
      BY <2>2 DEF Inv, PassedSoFar, NothingLate
    <3>2. t = 1 => stale \/ deviceType = WindmiType
      <4> SUFFICES ASSUME t = 1, ~stale PROVE deviceType = WindmiType
        OBVIOUS
      <4>1. v \in Answers(deviceType)
        BY <1>2
      <4>2. v = deviceType
        BY <3>1, <4>1, AnswersGenuine
      <4>3. critical /\ (t = 1 => v = WindmiType)
        BY <1>2
      <4> QED BY <4>2, <4>3
    <3>3. t # 1 => pc # "type"
      <4>1. t \in {1, 2, 3, 4, 5}
        OBVIOUS
      <4> QED BY <4>1, <1>0, ReadsPlaces
    <3>4. passed' = Behind(pc')
      <4>1. t \in {1, 2, 3, 4, 5}
        OBVIOUS
      <4>2. CASE t = 1 BY <4>2, <1>0, <1>2, <3>1, ReadsPlaces, AfterPlaces DEF Behind
      <4>3. CASE t = 2 BY <4>3, <1>0, <1>2, <3>1, ReadsPlaces, AfterPlaces DEF Behind
      <4>4. CASE t = 3 BY <4>4, <1>0, <1>2, <3>1, ReadsPlaces, AfterPlaces DEF Behind
      <4>5. CASE t = 4 BY <4>5, <1>0, <1>2, <3>1, ReadsPlaces, AfterPlaces DEF Behind
      <4>6. CASE t = 5 BY <4>6, <1>0, <1>2, <3>1, ReadsPlaces, AfterPlaces DEF Behind
      <4> QED BY <4>1, <4>2, <4>3, <4>4, <4>5, <4>6
    <3> QED BY <2>1, <3>1, <3>2, <3>3, <3>4
  <2> QED BY <2>3, <2>4, <2>5 DEF Inv
<1> QED BY <1>1, <1>2 DEF ReadTest

LEMMA ReadOriginalInv == Inv /\ ReadOriginal => Inv'
<1> SUFFICES ASSUME Inv, ReadOriginal PROVE Inv'
  OBVIOUS
<1>1. CASE Fail("done")
  BY <1>1, FailInv, ReadsPlaces DEF ReadOriginal, Before
<1>2. CASE /\ original' \in Answers(heating)
           /\ pc' = "write"
           /\ UNCHANGED <<device, passed, critical, ghosts>>
  <2>1. UNCHANGED <<deviceType, heating, late, passed, critical, initial, touched, stale>>
    BY <1>2 DEF device, ghosts
  <2>2. /\ original' \in Targets \cup Foreign
        /\ critical /\ ~stale => original' = heating
    BY <1>2, AnswersGenuine DEF Inv, TypeOK, NothingLate, Answers
  <2>3. Behind(pc') = Behind(pc)
    BY <1>2 DEF ReadOriginal, Behind
  <2> QED BY <1>2, <2>1, <2>2, <2>3, ReadsPlaces
         DEF ReadOriginal, Inv, TypeOK, OriginalRead, NothingLate, PassedSoFar, TargetKnown, Before
<1> QED BY <1>1, <1>2 DEF ReadOriginal

LEMMA WriteTestValueInv == Inv /\ WriteTestValue => Inv'
<1> SUFFICES ASSUME Inv, WriteTestValue PROVE Inv'
  OBVIOUS
<1>1. Behind("verify") = Behind("write")
  BY DEF Behind
<1>2. UNCHANGED <<deviceType, original, passed, initial, touched, stale>> /\ pc = "write"
  BY DEF WriteTestValue, ghosts
<1>3. late \in BOOLEAN /\ critical \in BOOLEAN
  BY DEF Inv, TypeOK
<1>4. CASE FailedWrite(TestValue) /\ pc' = "done"
  <2>1. critical' = FALSE /\ late' \in BOOLEAN
    BY <1>4 DEF FailedWrite
  <2>2. heating' \in Targets \cup Foreign
    BY <1>4, SelfTestAssumption DEF FailedWrite, Inv, TypeOK
  <2> QED BY <1>2, <1>4, <2>1, <2>2, ReadsPlaces
         DEF Inv, TypeOK, OriginalRead, NothingLate, PassedSoFar, TargetKnown, Before
<1>5. CASE /\ heating' = TestValue
           /\ late' \in {late, FALSE}
           /\ pc' = "verify"
           /\ UNCHANGED critical
  <2>1. late' \in BOOLEAN /\ (critical' /\ ~stale' => ~late')
    <3>1. late' = late \/ late' = FALSE
      BY <1>5
    <3>2. CASE late' = FALSE
      BY <3>2
    <3>3. CASE late' = late
      <4>1. critical' = critical /\ stale' = stale /\ (critical /\ ~stale => ~late)
        BY <1>2, <1>5 DEF Inv, NothingLate
      <4> QED BY <1>3, <3>3, <4>1
    <3> QED BY <3>1, <3>2, <3>3
  <2> QED BY <1>1, <1>2, <1>5, <2>1, ReadsPlaces, SelfTestAssumption
         DEF Inv, TypeOK, OriginalRead, NothingLate, PassedSoFar, TargetKnown, Before
<1> QED BY <1>4, <1>5 DEF WriteTestValue

LEMMA VerifyInv == Inv /\ Verify => Inv'
<1> SUFFICES ASSUME Inv, Verify PROVE Inv'
  OBVIOUS
<1>1. CASE Fail("restore")
  BY <1>1, FailInv, ReadsPlaces DEF Verify, Before
<1>2. ASSUME NEW v \in Answers(heating),
             passed' = IF v = TestValue THEN passed \cup {6} ELSE passed,
             critical' = (critical /\ v = TestValue),
             pc' = "restore",
             UNCHANGED <<device, original, ghosts>>
      PROVE  Inv'
  <2>1. UNCHANGED <<deviceType, heating, late, original, initial, touched, stale>>
    BY <1>2 DEF device, ghosts
  <2>2. critical' \in BOOLEAN /\ (critical' => critical /\ v = TestValue)
    BY <1>2 DEF Inv, TypeOK
  <2>3. critical' => passed' = Behind("restore")
    <3>1. Behind("verify") \cup {6} = Behind("restore")
      BY DEF Behind, Tests
    <3> QED BY <1>2, <2>2, <3>1 DEF Inv, PassedSoFar, Verify
  <2>4. passed' \subseteq Tests
    BY <1>2 DEF Inv, TypeOK, Tests
  <2> QED BY <1>2, <2>1, <2>2, <2>3, <2>4, ReadsPlaces
         DEF Verify, Inv, TypeOK, OriginalRead, NothingLate, PassedSoFar, TargetKnown, Before
<1> QED BY <1>1, <1>2 DEF Verify

LEMMA RestoreInv == Inv /\ Restore => Inv'
<1> SUFFICES ASSUME Inv, Restore PROVE Inv'
  OBVIOUS
<1>1. Behind("done") = Behind("restore")
  BY DEF Behind
<1>2. /\ pc = "restore" /\ pc' = "done"
      /\ UNCHANGED <<deviceType, original, passed, initial, touched, stale>>
  BY DEF Restore, ghosts
<1>3. late \in BOOLEAN /\ critical \in BOOLEAN /\ original \in Targets \cup Foreign
  BY <1>2 DEF Inv, TypeOK, OriginalRead
<1>4. CASE FailedWrite(original)
  <2>1. critical' = FALSE /\ late' \in BOOLEAN
    BY <1>4 DEF FailedWrite
  <2>2. heating' \in Targets \cup Foreign
    BY <1>3, <1>4 DEF FailedWrite, Inv, TypeOK
  <2> QED BY <1>2, <1>4, <2>1, <2>2, ReadsPlaces
         DEF Inv, TypeOK, OriginalRead, NothingLate, PassedSoFar, TargetKnown, Before
<1>5. CASE /\ heating' = original /\ late' \in {late, FALSE}
           /\ UNCHANGED critical
  <2>1. late' \in BOOLEAN /\ (critical' /\ ~stale' => ~late')
    <3>1. late' = late \/ late' = FALSE
      BY <1>5
    <3>2. CASE late' = FALSE
      BY <3>2
    <3>3. CASE late' = late
      <4>1. critical' = critical /\ stale' = stale /\ (critical /\ ~stale => ~late)
        BY <1>2, <1>5 DEF Inv, NothingLate
      <4> QED BY <1>3, <3>3, <4>1
    <3> QED BY <3>1, <3>2, <3>3
  <2> QED BY <1>1, <1>2, <1>3, <1>5, <2>1, ReadsPlaces
         DEF Inv, TypeOK, OriginalRead, NothingLate, PassedSoFar, TargetKnown, Before
<1> QED BY <1>4, <1>5 DEF Restore

LEMMA RunInv == Inv /\ Run => Inv'
<1> SUFFICES ASSUME Inv, Run PROVE Inv'
  OBVIOUS
<1>1. Behind("type") = {}
  BY DEF Behind
<1>2. late' \in BOOLEAN /\ stale' \in BOOLEAN
  BY DEF Run, Inv, TypeOK
<1>3. ~stale' => ~late'
  BY Zenon DEF Run
<1> QED BY <1>1, <1>2, <1>3, ReadsPlaces
       DEF Run, Inv, TypeOK, OriginalRead, NothingLate, PassedSoFar, TargetKnown,
           Before

LEMMA EndInv == Inv /\ (Exit \/ Kill) => Inv'
<1> SUFFICES ASSUME Inv, Exit \/ Kill PROVE Inv'
  OBVIOUS
<1>1. Behind("idle") = Behind("done")
  BY DEF Behind
<1>2. CASE Exit
  BY <1>1, <1>2, ReadsPlaces
     DEF Exit, Inv, TypeOK, OriginalRead, NothingLate, PassedSoFar, TargetKnown,
         Before, device, ghosts
<1>3. CASE Kill
  <2>1. late' \in BOOLEAN /\ critical' = FALSE
    BY <1>3 DEF Kill, Inv, TypeOK
  <2>2. heating' \in Targets \cup Foreign
    BY <1>3, SelfTestAssumption DEF Kill, Inv, TypeOK, OriginalRead
  <2> QED BY <1>3, <2>1, <2>2, ReadsPlaces
     DEF Kill, Inv, TypeOK, OriginalRead, NothingLate, PassedSoFar, TargetKnown,
         Before, device, ghosts
<1> QED BY <1>2, <1>3

LEMMA TurnKnobInv ==
    ASSUME Inv, NEW v \in Targets, TurnKnob(v)
    PROVE  Inv'
BY DEF TurnKnob, Inv, TypeOK, OriginalRead, NothingLate, PassedSoFar, TargetKnown,
       Before

LEMMA StutterInv == Inv /\ UNCHANGED vars => Inv'
BY DEF vars, device, ghosts, Inv, TypeOK, OriginalRead, NothingLate, PassedSoFar, TargetKnown

\* Inv is inductive.
THEOREM Invariance == Spec => []Inv
<1>1. Inv /\ [Next]_vars => Inv'
  BY ReadTestInv, ReadOriginalInv, WriteTestValueInv, VerifyInv, RestoreInv, RunInv, EndInv,
     TurnKnobInv, StutterInv DEF Next
<1> QED BY InitInv, <1>1, PTL DEF Spec

-----------------------------------------------------------------------------
\* Type correctness, for all targets, device types and foreign values.
THEOREM TypeCorrect == Spec => []TypeOK
<1>1. Inv => TypeOK
  BY DEF Inv
<1> QED BY Invariance, <1>1, PTL

\* A run that passes has left the heating target as it found it, or someone
\* else has touched it, for all targets and any history of failed and killed
\* runs that leaves no answer under way when the run begins.
THEOREM TargetRestored == Spec => []RestoredOrReported
<1>1. Inv => RestoredOrReported
  BY DEF Inv, TargetKnown, RestoredOrReported, Before
<1> QED BY Invariance, <1>1, PTL

\* "Self-test PASSED" means six of six tests, on the right device if no answer
\* was under way when the run began.
THEOREM PassMeansPass == Spec => []VerdictSound
<1>1. Inv => VerdictSound
  <2>1. Behind("done") = Tests
    BY DEF Behind
  <2> QED BY <2>1 DEF Inv, PassedSoFar, VerdictSound
<1> QED BY Invariance, <1>1, PTL
=============================================================================
