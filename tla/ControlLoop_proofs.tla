------------------------- MODULE ControlLoop_proofs -------------------------
(***************************************************************************)
(* Proofs about ControlLoop, for every set of requests and knobs, queue   *)
(* size and number of faults and restarts.  A handler is a function on    *)
(* states of memory, device and file; each operator it is built from is   *)
(* shown to keep a good state good (Good) and the saved setpoints alone   *)
(* (KeepsSaved), and the invariant follows handler by handler.  What an   *)
(* undisturbed turn achieves needs one fact more: a status that nothing   *)
(* has disturbed since it was read shows the device (CalmStatus).         *)
(***************************************************************************)
EXTENDS ControlLoop, TLAPS

States ==
    [mem : Members, dev : [Registers -> Nat], ini : Files, unsaved : BOOLEAN, mine : BOOLEAN]

DhwTemps == DHW_TARGET_MIN .. DHW_TARGET_MAX
HeatTemps == HEATING_TARGET_MIN .. HEATING_TARGET_MAX

\* Registers and setpoints are within their limits.
Legal(s) ==
    /\ s.dev["mode"] \in 0 .. 2
    /\ s.dev["dhw"] \in RawDhw /\ s.dev["heat"] \in RawHeat
    /\ s.mem.saved_dhw_target \in DhwTemps
    /\ s.mem.saved_heating_target \in HeatTemps

\* The file shows the working mode and the targets that are in memory,
\* unless the last save failed.
FileShows(s) ==
    \/ s.unsaved
    \/ /\ Load(s.ini).mode = s.mem.desired_working_mode
       /\ Load(s.ini).dhw = s.mem.mDhwTarget
       /\ Load(s.ini).heat = s.mem.mHeatingTarget

\* A priority register that this process set holds what it believes.
MineHeld(s) == s.mine => s.dev["prio"] = IF s.mem.current_priority = "dhw" THEN 1 ELSE 0

Good(s) == s \in States /\ Legal(s) /\ MineHeld(s) /\ FileShows(s)

\* What the enforcement never touches.
KeepsSaved(s, w) ==
    /\ w.mem.saved_dhw_target = s.mem.saved_dhw_target
    /\ w.mem.saved_heating_target = s.mem.saved_heating_target
    /\ w.mem.saved_targets_initialized = s.mem.saved_targets_initialized
    /\ w.mem.desired_working_mode = s.mem.desired_working_mode

\* What everything but SetPriority leaves alone.
KeepsPriority(s, w) == w.mem.current_priority = s.mem.current_priority

\* Outcomes say of every save how many keys it leaves.
Counted(o) == o.saves \in [Registers -> Int]

-----------------------------------------------------------------------------
(* Conversions *)

\* Truncation to tenths keeps a temperature within limits that are whole
\* tenths, and reading it back does too.
LEMMA Conversion ==
    /\ \A t \in DhwTemps : TempToRaw(t) \in RawDhw
    /\ \A t \in HeatTemps : TempToRaw(t) \in RawHeat
    /\ \A r \in RawDhw : RawToTemp(r) \in DhwTemps
    /\ \A r \in RawHeat : RawToTemp(r) \in HeatTemps
  BY DEF DhwTemps, HeatTemps, RawDhw, RawHeat, TempToRaw, RawToTemp,
         DHW_TARGET_MIN, DHW_TARGET_MAX, HEATING_TARGET_MIN, HEATING_TARGET_MAX

\* The limits as numbers.
LEMMA Limits ==
    /\ DhwTemps = 4000 .. 6300 /\ HeatTemps = 2500 .. 6300
    /\ RawDhw = 400 .. 630 /\ RawHeat = 250 .. 630
  BY DEF DhwTemps, HeatTemps, RawDhw, RawHeat, TempToRaw,
         DHW_TARGET_MIN, DHW_TARGET_MAX, HEATING_TARGET_MIN, HEATING_TARGET_MAX

\* The minima that suppress a demand are legal targets themselves.
LEMMA Minima == DHW_TARGET_MIN \in DhwTemps /\ HEATING_TARGET_MIN \in HeatTemps
  BY DEF DhwTemps, HeatTemps,
         DHW_TARGET_MIN, DHW_TARGET_MAX, HEATING_TARGET_MIN, HEATING_TARGET_MAX

\* A legal temperature is a value its register may hold.
LEMMA Targets ==
    /\ \A t \in DhwTemps : t \in Nat /\ DeviceValue("dhw", TempToRaw(t))
    /\ \A t \in HeatTemps : t \in Nat /\ DeviceValue("heat", TempToRaw(t))
  <1>1. /\ DhwTemps \subseteq Nat /\ HeatTemps \subseteq Nat
        /\ RawDhw \subseteq Nat /\ RawHeat \subseteq Nat
    BY Limits
  <1>2. ASSUME NEW t \in DhwTemps
        PROVE  DeviceValue("dhw", TempToRaw(t))
    <2>1. TempToRaw(t) \in RawDhw
      BY Conversion
    <2> QED
      BY <1>1, <2>1 DEF DeviceValue
  <1>3. ASSUME NEW t \in HeatTemps
        PROVE  DeviceValue("heat", TempToRaw(t))
    <2>1. TempToRaw(t) \in RawHeat
      BY Conversion
    <2> QED
      BY <1>1, <2>1 DEF DeviceValue
  <1> QED
    BY <1>1, <1>2, <1>3

-----------------------------------------------------------------------------
(* The operators handlers are built from *)

\* A write changes one register, to a value it may hold, or nothing.  The
\* priority register has its own lemma, SetPriorityGood.
LEMMA WriteRegisterType ==
    ASSUME NEW s, s \in States, Legal(s), FileShows(s),
           NEW r \in Registers, NEW v, DeviceValue(r, v), NEW o
    PROVE  LET w == WriteRegister(s, r, v, o)
           IN  /\ w \in States /\ Legal(w) /\ FileShows(w)
               /\ w.mem = s.mem /\ w.ini = s.ini
               /\ w.unsaved = s.unsaved /\ w.mine = s.mine
               /\ \A q \in Registers : w.dev[q] = IF q = r /\ Outcome(r, o) # "lost"
                                                    THEN v ELSE s.dev[q]
  <1>1. CASE Outcome(r, o) = "lost"
    BY <1>1 DEF WriteRegister
  <1>2. CASE Outcome(r, o) # "lost"
    <2> DEFINE w == [s EXCEPT !.dev[r] = v]
    <2>1. WriteRegister(s, r, v, o) = w
      BY <1>2 DEF WriteRegister
    <2>2. /\ w \in States
          /\ w.mem = s.mem /\ w.ini = s.ini
          /\ w.dev = [s.dev EXCEPT ![r] = v]
      BY DEF States, DeviceValue
    <2>3. w.unsaved = s.unsaved /\ w.mine = s.mine
      BY DEF States
    <2>4. \A q \in Registers : w.dev[q] = IF q = r THEN v ELSE s.dev[q]
      BY <2>2 DEF States
    <2>5. Legal(w)
      BY <2>2, <2>4 DEF Legal, DeviceValue, Registers
    <2>6. FileShows(w)
      BY <2>2, <2>3 DEF FileShows
    <2> HIDE DEF w
    <2> QED
      BY <1>2, <2>1, <2>2, <2>3, <2>4, <2>5, <2>6
  <1> QED
    BY <1>1, <1>2

LEMMA WriteRegisterGood ==
    ASSUME NEW s, Good(s), NEW r \in Registers \ {"prio"}, NEW v, DeviceValue(r, v), NEW o
    PROVE  /\ Good(WriteRegister(s, r, v, o))
           /\ WriteRegister(s, r, v, o).mem = s.mem
           /\ WriteRegister(s, r, v, o).ini = s.ini
           /\ \A q \in Registers \ {r} : WriteRegister(s, r, v, o).dev[q] = s.dev[q]
  <1> DEFINE w == WriteRegister(s, r, v, o)
  <1>1. /\ w \in States /\ Legal(w) /\ FileShows(w)
        /\ w.mem = s.mem /\ w.ini = s.ini /\ w.mine = s.mine
        /\ \A q \in Registers \ {r} : w.dev[q] = s.dev[q]
    BY WriteRegisterType DEF Good
  <1> HIDE DEF w
  <1>2. MineHeld(w)
    BY <1>1 DEF Good, MineHeld, Registers
  <1> QED
    BY <1>1, <1>2 DEF Good, w

\* A file read back: what is missing has its default, the rest is as saved.
LEMMA LoadShows ==
    ASSUME NEW m \in Members
    PROVE  LET f == [dhw |-> m.mDhwTarget, heat |-> m.mHeatingTarget,
                     prio |-> m.current_priority, mode |-> m.desired_working_mode]
           IN  /\ Load(f).mode = m.desired_working_mode
               /\ Load(f).dhw = m.mDhwTarget
               /\ Load(f).heat = m.mHeatingTarget
  <1>1. /\ m.desired_working_mode \in Int /\ m.mDhwTarget \in Int
        /\ m.mHeatingTarget \in Int
    BY DEF Members
  <1>2. /\ m.desired_working_mode # Missing /\ m.mDhwTarget # Missing
        /\ m.mHeatingTarget # Missing
    BY <1>1, ControlLoopAssumption
  <1> QED
    BY <1>2 DEF Load, Or

\* A save that succeeds makes the file show the members, whatever it showed
\* before; one that fails is remembered as failed.
LEMMA CallbackGood ==
    ASSUME NEW s, s \in States, Legal(s), MineHeld(s), NEW n \in Int
    PROVE  /\ Good(FireSettingsCallback(s, n))
           /\ FireSettingsCallback(s, n).mem = s.mem
           /\ FireSettingsCallback(s, n).dev = s.dev
  <1> DEFINE f == [dhw |-> Key(1, n, s.mem.mDhwTarget),
                   heat |-> Key(2, n, s.mem.mHeatingTarget),
                   prio |-> Key(3, n, s.mem.current_priority),
                   mode |-> Key(4, n, s.mem.desired_working_mode)]
             w == FireSettingsCallback(s, n)
  <1>1. CASE n = NotOpened
    <2>1. w = [s EXCEPT !.unsaved = TRUE]
      BY <1>1 DEF FireSettingsCallback
    <2>2. w \in States /\ w.mem = s.mem /\ w.dev = s.dev
      BY <2>1 DEF States
    <2>3. w.unsaved /\ w.mine = s.mine
      BY <2>1 DEF States
    <2> HIDE DEF w
    <2>4. Legal(w) /\ MineHeld(w) /\ FileShows(w)
      BY <2>2, <2>3 DEF Legal, MineHeld, FileShows
    <2> QED
      BY <2>2, <2>4 DEF Good, w
  <1>2. CASE n # NotOpened
    <2>1. w = [s EXCEPT !.ini = f, !.unsaved = n < AllKeys]
      BY <1>2 DEF FireSettingsCallback
    <2>2. f \in Files
      BY DEF States, Members, Files, Key
    <2> HIDE DEF f
    <2>3. (n < AllKeys) \in BOOLEAN
      BY DEF AllKeys
    <2>4. w \in States /\ w.mem = s.mem /\ w.dev = s.dev /\ w.ini = f
      BY <2>1, <2>2, <2>3 DEF States
    <2>5. w.unsaved = (n < AllKeys) /\ w.mine = s.mine
      BY <2>1 DEF States
    <2> HIDE DEF w
    <2>6. Legal(w) /\ MineHeld(w)
      BY <2>4, <2>5 DEF Legal, MineHeld
    <2>7. CASE n < AllKeys
      BY <2>4, <2>5, <2>6, <2>7 DEF Good, FileShows, w
    <2>8. CASE ~(n < AllKeys)
      <3>1. f = [dhw |-> s.mem.mDhwTarget, heat |-> s.mem.mHeatingTarget,
                 prio |-> s.mem.current_priority, mode |-> s.mem.desired_working_mode]
        BY <2>8 DEF f, Key, AllKeys
      <3>2. s.mem \in Members
        BY DEF States
      <3>3. FileShows(w)
        BY <2>4, <3>1, <3>2, LoadShows DEF FileShows
      <3> QED
        BY <2>4, <2>6, <3>3 DEF Good, w
    <2> QED
      BY <2>7, <2>8
  <1> QED
    BY <1>1, <1>2

\* setDhwTarget with a legal temperature.
LEMMA SetDhwTargetGood ==
    ASSUME NEW s, Good(s), NEW t \in DhwTemps, NEW o, Counted(o)
    PROVE  /\ Good(SetDhwTarget(s, t, o)) /\ KeepsSaved(s, SetDhwTarget(s, t, o))
           /\ KeepsPriority(s, SetDhwTarget(s, t, o))
  <1> DEFINE w == WriteRegister(s, "dhw", TempToRaw(t), o)
             x == [w EXCEPT !.mem.mDhwTarget = t]
             y == FireSettingsCallback(x, o.saves["dhw"])
  <1>1. DeviceValue("dhw", TempToRaw(t))
    BY Targets
  <1>2. Good(w) /\ w.mem = s.mem
    BY <1>1, WriteRegisterGood DEF Registers
  <1>3. t \in Nat
    BY Targets
  <1>4. /\ x \in States /\ x.dev = w.dev /\ x.ini = w.ini
        /\ x.mem = [w.mem EXCEPT !.mDhwTarget = t]
    BY <1>2, <1>3 DEF Good, States, Members
  <1>5. Legal(x) /\ MineHeld(x) /\ KeepsSaved(s, x) /\ KeepsPriority(s, x)
    <2>1. /\ x.mem.saved_dhw_target = w.mem.saved_dhw_target
          /\ x.mem.saved_heating_target = w.mem.saved_heating_target
          /\ x.mem.desired_working_mode = w.mem.desired_working_mode
          /\ x.mem.current_priority = w.mem.current_priority
      BY <1>2, <1>4 DEF Good, States, Members
    <2>2. x.mem.saved_targets_initialized = w.mem.saved_targets_initialized
      BY <1>2, <1>4 DEF Good, States, Members
    <2>3. x.mine = w.mine
      BY <1>2 DEF Good, States
    <2> HIDE DEF x
    <2> QED
      BY <1>2, <1>4, <2>1, <2>2, <2>3 DEF Good, Legal, MineHeld, KeepsSaved, KeepsPriority
  <1>6. Good(y) /\ KeepsSaved(s, y) /\ KeepsPriority(s, y)
    <2> HIDE DEF x
    <2>1. o.saves["dhw"] \in Int
      BY DEF Counted, Registers
    <2>2. Good(y) /\ y.mem = x.mem
      BY <1>4, <1>5, <2>1, CallbackGood
    <2> QED
      BY <1>5, <2>2 DEF KeepsSaved, KeepsPriority
  <1>7. SetDhwTarget(s, t, o) = IF Acked("dhw", o) THEN y ELSE w
    BY DEF SetDhwTarget
  <1>8. KeepsSaved(s, w) /\ KeepsPriority(s, w)
    BY <1>2 DEF KeepsSaved, KeepsPriority
  <1> HIDE DEF w, y
  <1> QED
    BY <1>2, <1>6, <1>7, <1>8

\* setHeatingTarget with a legal temperature.
LEMMA SetHeatingTargetGood ==
    ASSUME NEW s, Good(s), NEW t \in HeatTemps, NEW o, Counted(o)
    PROVE  /\ Good(SetHeatingTarget(s, t, o)) /\ KeepsSaved(s, SetHeatingTarget(s, t, o))
           /\ KeepsPriority(s, SetHeatingTarget(s, t, o))
  <1> DEFINE w == WriteRegister(s, "heat", TempToRaw(t), o)
             x == [w EXCEPT !.mem.mHeatingTarget = t]
             y == FireSettingsCallback(x, o.saves["heat"])
  <1>1. DeviceValue("heat", TempToRaw(t))
    BY Targets
  <1>2. Good(w) /\ w.mem = s.mem
    BY <1>1, WriteRegisterGood DEF Registers
  <1>3. t \in Nat
    BY Targets
  <1>4. /\ x \in States /\ x.dev = w.dev /\ x.ini = w.ini
        /\ x.mem = [w.mem EXCEPT !.mHeatingTarget = t]
    BY <1>2, <1>3 DEF Good, States, Members
  <1>5. Legal(x) /\ MineHeld(x) /\ KeepsSaved(s, x) /\ KeepsPriority(s, x)
    <2>1. /\ x.mem.saved_dhw_target = w.mem.saved_dhw_target
          /\ x.mem.saved_heating_target = w.mem.saved_heating_target
          /\ x.mem.desired_working_mode = w.mem.desired_working_mode
          /\ x.mem.current_priority = w.mem.current_priority
      BY <1>2, <1>4 DEF Good, States, Members
    <2>2. x.mem.saved_targets_initialized = w.mem.saved_targets_initialized
      BY <1>2, <1>4 DEF Good, States, Members
    <2>3. x.mine = w.mine
      BY <1>2 DEF Good, States
    <2> HIDE DEF x
    <2> QED
      BY <1>2, <1>4, <2>1, <2>2, <2>3 DEF Good, Legal, MineHeld, KeepsSaved, KeepsPriority
  <1>6. Good(y) /\ KeepsSaved(s, y) /\ KeepsPriority(s, y)
    <2> HIDE DEF x
    <2>1. o.saves["heat"] \in Int
      BY DEF Counted, Registers
    <2>2. Good(y) /\ y.mem = x.mem
      BY <1>4, <1>5, <2>1, CallbackGood
    <2> QED
      BY <1>5, <2>2 DEF KeepsSaved, KeepsPriority
  <1>7. SetHeatingTarget(s, t, o) = IF Acked("heat", o) THEN y ELSE w
    BY DEF SetHeatingTarget
  <1>8. KeepsSaved(s, w) /\ KeepsPriority(s, w)
    BY <1>2 DEF KeepsSaved, KeepsPriority
  <1> HIDE DEF w, y
  <1> QED
    BY <1>2, <1>6, <1>7, <1>8

\* setRunningMode with one of the device's modes.
LEMMA SetRunningModeGood ==
    ASSUME NEW s, Good(s), NEW m \in 0 .. 2, NEW o
    PROVE  /\ Good(SetRunningMode(s, m, o)) /\ KeepsSaved(s, SetRunningMode(s, m, o))
           /\ KeepsPriority(s, SetRunningMode(s, m, o))
  <1> DEFINE w == WriteRegister(s, "mode", m, o)
             x == [w EXCEPT !.mem.current_mode = m]
  <1>1. DeviceValue("mode", m)
    BY DEF DeviceValue
  <1>2. Good(w) /\ w.mem = s.mem
    BY <1>1, WriteRegisterGood DEF Registers
  <1> HIDE DEF w
  <1>3. /\ x \in States /\ x.dev = w.dev /\ x.ini = w.ini
        /\ x.mem = [w.mem EXCEPT !.current_mode = m]
    BY <1>2 DEF Good, States, Members
  <1>4. /\ x.mem.saved_dhw_target = w.mem.saved_dhw_target
        /\ x.mem.saved_heating_target = w.mem.saved_heating_target
        /\ x.mem.desired_working_mode = w.mem.desired_working_mode
        /\ x.mem.mDhwTarget = w.mem.mDhwTarget
        /\ x.mem.mHeatingTarget = w.mem.mHeatingTarget
        /\ x.mem.current_priority = w.mem.current_priority
    BY <1>2, <1>3 DEF Good, States, Members
  <1>5. /\ x.mem.saved_targets_initialized = w.mem.saved_targets_initialized
        /\ x.unsaved = w.unsaved /\ x.mine = w.mine
    BY <1>2, <1>3 DEF Good, States, Members
  <1> HIDE DEF x
  <1>6. Good(x) /\ KeepsSaved(s, x) /\ KeepsPriority(s, x)
    BY <1>2, <1>3, <1>4, <1>5
    DEF Good, Legal, MineHeld, FileShows, KeepsSaved, KeepsPriority
  <1>7. SetRunningMode(s, m, o) = IF Acked("mode", o) THEN x ELSE w
    BY DEF SetRunningMode, w, x
  <1>8. KeepsSaved(s, w) /\ KeepsPriority(s, w)
    BY <1>2 DEF KeepsSaved, KeepsPriority
  <1> QED
    BY <1>2, <1>6, <1>7, <1>8

\* The priority register and current_priority_: whether the write succeeds,
\* fails or fails after it took effect, a register that counts as this
\* process's own holds what the process believes.
LEMMA SetPriorityGood ==
    ASSUME NEW s, Good(s), NEW v \in {0, 1}, NEW o
    PROVE  LET w == SetPriority(s, v, o)
           IN  /\ Good(w) /\ KeepsSaved(s, w)
               /\ \A q \in Registers \ {"prio"} : w.dev[q] = s.dev[q]
               /\ Acked("prio", o) =>
                    w.mem.current_priority = IF v = 1 THEN "dhw" ELSE "heating"
  <1> DEFINE w == WriteRegister(s, "prio", v, o)
             p == IF v = 1 THEN "dhw" ELSE "heating"
             x == [w EXCEPT !.mem.current_priority = p, !.mine = TRUE]
             y == [w EXCEPT !.mine = @ /\ Outcome("prio", o) = "lost"]
  <1>1. DeviceValue("prio", v)
    BY DEF DeviceValue
  <1>2. /\ w \in States /\ Legal(w) /\ FileShows(w)
        /\ w.mem = s.mem /\ w.unsaved = s.unsaved /\ w.mine = s.mine
        /\ \A q \in Registers : w.dev[q] = IF q = "prio" /\ Outcome("prio", o) # "lost"
                                             THEN v ELSE s.dev[q]
    BY <1>1, WriteRegisterType DEF Good, Registers
  <1>3. SetPriority(s, v, o) = IF Acked("prio", o) THEN x ELSE y
    BY DEF SetPriority
  <1> HIDE DEF w
  <1>4. ASSUME Acked("prio", o)
        PROVE  /\ Good(x) /\ KeepsSaved(s, x) /\ x.dev = w.dev
               /\ x.mem.current_priority = p
    <2>1. /\ x \in States /\ x.dev = w.dev /\ x.ini = w.ini
          /\ x.mem = [w.mem EXCEPT !.current_priority = p]
      BY <1>2 DEF States, Members, Priorities
    <2>2. /\ x.mem.saved_dhw_target = w.mem.saved_dhw_target
          /\ x.mem.saved_heating_target = w.mem.saved_heating_target
          /\ x.mem.desired_working_mode = w.mem.desired_working_mode
          /\ x.mem.mDhwTarget = w.mem.mDhwTarget
          /\ x.mem.mHeatingTarget = w.mem.mHeatingTarget
          /\ x.mem.current_priority = p
      BY <1>2, <2>1 DEF States, Members
    <2>3. /\ x.mem.saved_targets_initialized = w.mem.saved_targets_initialized
          /\ x.unsaved = w.unsaved
      BY <1>2, <2>1 DEF States, Members
    <2> HIDE DEF x
    <2>4. x.dev["prio"] = v
      BY <1>2, <1>4, <2>1 DEF Acked, Registers
    <2>5. MineHeld(x)
      BY <2>2, <2>4 DEF MineHeld
    <2>6. Legal(x) /\ FileShows(x) /\ KeepsSaved(s, x)
      BY <1>2, <2>1, <2>2, <2>3 DEF Legal, FileShows, KeepsSaved
    <2> QED
      BY <2>1, <2>2, <2>5, <2>6 DEF Good
  <1>5. Good(y) /\ KeepsSaved(s, y) /\ y.dev = w.dev
    <2>1. /\ y \in States /\ y.dev = w.dev /\ y.ini = w.ini /\ y.mem = w.mem
      BY <1>2 DEF States
    <2>2. y.unsaved = w.unsaved /\ (y.mine => w.mine /\ Outcome("prio", o) = "lost")
      BY <1>2 DEF States
    <2> HIDE DEF y
    <2>3. MineHeld(y)
      BY <1>2, <2>1, <2>2 DEF Good, MineHeld, Registers
    <2> QED
      BY <1>2, <2>1, <2>2, <2>3 DEF Good, Legal, FileShows, KeepsSaved
  <1> HIDE DEF x, y, p
  <1>6. \A q \in Registers \ {"prio"} : w.dev[q] = s.dev[q]
    BY <1>2
  <1> QED
    BY <1>3, <1>4, <1>5, <1>6 DEF p

-----------------------------------------------------------------------------
(* The handlers *)

\* KeepsSaved composes.
LEMMA KeepsSavedTrans ==
    ASSUME NEW s, NEW w, NEW x, KeepsSaved(s, w), KeepsSaved(w, x)
    PROVE  KeepsSaved(s, x)
  BY DEF KeepsSaved

\* A good state holds legal setpoints for the overrides to write.
LEMMA GoodSetpoints ==
    ASSUME NEW s, Good(s)
    PROVE  /\ s.mem.saved_dhw_target \in DhwTemps
           /\ s.mem.saved_heating_target \in HeatTemps
  BY DEF Good, Legal

\* The overrides of a mode command.
LEMMA OverrideGood ==
    ASSUME NEW s, Good(s), NEW m, NEW o, Counted(o)
    PROVE  Good(Override(s, m, o)) /\ KeepsSaved(s, Override(s, m, o))
  <1>1. CASE m = 1
    <2> DEFINE a == SetHeatingTarget(s, HEATING_TARGET_MIN, o)
    <2>1. Good(a) /\ KeepsSaved(s, a)
      BY Minima, SetHeatingTargetGood
    <2>2. Good(SetPriority(a, 1, o)) /\ KeepsSaved(a, SetPriority(a, 1, o))
      BY <2>1, SetPriorityGood
    <2>3. Override(s, m, o) = SetPriority(a, 1, o)
      BY <1>1 DEF Override
    <2> HIDE DEF a
    <2> QED
      BY <2>1, <2>2, <2>3, KeepsSavedTrans
  <1>2. CASE m = 2
    <2> DEFINE a == SetDhwTarget(s, DHW_TARGET_MIN, o)
    <2>1. Good(a) /\ KeepsSaved(s, a)
      BY Minima, SetDhwTargetGood
    <2>2. Good(SetPriority(a, 0, o)) /\ KeepsSaved(a, SetPriority(a, 0, o))
      BY <2>1, SetPriorityGood
    <2>3. Override(s, m, o) = SetPriority(a, 0, o)
      BY <1>2 DEF Override
    <2> HIDE DEF a
    <2> QED
      BY <2>1, <2>2, <2>3, KeepsSavedTrans
  <1>3. CASE m = 3
    <2> DEFINE a == SetDhwTarget(s, s.mem.saved_dhw_target, o)
               b == SetHeatingTarget(a, s.mem.saved_heating_target, o)
    <2>1. Good(a) /\ KeepsSaved(s, a)
      BY GoodSetpoints, SetDhwTargetGood
    <2>2. Good(b) /\ KeepsSaved(a, b)
      BY <2>1, GoodSetpoints, SetHeatingTargetGood
    <2>3. Good(SetPriority(b, 1, o)) /\ KeepsSaved(b, SetPriority(b, 1, o))
      BY <2>2, SetPriorityGood
    <2>4. Override(s, m, o) = SetPriority(b, 1, o)
      BY <1>3 DEF Override
    <2> HIDE DEF a, b
    <2>5. KeepsSaved(s, b)
      BY <2>1, <2>2, KeepsSavedTrans
    <2> QED
      BY <2>3, <2>4, <2>5, KeepsSavedTrans
  <1>4. CASE m \notin {1, 2, 3}
    <2>1. Override(s, m, o) = s
      BY <1>4 DEF Override
    <2> QED
      BY <2>1 DEF KeepsSaved
  <1> QED
    BY <1>1, <1>2, <1>3, <1>4

\* What a command leaves in the saved setpoints.
Remembers(s, c, w) ==
    /\ w.mem.saved_dhw_target = IF c.type = "dhw" THEN c.val ELSE s.mem.saved_dhw_target
    /\ w.mem.saved_heating_target =
         IF c.type = "heat" THEN c.val ELSE s.mem.saved_heating_target
    /\ w.mem.saved_targets_initialized = s.mem.saved_targets_initialized

\* A command that the web server accepted keeps a good state good, and only
\* the two temperature commands change the saved setpoints.
LEMMA ProcessCommandGood ==
    ASSUME NEW s, Good(s), NEW c \in Requests, Accepts(c), NEW o, Counted(o)
    PROVE  Good(ProcessCommand(s, c, o)) /\ Remembers(s, c, ProcessCommand(s, c, o))
  <1>0. c.type \in {"dhw", "heat", "mode", "prio", "occ"}
    BY DEF Requests
  <1>1. CASE c.type = "dhw"
    <2> DEFINE a == SetDhwTarget(s, c.val, o)
               x == [a EXCEPT !.mem.saved_dhw_target = c.val]
    <2>1. c.val \in DhwTemps
      BY <1>1 DEF Accepts, DhwTemps
    <2>2. Good(a) /\ KeepsSaved(s, a)
      BY <2>1, SetDhwTargetGood
    <2>3. ProcessCommand(s, c, o) = x
      BY <1>1 DEF ProcessCommand
    <2> HIDE DEF a
    <2>4. c.val \in Nat
      BY <2>1, Targets
    <2>5. /\ x \in States /\ x.dev = a.dev /\ x.ini = a.ini
          /\ x.mem = [a.mem EXCEPT !.saved_dhw_target = c.val]
      BY <2>2, <2>4 DEF Good, States, Members
    <2>6. /\ x.mem.saved_dhw_target = c.val
          /\ x.mem.saved_heating_target = a.mem.saved_heating_target
          /\ x.mem.desired_working_mode = a.mem.desired_working_mode
          /\ x.mem.mDhwTarget = a.mem.mDhwTarget
          /\ x.mem.mHeatingTarget = a.mem.mHeatingTarget
          /\ x.mem.current_priority = a.mem.current_priority
      BY <2>2, <2>5 DEF Good, States, Members
    <2>7. /\ x.mem.saved_targets_initialized = a.mem.saved_targets_initialized
          /\ x.unsaved = a.unsaved /\ x.mine = a.mine
      BY <2>2, <2>5 DEF Good, States, Members
    <2> HIDE DEF x
    <2>8. Good(x)
      BY <2>1, <2>2, <2>5, <2>6, <2>7 DEF Good, Legal, MineHeld, FileShows
    <2> QED
      BY <1>1, <2>2, <2>3, <2>6, <2>7, <2>8 DEF Remembers, KeepsSaved
  <1>2. CASE c.type = "heat"
    <2> DEFINE a == SetHeatingTarget(s, c.val, o)
               x == [a EXCEPT !.mem.last_heating_target = c.val,
                              !.mem.saved_heating_target = c.val]
    <2>1. c.val \in HeatTemps
      BY <1>2 DEF Accepts, HeatTemps
    <2>2. Good(a) /\ KeepsSaved(s, a)
      BY <2>1, SetHeatingTargetGood
    <2>3. ProcessCommand(s, c, o) = x
      BY <1>2 DEF ProcessCommand
    <2> HIDE DEF a
    <2>4. c.val \in Nat
      BY <2>1, Targets
    <2>5. /\ x \in States /\ x.dev = a.dev /\ x.ini = a.ini
          /\ x.mem = [a.mem EXCEPT !.last_heating_target = c.val,
                                   !.saved_heating_target = c.val]
      BY <2>2, <2>4 DEF Good, States, Members
    <2>6. /\ x.mem.saved_heating_target = c.val
          /\ x.mem.saved_dhw_target = a.mem.saved_dhw_target
          /\ x.mem.desired_working_mode = a.mem.desired_working_mode
          /\ x.mem.mDhwTarget = a.mem.mDhwTarget
          /\ x.mem.mHeatingTarget = a.mem.mHeatingTarget
          /\ x.mem.current_priority = a.mem.current_priority
      BY <2>2, <2>5 DEF Good, States, Members
    <2>7. /\ x.mem.saved_targets_initialized = a.mem.saved_targets_initialized
          /\ x.unsaved = a.unsaved /\ x.mine = a.mine
      BY <2>2, <2>5 DEF Good, States, Members
    <2> HIDE DEF x
    <2>8. Good(x)
      BY <2>1, <2>2, <2>5, <2>6, <2>7 DEF Good, Legal, MineHeld, FileShows
    <2> QED
      BY <1>2, <2>2, <2>3, <2>6, <2>7, <2>8 DEF Remembers, KeepsSaved
  <1>3. CASE c.type = "prio"
    <2> DEFINE a == SetPriority(s, c.val, o)
               y == FireSettingsCallback(a, o.saves["prio"])
    <2>1. c.val \in {0, 1}
      BY <1>3, ControlLoopAssumption DEF Requests
    <2>2. Good(a) /\ KeepsSaved(s, a)
      BY <2>1, SetPriorityGood
    <2>3. o.saves["prio"] \in Int
      BY DEF Counted, Registers
    <2>4. ProcessCommand(s, c, o) = IF Acked("prio", o) THEN y ELSE a
      BY <1>3 DEF ProcessCommand
    <2> HIDE DEF a
    <2>5. Good(y) /\ y.mem = a.mem
      BY <2>2, <2>3, CallbackGood DEF Good
    <2> HIDE DEF y
    <2> QED
      BY <1>3, <2>2, <2>4, <2>5 DEF Remembers, KeepsSaved
  <1>4. CASE c.type = "occ"
    <2>1. DeviceValue("occ", c.val)
      BY <1>4, ControlLoopAssumption DEF Requests, DeviceValue
    <2>2. /\ Good(WriteRegister(s, "occ", c.val, o))
          /\ WriteRegister(s, "occ", c.val, o).mem = s.mem
      BY <2>1, WriteRegisterGood DEF Registers
    <2>3. ProcessCommand(s, c, o) = WriteRegister(s, "occ", c.val, o)
      BY <1>4 DEF ProcessCommand
    <2> QED
      BY <1>4, <2>2, <2>3 DEF Remembers
  <1>5. CASE c.type = "mode"
    <2> DEFINE b == [s EXCEPT !.mem.desired_working_mode = c.val]
               d == FireSettingsCallback(b, o.saves["mode"])
               w == SetRunningMode(d, DeviceMode(c.val), o)
    <2>1. c.val \in Int
      BY <1>5, ControlLoopAssumption DEF Requests
    <2>2. /\ b \in States /\ b.dev = s.dev
          /\ b.mem = [s.mem EXCEPT !.desired_working_mode = c.val]
      BY <2>1 DEF Good, States, Members
    <2>3. /\ b.mem.saved_dhw_target = s.mem.saved_dhw_target
          /\ b.mem.saved_heating_target = s.mem.saved_heating_target
          /\ b.mem.current_priority = s.mem.current_priority
      BY <2>2 DEF Good, States, Members
    <2>4. /\ b.mem.saved_targets_initialized = s.mem.saved_targets_initialized
          /\ b.mine = s.mine
      BY <2>2 DEF Good, States, Members
    <2> HIDE DEF b
    <2>5. Legal(b) /\ MineHeld(b) /\ o.saves["mode"] \in Int
      BY <2>2, <2>3, <2>4 DEF Good, Legal, MineHeld, Counted, Registers
    <2>6. Good(d) /\ d.mem = b.mem
      BY <2>2, <2>5, CallbackGood
    <2>7. DeviceMode(c.val) \in 0 .. 2
      BY DEF DeviceMode, MODE_SET_OFF, MODE_SET_HEAT_DHW
    <2>8. Good(w) /\ KeepsSaved(d, w)
      BY <2>6, <2>7, SetRunningModeGood
    <2>9. Good(Override(w, c.val, o)) /\ KeepsSaved(w, Override(w, c.val, o))
      BY <2>8, OverrideGood
    <2>10. ProcessCommand(s, c, o) = IF Acked("mode", o) THEN Override(w, c.val, o) ELSE w
      BY <1>5 DEF ProcessCommand, b
    <2> HIDE DEF d, w
    <2> QED
      BY <1>5, <2>3, <2>4, <2>6, <2>8, <2>9, <2>10 DEF Remembers, KeepsSaved
  <1> QED
    BY <1>0, <1>1, <1>2, <1>3, <1>4, <1>5

\* The parts of applyControlLogic: the running mode, ...
LEMMA EnforceModeGood ==
    ASSUME NEW x, Good(x), NEW o, Counted(o)
    PROVE  /\ Good(EnforceMode(x, o)) /\ KeepsSaved(x, EnforceMode(x, o))
           /\ KeepsPriority(x, EnforceMode(x, o))
  <1>1. DeviceMode(x.mem.desired_working_mode) \in 0 .. 2
    BY DEF DeviceMode, MODE_SET_OFF, MODE_SET_HEAT_DHW
  <1> QED
    BY <1>1, SetRunningModeGood DEF EnforceMode, KeepsSaved, KeepsPriority

\* ... the targets, whatever status they are judged by, ...
LEMMA EnforceTargetsGood ==
    ASSUME NEW x, Good(x), NEW o, Counted(o)
    PROVE  /\ Good(EnforceTargets(x, o)) /\ KeepsSaved(x, EnforceTargets(x, o))
           /\ KeepsPriority(x, EnforceTargets(x, o))
  <1> DEFINE a == IF Off(status.dhw, x.mem.saved_dhw_target) > 50
                    THEN SetDhwTarget(x, x.mem.saved_dhw_target, o) ELSE x
             b == IF Off(status.heat, x.mem.saved_heating_target) > 50
                    THEN SetHeatingTarget(a, x.mem.saved_heating_target, o) ELSE a
             m1 == SetHeatingTarget(x, HEATING_TARGET_MIN, o)
             m2 == SetDhwTarget(x, DHW_TARGET_MIN, o)
  <1>1. Good(a) /\ KeepsSaved(x, a) /\ KeepsPriority(x, a)
    BY GoodSetpoints, SetDhwTargetGood DEF KeepsSaved, KeepsPriority
  <1>2. /\ Good(m1) /\ KeepsSaved(x, m1) /\ KeepsPriority(x, m1)
        /\ Good(m2) /\ KeepsSaved(x, m2) /\ KeepsPriority(x, m2)
    BY Minima, SetDhwTargetGood, SetHeatingTargetGood
  <1>3. x.mem.saved_heating_target \in HeatTemps
    BY GoodSetpoints
  <1>4. EnforceTargets(x, o) \in {x, m1, m2, b}
    BY DEF EnforceTargets
  <1> HIDE DEF a, m1, m2
  <1>5. Good(b) /\ KeepsSaved(a, b) /\ KeepsPriority(a, b)
    BY <1>1, <1>3, SetHeatingTargetGood DEF KeepsSaved, KeepsPriority
  <1> HIDE DEF b
  <1>6. /\ KeepsSaved(x, b) /\ KeepsSaved(x, x)
        /\ KeepsPriority(x, b) /\ KeepsPriority(x, x)
    BY <1>1, <1>5 DEF KeepsSaved, KeepsPriority
  <1> QED
    BY <1>2, <1>4, <1>5, <1>6

\* ... and the priority.
LEMMA EnforcePriorityGood ==
    ASSUME NEW x, Good(x), NEW o
    PROVE  Good(EnforcePriority(x, o)) /\ KeepsSaved(x, EnforcePriority(x, o))
  <1>1. EnforcePriority(x, o) \in {x, SetPriority(x, 1, o), SetPriority(x, 0, o)}
    BY DEF EnforcePriority
  <1>2. KeepsSaved(x, x)
    BY DEF KeepsSaved
  <1> QED
    BY <1>1, <1>2, SetPriorityGood

\* applyControlLogic keeps a good state good and the setpoints alone,
\* whatever status it acts on.
LEMMA ApplyControlLogicGood ==
    ASSUME NEW s, Good(s), NEW o, Counted(o)
    PROVE  Good(ApplyControlLogic(s, o)) /\ KeepsSaved(s, ApplyControlLogic(s, o))
  <1> DEFINE p == EnforceMode(s, o)
             q == EnforceTargets(p, o)
  <1>1. Good(p) /\ KeepsSaved(s, p)
    BY EnforceModeGood
  <1>2. Good(q) /\ KeepsSaved(p, q)
    BY <1>1, EnforceTargetsGood
  <1>3. Good(EnforcePriority(q, o)) /\ KeepsSaved(q, EnforcePriority(q, o))
    BY <1>2, EnforcePriorityGood
  <1>4. ApplyControlLogic(s, o) = EnforcePriority(q, o)
    BY DEF ApplyControlLogic
  <1> HIDE DEF p, q
  <1> QED
    BY <1>1, <1>2, <1>3, <1>4, KeepsSavedTrans

\* Every snapshot readStatus can fill is one.
LEMMA StatusReadType ==
    ASSUME mem \in Members, dev \in [Registers -> Nat], NEW f
    PROVE  StatusRead(f) \in Snapshots
  <1>1. (Unread(f) \cap Critical = {}) \in BOOLEAN
    OBVIOUS
  <1>2. mem.desired_working_mode \in Int /\ mem.last_heating_target \in Nat
    BY DEF Members
  <1>3. \A r \in Registers : dev[r] \in Nat /\ RawToTemp(dev[r]) \in Nat
    BY DEF RawToTemp
  <1>4. NoStatus.dhw \in Nat /\ NoStatus.occ \in Nat
    BY DEF NoStatus
  <1>5. /\ (IF "dhw" \in f THEN NoStatus.dhw ELSE RawToTemp(dev["dhw"])) \in Nat
        /\ (IF "heat" \in f THEN mem.last_heating_target ELSE RawToTemp(dev["heat"])) \in Nat
        /\ (IF "occ" \in f THEN NoStatus.occ ELSE dev["occ"]) \in Nat
    BY <1>2, <1>3, <1>4 DEF Registers
  <1> QED
    BY <1>1, <1>2, <1>5, Zenon DEF StatusRead, Snapshots

\* readStatus leaves the settings alone, takes setpoints from the device
\* only until the first complete status, and never forgets that there was
\* one.
LEMMA MemReadGood ==
    ASSUME mem \in Members, dev \in [Registers -> Nat], ini \in Files,
           Good(State), NEW f
    PROVE  /\ MemRead(f) \in Members
           /\ Good([State EXCEPT !.mem = MemRead(f)])
           /\ mem.saved_targets_initialized =>
                /\ MemRead(f).saved_targets_initialized
                /\ MemRead(f).saved_dhw_target = mem.saved_dhw_target
                /\ MemRead(f).saved_heating_target = mem.saved_heating_target
  <1> DEFINE fresh(r) == r \notin f /\ ~mem.saved_targets_initialized
             cm == IF "mode" \notin f /\ dev["mode"] \in 0 .. 2
                     THEN dev["mode"] ELSE mem.current_mode
             sd == IF fresh("dhw") THEN RawToTemp(dev["dhw"]) ELSE mem.saved_dhw_target
             lh == IF "heat" \notin f THEN RawToTemp(dev["heat"])
                                      ELSE mem.last_heating_target
             sh == IF fresh("heat") THEN RawToTemp(dev["heat"]) ELSE mem.saved_heating_target
             si == mem.saved_targets_initialized \/ StatusRead(f).online
             m == MemRead(f)
  <1>1. m = [mem EXCEPT !.current_mode = cm, !.saved_dhw_target = sd,
                        !.last_heating_target = lh, !.saved_heating_target = sh,
                        !.saved_targets_initialized = si]
    BY DEF MemRead, Members
  <1>2. cm \in 0 .. 2
    BY DEF Members
  <1>3. /\ dev["dhw"] \in RawDhw /\ dev["heat"] \in RawHeat
        /\ mem.saved_dhw_target \in DhwTemps /\ mem.saved_heating_target \in HeatTemps
    BY DEF Good, Legal, State
  <1>4. sd \in DhwTemps /\ sh \in HeatTemps
    BY <1>3, Conversion
  <1>5. sd \in Nat /\ sh \in Nat
    BY <1>4, Targets
  <1>6. lh \in Nat
    BY DEF Members, RawToTemp, Registers
  <1>7. si \in BOOLEAN
    OBVIOUS
  <1>8. /\ mem.saved_targets_initialized => sd = mem.saved_dhw_target
        /\ mem.saved_targets_initialized => sh = mem.saved_heating_target
        /\ mem.saved_targets_initialized => si
    OBVIOUS
  <1> HIDE DEF cm, sd, lh, sh, si
  <1>9. /\ m \in Members
        /\ m.saved_dhw_target = sd /\ m.saved_heating_target = sh
        /\ m.desired_working_mode = mem.desired_working_mode
        /\ m.mDhwTarget = mem.mDhwTarget /\ m.mHeatingTarget = mem.mHeatingTarget
        /\ m.current_priority = mem.current_priority
    BY <1>1, <1>2, <1>5, <1>6, <1>7 DEF Members
  <1>10. m.saved_targets_initialized = si
    BY <1>1 DEF Members
  <1> HIDE DEF m
  <1>11. Good([State EXCEPT !.mem = m])
    <2> DEFINE w == [State EXCEPT !.mem = m]
    <2>1. State \in States /\ State.mem = mem /\ State.dev = dev
      BY DEF Good, State
    <2>2. w \in States /\ w.mem = m /\ w.dev = State.dev /\ w.ini = State.ini
      BY <1>9, <2>1 DEF States
    <2>3. w.unsaved = State.unsaved /\ w.mine = State.mine
      BY <2>1 DEF States
    <2> HIDE DEF w
    <2>4. Legal(w) /\ MineHeld(w)
      BY <1>4, <1>9, <2>1, <2>2, <2>3 DEF Good, Legal, MineHeld
    <2>5. FileShows(w)
      BY <1>9, <2>1, <2>2, <2>3 DEF Good, FileShows
    <2> QED
      BY <2>2, <2>4, <2>5 DEF Good, w
  <1> QED
    BY <1>8, <1>9, <1>10, <1>11 DEF m

-----------------------------------------------------------------------------
(* The inductive invariant *)

\* Every queued command passed the web server's checks.
QueueAccepted == \A i \in 1 .. Len(queue) : Accepts(queue[i])

\* A setpoint is known only after the first complete status.
KnownInitialized == known # {} => mem.saved_targets_initialized

Inv ==
    /\ TypeOK /\ QueueAccepted /\ Good(State)
    /\ KnownInitialized /\ SetpointKept

Counters == [requests : Nat, faults : Nat, panel : Nat, restarts : Nat]

\* The types of what a handler changes.
StateTypes ==
    /\ mem \in Members /\ dev \in [Registers -> Nat] /\ ini \in Files
    /\ unsaved \in BOOLEAN /\ mine \in BOOLEAN

\* A state is its parts.
LEMMA StateParts ==
    ASSUME NEW s, Good(s), Becomes(s)
    PROVE  Good(State)' /\ StateTypes'
  <1>1. s \in States
    BY DEF Good
  <1>2. s = [mem |-> mem', dev |-> dev', ini |-> ini', unsaved |-> unsaved', mine |-> mine']
    BY <1>1 DEF States, Becomes
  <1>3. State' = s
    BY <1>2 DEF State
  <1>4. Good(State')
    BY <1>3
  <1>5. Good(State)'
    BY <1>4 DEF Good, Legal, MineHeld, FileShows
  <1>6. mem' \in Members /\ dev' \in [Registers -> Nat] /\ ini' \in Files
    BY <1>1 DEF States, Becomes
  <1>7. unsaved' \in BOOLEAN /\ mine' \in BOOLEAN
    BY <1>1 DEF States, Becomes
  <1> QED
    BY <1>5, <1>6, <1>7 DEF StateTypes

\* Accesses keep the types of what they count.
LEMMA AccessType ==
    ASSUME connected \in BOOLEAN, used \in Counters, NEW a, NEW b, AfterAccess(a, b)
    PROVE  connected' \in BOOLEAN /\ used' \in Counters
  <1>1. connected' \in BOOLEAN
    BY DEF AfterAccess
  <1>2. [used EXCEPT !.faults = @ + 1] \in Counters
    BY DEF Counters
  <1> QED
    BY <1>1, <1>2 DEF AfterAccess

\* Every outcome of the saves says how many keys they leave.
LEMMA OutcomesCounted == \A o \in Outcomes : Counted(o)
  <1>1. \A n \in PartialSaves : n \in Int
    BY ControlLoopAssumption
  <1>2. FaultySaves \subseteq [Registers -> Int]
    BY <1>1 DEF FaultySaves, NotOpened, AllKeys
  <1>3. AllSaved \in [Registers -> Int]
    BY DEF AllSaved, AllKeys
  <1>4. SaveOutcomes \subseteq [Registers -> Int]
    BY <1>2, <1>3 DEF SaveOutcomes
  <1>5. \A o \in Outcomes : o.saves \in SaveOutcomes
    BY DEF Outcomes
  <1> QED
    BY <1>4, <1>5 DEF Counted

\* Starting from a file yields a good state that has the file's settings,
\* whichever keys the file lacks.
LEMMA BootGood ==
    ASSUME NEW file \in Files, NEW d \in [Registers -> Nat],
           d["mode"] \in 0 .. 2, d["dhw"] \in RawDhw, d["heat"] \in RawHeat
    PROVE  Good([mem |-> BootMem(file), dev |-> d, ini |-> file,
                 unsaved |-> FALSE, mine |-> FALSE])
  <1> DEFINE w == [mem |-> BootMem(file), dev |-> d, ini |-> file,
                   unsaved |-> FALSE, mine |-> FALSE]
  <1>1. /\ Load(file).mode \in Int /\ Load(file).prio \in Priorities
        /\ Load(file).dhw \in Nat /\ Load(file).heat \in Nat
    BY DEF Load, Or, Files, Priorities
  <1>2. BootMem(file) \in Members
    BY <1>1 DEF BootMem, Members, MODE_SET_HEAT_DHW
  <1>3. w \in States /\ w.mem = BootMem(file) /\ w.dev = d /\ w.ini = file
    BY <1>2 DEF States
  <1>4. /\ BootMem(file).saved_dhw_target = 4600
        /\ BootMem(file).saved_heating_target = 4500
        /\ BootMem(file).desired_working_mode = Load(file).mode
        /\ BootMem(file).mDhwTarget = Load(file).dhw
        /\ BootMem(file).mHeatingTarget = Load(file).heat
    BY DEF BootMem
  <1>5. 4600 \in DhwTemps /\ 4500 \in HeatTemps
    BY Limits
  <1>6. ~w.mine
    OBVIOUS
  <1> HIDE DEF w
  <1>7. Legal(w) /\ MineHeld(w)
    BY <1>3, <1>4, <1>5, <1>6 DEF Legal, MineHeld
  <1>8. FileShows(w)
    BY <1>3, <1>4 DEF FileShows
  <1> QED
    BY <1>3, <1>7, <1>8 DEF Good, w

\* The default-initialised snapshot has its type.
LEMMA NoStatusType == NoStatus \in Snapshots
  BY DEF NoStatus, Snapshots

LEMMA InitInv == Init => Inv
  <1> SUFFICES ASSUME Init PROVE Inv
    OBVIOUS
  <1>1. /\ BootDevice \in [Registers -> Nat] /\ BootDevice["mode"] \in 0 .. 2
        /\ BootDevice["dhw"] \in RawDhw /\ BootDevice["heat"] \in RawHeat
    BY ControlLoopAssumption DEF DeviceValue, Registers
  <1>2. NoFile \in Files
    BY DEF NoFile, Files
  <1>3. Good([mem |-> BootMem(NoFile), dev |-> BootDevice, ini |-> NoFile,
              unsaved |-> FALSE, mine |-> FALSE])
    BY <1>1, <1>2, BootGood
  <1>4. Good(State)
    BY <1>3 DEF Init, State
  <1>5. mem \in Members
    BY <1>3 DEF Init, Good, States
  <1>6. TypeOK
    <2>1. queue \in Seq(Requests) /\ Len(queue) <= QueueRoom
      BY ControlLoopAssumption DEF Init
    <2>2. /\ connected \in BOOLEAN /\ calm \in BOOLEAN
          /\ unsaved \in BOOLEAN /\ mine \in BOOLEAN
      BY DEF Init
    <2>3. /\ asked \in [dhw : Nat, heat : Nat]
          /\ used \in [requests : Nat, faults : Nat, panel : Nat, restarts : Nat]
      BY DEF Init
    <2>4. /\ pc \in {"boot", "loop", "commands", "read", "apply", "lastCommands"}
          /\ known \subseteq {"dhw", "heat"}
      BY DEF Init
    <2> QED
      BY <1>1, <1>2, <1>5, <2>1, <2>2, <2>3, <2>4, NoStatusType DEF Init, TypeOK
  <1>7. QueueAccepted
    BY DEF Init, QueueAccepted
  <1>8. KnownInitialized /\ SetpointKept
    BY DEF Init, KnownInitialized, SetpointKept
  <1> QED
    BY <1>4, <1>6, <1>7, <1>8 DEF Inv

\* A restart finds a good state, with the device as it is or switched off.
LEMMA RebootInv ==
    ASSUME Inv, Reboot, dev' \in {dev, [dev EXCEPT !["mode"] = MODE_SET_OFF]}
    PROVE  Inv'
  <1>1. /\ dev' \in [Registers -> Nat] /\ dev'["mode"] \in 0 .. 2
        /\ dev'["dhw"] \in RawDhw /\ dev'["heat"] \in RawHeat
    BY DEF Inv, TypeOK, Good, Legal, State, Registers, MODE_SET_OFF
  <1> DEFINE w == [mem |-> BootMem(ini), dev |-> dev', ini |-> ini,
                   unsaved |-> FALSE, mine |-> FALSE]
  <1>2. ini \in Files /\ ini' = ini /\ mem' = BootMem(ini)
    BY DEF Inv, TypeOK, Reboot
  <1>3. Good(w) /\ Becomes(w)
    BY <1>1, <1>2, BootGood DEF Becomes, Reboot
  <1> HIDE DEF w
  <1>4. Good(State)' /\ StateTypes'
    BY <1>3, StateParts
  <1>5. TypeOK'
    <2>1. queue' \in Seq(Requests) /\ Len(queue') <= QueueRoom
      BY ControlLoopAssumption DEF Reboot
    <2>2. connected' \in BOOLEAN /\ calm' \in BOOLEAN
      BY DEF Reboot
    <2>3. used \in Counters /\ used' = [used EXCEPT !.restarts = @ + 1]
      BY DEF Reboot, Inv, TypeOK, Counters
    <2>4. used' \in Counters
      BY <2>3 DEF Counters
    <2> QED
      BY <1>4, <2>1, <2>2, <2>4, NoStatusType DEF Reboot, Inv, TypeOK, StateTypes, Counters
  <1>6. QueueAccepted'
    BY DEF Reboot, QueueAccepted
  <1>7. (KnownInitialized /\ SetpointKept)'
    BY DEF Reboot, KnownInitialized, SetpointKept
  <1> QED
    BY <1>4, <1>5, <1>6, <1>7 DEF Inv

\* What both reads of a status do to the invariant's parts about memory.
LEMMA ReadMemory ==
    ASSUME Inv, NEW f, mem' = MemRead(f),
           UNCHANGED <<dev, ini, asked, known, unsaved, mine>>
    PROVE  /\ Good(State)' /\ StateTypes'
           /\ (KnownInitialized /\ SetpointKept)'
  <1> DEFINE w == [State EXCEPT !.mem = MemRead(f)]
  <1>1. mem \in Members /\ dev \in [Registers -> Nat] /\ ini \in Files /\ Good(State)
    BY DEF Inv, TypeOK
  <1>2. /\ Good(w)
        /\ mem.saved_targets_initialized =>
             /\ MemRead(f).saved_targets_initialized
             /\ MemRead(f).saved_dhw_target = mem.saved_dhw_target
             /\ MemRead(f).saved_heating_target = mem.saved_heating_target
    BY <1>1, MemReadGood
  <1>3. Becomes(w)
    BY DEF Becomes, State
  <1> HIDE DEF w
  <1>4. Good(State)' /\ StateTypes'
    BY <1>2, <1>3, StateParts
  <1>5. (KnownInitialized /\ SetpointKept)'
    BY <1>2 DEF Inv, KnownInitialized, SetpointKept
  <1> QED
    BY <1>4, <1>5

LEMMA NextInv == Inv /\ [Next]_vars => Inv'
  <1> SUFFICES ASSUME Inv, [Next]_vars PROVE Inv'
    OBVIOUS
  <1>0. /\ TypeOK /\ connected \in BOOLEAN /\ used \in Counters
        /\ mem \in Members /\ dev \in [Registers -> Nat] /\ ini \in Files
        /\ Good(State)
    BY DEF Inv, TypeOK, Counters
  <1>1. CASE FirstRead
    <2>1. PICK f : /\ mem' = MemRead(f)
                   /\ snap' = IF StatusRead(f).online THEN StatusRead(f) ELSE snap
                   /\ AfterAccess(f # {}, FALSE)
      BY <1>1 DEF FirstRead
    <2>2. /\ pc' = "loop"
          /\ UNCHANGED <<queue, dev, ini, status, asked, known, calm, unsaved, mine>>
      BY <1>1 DEF FirstRead
    <2>3. StatusRead(f) \in Snapshots
      BY <1>0, StatusReadType
    <2>4. snap' \in Snapshots
      BY <1>0, <2>1, <2>3 DEF TypeOK
    <2>5. connected' \in BOOLEAN /\ used' \in Counters
      BY <1>0, <2>1, AccessType
    <2>6. /\ Good(State)' /\ StateTypes'
          /\ (KnownInitialized /\ SetpointKept)'
      BY <2>1, <2>2, ReadMemory
    <2>7. TypeOK'
      BY <1>0, <2>2, <2>4, <2>5, <2>6 DEF TypeOK, StateTypes, Counters
    <2>8. QueueAccepted'
      BY <2>2 DEF Inv, QueueAccepted
    <2> QED
      BY <2>6, <2>7, <2>8 DEF Inv
  <1>2. CASE BeginTurn
    <2>1. /\ pc' = "commands" /\ connected' = TRUE /\ calm' = FALSE
          /\ UNCHANGED <<queue, mem, dev, ini, status, snap, asked, known, unsaved, mine, used>>
      BY <1>2 DEF BeginTurn
    <2>2. TypeOK'
      BY <1>0, <2>1 DEF TypeOK
    <2> QED
      BY <2>1, <2>2
      DEF Inv, QueueAccepted, State, KnownInitialized, SetpointKept,
          Good, Legal, MineHeld, FileShows
  <1>3. CASE Process
    <2> DEFINE c == Head(queue)
    <2>1. PICK o \in Outcomes : /\ Becomes(ProcessCommand(State, c, o))
                               /\ AfterAccess(o.writes # AllOk, o.saves # AllSaved)
      BY <1>3 DEF Process
    <2>2. /\ queue # <<>> /\ queue' = Tail(queue)
          /\ UNCHANGED <<pc, status, snap, calm>>
      BY <1>3 DEF Process
    <2>3. /\ c.type \in {"dhw", "heat"} =>
               /\ asked' = [asked EXCEPT ![c.type] = c.val]
               /\ known' = IF mem.saved_targets_initialized THEN known \cup {c.type}
                                                            ELSE known \ {c.type}
          /\ c.type \notin {"dhw", "heat"} => UNCHANGED <<asked, known>>
      BY <1>3 DEF Process
    <2>4. c \in Requests /\ Accepts(c)
      BY <2>2, <1>0 DEF Inv, TypeOK, QueueAccepted
    <2> HIDE DEF c
    <2>5. /\ Good(ProcessCommand(State, c, o))
          /\ Remembers(State, c, ProcessCommand(State, c, o))
      BY <1>0, <2>4, OutcomesCounted, ProcessCommandGood
    <2>6. /\ Good(State)' /\ StateTypes'
      BY <2>1, <2>5, StateParts
    <2>7. /\ mem'.saved_dhw_target = IF c.type = "dhw" THEN c.val ELSE mem.saved_dhw_target
          /\ mem'.saved_heating_target =
               IF c.type = "heat" THEN c.val ELSE mem.saved_heating_target
      BY <2>1, <2>5 DEF Remembers, State, Becomes
    <2>8. mem'.saved_targets_initialized = mem.saved_targets_initialized
      BY <2>1, <2>5 DEF Remembers, State, Becomes
    <2>9. connected' \in BOOLEAN /\ used' \in Counters
      BY <1>0, <2>1, AccessType
    <2>10. /\ queue' \in Seq(Requests) /\ Len(queue') <= QueueRoom
      BY <1>0, <2>2, ControlLoopAssumption DEF TypeOK
    <2>11. c.type \in {"dhw", "heat"} => c.val \in Nat
      BY <2>4, ControlLoopAssumption DEF Requests
    <2>12. asked' \in [dhw : Nat, heat : Nat] /\ known' \subseteq {"dhw", "heat"}
      <3>1. CASE c.type = "dhw"
        BY <1>0, <2>3, <2>11, <3>1 DEF TypeOK
      <3>2. CASE c.type = "heat"
        BY <1>0, <2>3, <2>11, <3>2 DEF TypeOK
      <3>3. CASE c.type \notin {"dhw", "heat"}
        BY <1>0, <2>3, <3>3 DEF TypeOK
      <3> QED
        BY <3>1, <3>2, <3>3
    <2>13. TypeOK'
      BY <1>0, <2>2, <2>6, <2>9, <2>10, <2>12 DEF TypeOK, StateTypes, Counters
    <2>14. QueueAccepted'
      BY <1>0, <2>2 DEF Inv, TypeOK, QueueAccepted
    <2>15. KnownInitialized'
      BY <2>3, <2>8 DEF Inv, KnownInitialized
    <2>16. SetpointKept'
      <3>1. CASE c.type = "dhw"
        <4>1. asked'.dhw = c.val /\ asked'.heat = asked.heat
          BY <1>0, <2>3, <3>1 DEF TypeOK
        <4>2. "heat" \in known' => "heat" \in known
          BY <2>3, <3>1
        <4> QED
          BY <2>7, <3>1, <4>1, <4>2 DEF Inv, SetpointKept
      <3>2. CASE c.type = "heat"
        <4>1. asked'.heat = c.val /\ asked'.dhw = asked.dhw
          BY <1>0, <2>3, <3>2 DEF TypeOK
        <4>2. "dhw" \in known' => "dhw" \in known
          BY <2>3, <3>2
        <4> QED
          BY <2>7, <3>2, <4>1, <4>2 DEF Inv, SetpointKept
      <3>3. CASE c.type \notin {"dhw", "heat"}
        BY <2>3, <2>7, <3>3 DEF Inv, SetpointKept
      <3> QED
        BY <3>1, <3>2, <3>3
    <2> QED
      BY <2>6, <2>13, <2>14, <2>15, <2>16 DEF Inv
  <1>4. CASE Drained
    <2>1. /\ pc' = "read"
          /\ UNCHANGED <<queue, mem, dev, ini, connected, status, snap, asked,
                         known, calm, unsaved, mine, used>>
      BY <1>4 DEF Drained
    <2>2. TypeOK'
      BY <1>0, <2>1 DEF TypeOK
    <2> QED
      BY <2>1, <2>2
      DEF Inv, QueueAccepted, State, KnownInitialized, SetpointKept,
          Good, Legal, MineHeld, FileShows
  <1>5. CASE Read
    <2>1. PICK f : /\ mem' = MemRead(f)
                   /\ IF StatusRead(f).online
                        THEN pc' = "apply" /\ status' = StatusRead(f) /\ UNCHANGED snap
                        ELSE pc' = "loop" /\ snap' = StatusRead(f) /\ UNCHANGED status
                   /\ calm' = (f = {} /\ StatusRead(f).online)
                   /\ AfterAccess(f # {}, FALSE)
      BY <1>5 DEF Read
    <2>2. UNCHANGED <<queue, dev, ini, asked, known, unsaved, mine>>
      BY <1>5 DEF Read
    <2>3. StatusRead(f) \in Snapshots
      BY <1>0, StatusReadType
    <2>4. snap' \in Snapshots /\ status' \in Snapshots /\ pc' \in {"apply", "loop"}
      BY <1>0, <2>1, <2>3 DEF TypeOK
    <2>5. connected' \in BOOLEAN /\ used' \in Counters
      BY <1>0, <2>1, AccessType
    <2>6. calm' \in BOOLEAN
      BY <2>1
    <2>7. /\ Good(State)' /\ StateTypes'
          /\ (KnownInitialized /\ SetpointKept)'
      BY <2>1, <2>2, ReadMemory
    <2>8. TypeOK'
      BY <1>0, <2>2, <2>4, <2>5, <2>6, <2>7 DEF TypeOK, StateTypes, Counters
    <2>9. QueueAccepted'
      BY <2>2 DEF Inv, QueueAccepted
    <2> QED
      BY <2>7, <2>8, <2>9 DEF Inv
  <1>6. CASE Apply
    <2>1. PICK o \in Outcomes : /\ Becomes(ApplyControlLogic(State, o))
                               /\ calm' = (calm /\ o.writes = AllOk)
                               /\ AfterAccess(o.writes # AllOk, o.saves # AllSaved)
      BY <1>6 DEF Apply
    <2>2. /\ snap' = status /\ status' = NoStatus /\ pc' = "loop"
          /\ UNCHANGED <<queue, asked, known>>
      BY <1>6 DEF Apply
    <2>3. /\ Good(ApplyControlLogic(State, o))
          /\ KeepsSaved(State, ApplyControlLogic(State, o))
      BY <1>0, OutcomesCounted, ApplyControlLogicGood
    <2>4. /\ Good(State)' /\ StateTypes'
      BY <2>1, <2>3, StateParts
    <2>5. connected' \in BOOLEAN /\ used' \in Counters
      BY <1>0, <2>1, AccessType
    <2>6. calm' \in BOOLEAN
      BY <2>1
    <2>7. TypeOK'
      BY <1>0, <2>2, <2>4, <2>5, <2>6, NoStatusType DEF TypeOK, StateTypes, Counters
    <2>8. /\ mem'.saved_dhw_target = mem.saved_dhw_target
          /\ mem'.saved_heating_target = mem.saved_heating_target
          /\ mem'.saved_targets_initialized = mem.saved_targets_initialized
      BY <2>1, <2>3 DEF KeepsSaved, State, Becomes
    <2>9. (KnownInitialized /\ SetpointKept)'
      BY <2>2, <2>8 DEF Inv, KnownInitialized, SetpointKept
    <2>10. QueueAccepted'
      BY <2>2 DEF Inv, QueueAccepted
    <2> QED
      BY <2>4, <2>7, <2>9, <2>10 DEF Inv
  <1>7. ASSUME NEW c \in Requests, Submit(c)
        PROVE  Inv'
    <2>1. /\ Accepts(c) /\ Len(queue) < QueueRoom /\ queue' = Append(queue, c)
          /\ used' = [used EXCEPT !.requests = @ + 1]
          /\ UNCHANGED <<pc, mem, dev, ini, connected, status, snap, asked, known, calm,
                         unsaved, mine>>
      BY <1>7 DEF Submit
    <2>2. queue' \in Seq(Requests) /\ Len(queue') <= QueueRoom
      BY <1>0, <2>1, ControlLoopAssumption DEF TypeOK
    <2>3. used' \in Counters
      BY <1>0, <2>1 DEF Counters
    <2>4. TypeOK'
      BY <1>0, <2>1, <2>2, <2>3 DEF TypeOK, Counters
    <2>5. QueueAccepted'
      BY <1>0, <2>1 DEF Inv, TypeOK, QueueAccepted
    <2> QED
      BY <2>1, <2>4, <2>5
      DEF Inv, State, KnownInitialized, SetpointKept, Good, Legal, MineHeld, FileShows
  <1>8. CASE Panel
    <2>1. PICK w \in PanelWrites : /\ dev' = [dev EXCEPT ![w[1]] = w[2]]
                                  /\ mine' = (mine /\ w[1] # "prio")
      BY <1>8 DEF Panel
    <2>2. /\ used' = [used EXCEPT !.panel = @ + 1] /\ calm' = FALSE
          /\ UNCHANGED <<pc, queue, mem, ini, connected, status, snap, asked, known,
                         unsaved>>
      BY <1>8 DEF Panel
    <2>3. w[1] \in Registers /\ DeviceValue(w[1], w[2])
      BY ControlLoopAssumption
    <2>4. /\ dev' \in [Registers -> Nat]
          /\ \A r \in Registers : dev'[r] = IF r = w[1] THEN w[2] ELSE dev[r]
      BY <1>0, <2>1, <2>3 DEF DeviceValue
    <2>5. /\ dev'["mode"] \in 0 .. 2
          /\ dev'["dhw"] \in RawDhw /\ dev'["heat"] \in RawHeat
      BY <1>0, <2>3, <2>4 DEF DeviceValue, Good, Legal, State, Registers
    <2>6. Good(State)'
      <3>1. mine' \in BOOLEAN /\ (mine' => mine /\ w[1] # "prio")
        BY <2>1
      <3>2. mine' => dev'["prio"] = IF mem'.current_priority = "dhw" THEN 1 ELSE 0
        BY <1>0, <2>2, <2>4, <3>1 DEF Good, MineHeld, State, Registers
      <3>3. (State \in States)'
        BY <1>0, <2>2, <2>4, <3>1 DEF TypeOK, States, State
      <3> QED
        BY <1>0, <2>2, <2>5, <3>2, <3>3 DEF Good, Legal, MineHeld, FileShows, State
    <2>7. used' \in Counters
      BY <1>0, <2>2 DEF Counters
    <2>8. TypeOK'
      <3>1. mine' \in BOOLEAN
        BY <2>1
      <3> QED
        BY <1>0, <2>2, <2>4, <2>7, <3>1 DEF TypeOK, Counters
    <2> QED
      BY <2>2, <2>6, <2>8 DEF Inv, QueueAccepted, KnownInitialized, SetpointKept
  <1>9. CASE CrashRestart \/ StopRestart \/ LeaveReconnecting
    BY <1>9, RebootInv
    DEF CrashRestart, StopRestart, LeaveReconnecting, SwitchOffAndRestart
  <1>10. CASE StopReconnecting
    <2>1. /\ pc' = "lastCommands"
          /\ UNCHANGED <<queue, mem, dev, ini, connected, status, snap, asked,
                         known, calm, unsaved, mine, used>>
      BY <1>10 DEF StopReconnecting
    <2>2. TypeOK'
      BY <1>0, <2>1 DEF TypeOK
    <2> QED
      BY <2>1, <2>2
      DEF Inv, QueueAccepted, State, KnownInitialized, SetpointKept,
          Good, Legal, MineHeld, FileShows
  <1>11. CASE UNCHANGED vars
    <2>1. TypeOK'
      BY <1>0, <1>11 DEF TypeOK, vars
    <2> QED
      BY <2>1, <1>11
      DEF Inv, vars, QueueAccepted, State, KnownInitialized, SetpointKept,
          Good, Legal, MineHeld, FileShows
  <1> QED
    BY <1>1, <1>2, <1>3, <1>4, <1>5, <1>6, <1>7, <1>8, <1>9, <1>10, <1>11
    DEF Next, Loop

\* A step that is a restart takes the settings from a file that shows them;
\* no other step counts as one.
LEMMA RestartStep ==
    ASSUME Inv, [Next]_vars, used'.restarts # used.restarts, ~unsaved
    PROVE  /\ mem'.desired_working_mode = mem.desired_working_mode
           /\ mem'.mDhwTarget = mem.mDhwTarget
           /\ mem'.mHeatingTarget = mem.mHeatingTarget
  <1>1. used \in Counters
    BY DEF Inv, TypeOK, Counters
  <1>2. ~ \E a, b : AfterAccess(a, b)
    BY <1>1 DEF AfterAccess, Counters
  <1>3. UNCHANGED used => FALSE
    OBVIOUS
  <1>4. \A c : ~ Submit(c)
    BY <1>1 DEF Submit, Counters
  <1>5. ~ Panel
    BY <1>1 DEF Panel, Counters
  <1>6. /\ ~ FirstRead /\ ~ Process /\ ~ Read /\ ~ Apply
    BY <1>2 DEF FirstRead, Process, Read, Apply
  <1>7. ~ BeginTurn /\ ~ Drained /\ ~ StopReconnecting /\ ~ UNCHANGED vars
    BY <1>3 DEF BeginTurn, Drained, StopReconnecting, vars
  <1>8. Reboot
    BY <1>4, <1>5, <1>6, <1>7
    DEF Next, Loop, CrashRestart, StopRestart, LeaveReconnecting, SwitchOffAndRestart
  <1>9. FileShows(State) /\ mem' = BootMem(ini)
    BY <1>8 DEF Inv, Good, Reboot
  <1> QED
    BY <1>9 DEF FileShows, State, BootMem

-----------------------------------------------------------------------------
(* What one undisturbed turn achieves *)

\* A write sets its register or nothing; if nothing fails, its register.
LEMMA Written ==
    ASSUME NEW s, Good(s), NEW r \in Registers, NEW v, NEW o
    PROVE  /\ WriteRegister(s, r, v, o).dev \in {s.dev, [s.dev EXCEPT ![r] = v]}
           /\ o.writes = AllOk /\ r # "prio" =>
                /\ Acked(r, o)
                /\ WriteRegister(s, r, v, o).dev = [s.dev EXCEPT ![r] = v]
  <1>1. [s EXCEPT !.dev[r] = v].dev = [s.dev EXCEPT ![r] = v]
    BY DEF Good, States
  <1>2. o.writes = AllOk /\ r # "prio" => Outcome(r, o) = "ok"
    BY DEF Outcome, AllOk
  <1>3. WriteRegister(s, r, v, o)
          = IF Outcome(r, o) = "lost" THEN s ELSE [s EXCEPT !.dev[r] = v]
    BY DEF WriteRegister
  <1> QED
    BY <1>1, <1>2, <1>3 DEF Acked

\* Of the device, setDhwTarget changes what its write changes ...
LEMMA DhwTargetWritten ==
    ASSUME NEW s, Good(s), NEW t \in DhwTemps, NEW o, Counted(o)
    PROVE  SetDhwTarget(s, t, o).dev = WriteRegister(s, "dhw", TempToRaw(t), o).dev
  <1> DEFINE w == WriteRegister(s, "dhw", TempToRaw(t), o)
             x == [w EXCEPT !.mem.mDhwTarget = t]
  <1>1. Good(w)
    BY Targets, WriteRegisterGood DEF Registers
  <1>2. SetDhwTarget(s, t, o)
          = IF Acked("dhw", o) THEN FireSettingsCallback(x, o.saves["dhw"]) ELSE w
    BY DEF SetDhwTarget
  <1> HIDE DEF w
  <1>3. x \in States /\ x.dev = w.dev
    BY <1>1, Targets DEF Good, States, Members
  <1>4. ASSUME NEW n
        PROVE  FireSettingsCallback(x, n).dev = x.dev
    BY <1>3 DEF States, FireSettingsCallback
  <1> QED
    BY <1>2, <1>3, <1>4 DEF w

\* ... and setHeatingTarget too.
LEMMA HeatingTargetWritten ==
    ASSUME NEW s, Good(s), NEW t \in HeatTemps, NEW o, Counted(o)
    PROVE  SetHeatingTarget(s, t, o).dev = WriteRegister(s, "heat", TempToRaw(t), o).dev
  <1> DEFINE w == WriteRegister(s, "heat", TempToRaw(t), o)
             x == [w EXCEPT !.mem.mHeatingTarget = t]
  <1>1. Good(w)
    BY Targets, WriteRegisterGood DEF Registers
  <1>2. SetHeatingTarget(s, t, o)
          = IF Acked("heat", o) THEN FireSettingsCallback(x, o.saves["heat"]) ELSE w
    BY DEF SetHeatingTarget
  <1> HIDE DEF w
  <1>3. x \in States /\ x.dev = w.dev
    BY <1>1, Targets DEF Good, States, Members
  <1>4. ASSUME NEW n
        PROVE  FireSettingsCallback(x, n).dev = x.dev
    BY <1>3 DEF States, FireSettingsCallback
  <1> QED
    BY <1>2, <1>3, <1>4 DEF w

\* Of the device, the enforcement of the mode writes the running mode.
LEMMA ModeWritten ==
    ASSUME NEW s, Good(s), NEW o, Counted(o)
    PROVE  LET m == DeviceMode(s.mem.desired_working_mode)
           IN  EnforceMode(s, o).dev =
                 IF s.mem.current_mode # m THEN WriteRegister(s, "mode", m, o).dev ELSE s.dev
  <1> DEFINE m == DeviceMode(s.mem.desired_working_mode)
             w == WriteRegister(s, "mode", m, o)
             x == [w EXCEPT !.mem.current_mode = m]
  <1>1. m \in 0 .. 2
    BY DEF DeviceMode, MODE_SET_OFF, MODE_SET_HEAT_DHW
  <1>2. Good(w)
    BY <1>1, WriteRegisterGood DEF Registers, DeviceValue
  <1>3. EnforceMode(s, o) = IF s.mem.current_mode # m
                              THEN (IF Acked("mode", o) THEN x ELSE w) ELSE s
    BY DEF EnforceMode, SetRunningMode
  <1> HIDE DEF w
  <1>4. x.dev = w.dev
    BY <1>2 DEF Good, States
  <1> QED
    BY <1>3, <1>4 DEF w

\* Enforcing the mode: current_mode_ shows the register, so a write is left
\* out only when the register holds the demanded mode already.
LEMMA CleanMode ==
    ASSUME NEW s, Good(s), s.mem.current_mode = s.dev["mode"],
           NEW o, Counted(o), o.writes = AllOk
    PROVE  LET w == EnforceMode(s, o)
           IN  /\ w.dev["mode"] = DeviceMode(s.mem.desired_working_mode)
               /\ w.dev["dhw"] = s.dev["dhw"] /\ w.dev["heat"] = s.dev["heat"]
  <1> DEFINE m == DeviceMode(s.mem.desired_working_mode)
  <1>1. s.dev \in [Registers -> Nat]
    BY DEF Good, States
  <1>2. WriteRegister(s, "mode", m, o).dev = [s.dev EXCEPT !["mode"] = m]
    BY Written DEF Registers
  <1>3. EnforceMode(s, o).dev =
          IF s.mem.current_mode # m THEN [s.dev EXCEPT !["mode"] = m] ELSE s.dev
    BY <1>2, ModeWritten
  <1> HIDE DEF m
  <1> QED
    BY <1>1, <1>3 DEF Registers, m

\* A target that is written ends up less than a tenth of a degree below
\* what was asked; one that is not written was near enough.
LEMMA CleanNear ==
    /\ \A t \in Nat : Near(TempToRaw(t), t)
    /\ RawToTemp(TempToRaw(HEATING_TARGET_MIN)) = HEATING_TARGET_MIN
    /\ RawToTemp(TempToRaw(DHW_TARGET_MIN)) = DHW_TARGET_MIN
  BY DEF Near, Off, TempToRaw, RawToTemp, HEATING_TARGET_MIN, DHW_TARGET_MIN

\* What the working mode demands of the targets.
TargetsEnforced(s) ==
    LET m == s.mem.desired_working_mode IN
    /\ m = 1 => RawToTemp(s.dev["heat"]) <= HEATING_TARGET_MIN + 50
    /\ m = 2 => RawToTemp(s.dev["dhw"]) <= DHW_TARGET_MIN + 50
    /\ m = 3 => /\ Near(s.dev["dhw"], s.mem.saved_dhw_target)
                /\ Near(s.dev["heat"], s.mem.saved_heating_target)

\* Enforcing the targets by a status that shows the registers.
LEMMA CleanTargets ==
    ASSUME NEW s, Good(s), NEW o, Counted(o), o.writes = AllOk,
           status.dhw = RawToTemp(s.dev["dhw"]), status.heat = RawToTemp(s.dev["heat"])
    PROVE  /\ EnforceTargets(s, o).dev["mode"] = s.dev["mode"]
           /\ TargetsEnforced(EnforceTargets(s, o))
  <1> DEFINE w == EnforceTargets(s, o)
             m == s.mem.desired_working_mode
             sd == s.mem.saved_dhw_target
             sh == s.mem.saved_heating_target
  <1>0. s.dev \in [Registers -> Nat] /\ sd \in DhwTemps /\ sh \in HeatTemps
    BY DEF Good, States, Legal
  <1>1. Good(w) /\ KeepsSaved(s, w)
    BY EnforceTargetsGood
  <1>2. CASE m = 1
    <2>1. w = IF status.heat > HEATING_TARGET_MIN + 50
                THEN SetHeatingTarget(s, HEATING_TARGET_MIN, o) ELSE s
      BY <1>2 DEF EnforceTargets
    <2> HIDE DEF w
    <2>2. CASE status.heat > HEATING_TARGET_MIN + 50
      <3>1. w.dev = [s.dev EXCEPT !["heat"] = TempToRaw(HEATING_TARGET_MIN)]
        BY <2>1, <2>2, Minima, HeatingTargetWritten, Written DEF Registers
      <3>2. /\ w.dev["mode"] = s.dev["mode"]
            /\ RawToTemp(w.dev["heat"]) = HEATING_TARGET_MIN
        BY <1>0, <3>1, CleanNear DEF Registers
      <3> QED
        BY <1>1, <1>2, <3>2 DEF KeepsSaved, TargetsEnforced, HEATING_TARGET_MIN, w
    <2>3. CASE ~(status.heat > HEATING_TARGET_MIN + 50)
      <3>1. w = s
        BY <2>1, <2>3
      <3>2. RawToTemp(s.dev["heat"]) <= HEATING_TARGET_MIN + 50
        BY <1>0, <2>3 DEF RawToTemp, HEATING_TARGET_MIN, Registers
      <3> QED
        BY <1>2, <3>1, <3>2 DEF TargetsEnforced, w
    <2> QED
      BY <2>2, <2>3
  <1>3. CASE m = 2
    <2>1. w = IF status.dhw > DHW_TARGET_MIN + 50
                THEN SetDhwTarget(s, DHW_TARGET_MIN, o) ELSE s
      BY <1>3 DEF EnforceTargets
    <2> HIDE DEF w
    <2>2. CASE status.dhw > DHW_TARGET_MIN + 50
      <3>1. w.dev = [s.dev EXCEPT !["dhw"] = TempToRaw(DHW_TARGET_MIN)]
        BY <2>1, <2>2, Minima, DhwTargetWritten, Written DEF Registers
      <3>2. /\ w.dev["mode"] = s.dev["mode"]
            /\ RawToTemp(w.dev["dhw"]) = DHW_TARGET_MIN
        BY <1>0, <3>1, CleanNear DEF Registers
      <3> QED
        BY <1>1, <1>3, <3>2 DEF KeepsSaved, TargetsEnforced, DHW_TARGET_MIN, w
    <2>3. CASE ~(status.dhw > DHW_TARGET_MIN + 50)
      <3>1. w = s
        BY <2>1, <2>3
      <3>2. RawToTemp(s.dev["dhw"]) <= DHW_TARGET_MIN + 50
        BY <1>0, <2>3 DEF RawToTemp, DHW_TARGET_MIN, Registers
      <3> QED
        BY <1>3, <3>1, <3>2 DEF TargetsEnforced, w
    <2> QED
      BY <2>2, <2>3
  <1>4. CASE m = 3
    <2> DEFINE a == IF Off(status.dhw, sd) > 50 THEN SetDhwTarget(s, sd, o) ELSE s
    <2>1. w = IF Off(status.heat, sh) > 50 THEN SetHeatingTarget(a, sh, o) ELSE a
      BY <1>4 DEF EnforceTargets
    <2>2. Good(a)
      BY <1>0, SetDhwTargetGood
    <2>3. /\ a.dev["mode"] = s.dev["mode"] /\ a.dev["heat"] = s.dev["heat"]
          /\ Near(a.dev["dhw"], sd)
      <3>1. CASE Off(status.dhw, sd) > 50
        <4>1. a.dev = [s.dev EXCEPT !["dhw"] = TempToRaw(sd)]
          BY <1>0, <3>1, DhwTargetWritten, Written DEF Registers
        <4> HIDE DEF a
        <4>2. sd \in Nat
          BY <1>0, Targets
        <4> QED
          BY <1>0, <4>1, <4>2, CleanNear DEF Registers
      <3>2. CASE ~(Off(status.dhw, sd) > 50)
        <4>1. a = s
          BY <3>2
        <4> HIDE DEF a
        <4>2. sd \in Nat /\ s.dev["dhw"] \in Nat
          BY <1>0, Targets DEF Registers
        <4>3. Near(s.dev["dhw"], sd)
          BY <3>2, <4>2 DEF Near, Off, RawToTemp
        <4> QED
          BY <4>1, <4>3
      <3> QED
        BY <3>1, <3>2
    <2>4. a.dev \in [Registers -> Nat]
      BY <2>2 DEF Good, States
    <2> HIDE DEF a, w
    <2>5. /\ w.dev["mode"] = a.dev["mode"] /\ w.dev["dhw"] = a.dev["dhw"]
          /\ Near(w.dev["heat"], sh)
      <3>1. CASE Off(status.heat, sh) > 50
        <4>1. WriteRegister(a, "heat", TempToRaw(sh), o).dev
                = [a.dev EXCEPT !["heat"] = TempToRaw(sh)]
          <5>1. "heat" \in Registers
            BY DEF Registers
          <5> QED
            BY <2>2, <5>1, Written
        <4>2. w.dev = [a.dev EXCEPT !["heat"] = TempToRaw(sh)]
          BY <1>0, <2>1, <2>2, <3>1, <4>1, HeatingTargetWritten
        <4>3. sh \in Nat
          BY <1>0, Targets
        <4> QED
          BY <2>4, <4>2, <4>3, CleanNear DEF Registers
      <3>2. CASE ~(Off(status.heat, sh) > 50)
        <4>1. w = a
          BY <2>1, <3>2
        <4>2. sh \in Nat /\ s.dev["heat"] \in Nat
          BY <1>0, Targets DEF Registers
        <4>3. Near(s.dev["heat"], sh)
          BY <3>2, <4>2 DEF Near, Off, RawToTemp
        <4> QED
          BY <2>3, <4>1, <4>3
      <3> QED
        BY <3>1, <3>2
    <2> QED
      BY <1>1, <1>4, <2>3, <2>5 DEF KeepsSaved, TargetsEnforced, w
  <1>5. CASE m \notin {1, 2, 3}
    <2>1. w = s
      BY <1>5 DEF EnforceTargets
    <2> QED
      BY <1>5, <2>1 DEF TargetsEnforced
  <1> QED
    BY <1>2, <1>3, <1>4, <1>5

\* Enforcing the priority touches no other register, whether or not the
\* firmware knows the priority register.
LEMMA PriorityAlone ==
    ASSUME NEW s, Good(s), NEW o
    PROVE  \A q \in Registers \ {"prio"} : EnforcePriority(s, o).dev[q] = s.dev[q]
  <1>1. EnforcePriority(s, o) \in {s, SetPriority(s, 1, o), SetPriority(s, 0, o)}
    BY DEF EnforcePriority
  <1> QED
    BY <1>1, SetPriorityGood

\* What the working mode demands of the believed priority; of the register
\* it follows for good states.
PriorityEnforced(s) ==
    LET m == s.mem.desired_working_mode IN
    /\ m \in {1, 3} => s.mem.current_priority = "dhw"
    /\ m = 2 => s.mem.current_priority = "heating"

\* Enforcing the priority, on firmware that knows it.
LEMMA CleanPriority ==
    ASSUME NEW s, Good(s), NEW o, o.writes = AllOk, PrioritySupported
    PROVE  PriorityEnforced(EnforcePriority(s, o))
  <1> DEFINE w == EnforcePriority(s, o)
             m == s.mem.desired_working_mode
  <1>1. Acked("prio", o)
    BY DEF Acked, Outcome, AllOk, Registers
  <1>2. /\ SetPriority(s, 1, o).mem.current_priority = "dhw"
        /\ SetPriority(s, 0, o).mem.current_priority = "heating"
    BY <1>1, SetPriorityGood
  <1>3. KeepsSaved(s, w)
    BY EnforcePriorityGood
  <1>4. m \in {1, 3} => w.mem.current_priority = "dhw"
    BY <1>2 DEF EnforcePriority
  <1>5. m = 2 => w.mem.current_priority = "heating"
    BY <1>2 DEF EnforcePriority
  <1> HIDE DEF w
  <1> QED
    BY <1>3, <1>4, <1>5 DEF PriorityEnforced, KeepsSaved, w

\* The device is in the state applyControlLogic holds it to.
EnforcedIn(s) ==
    /\ s.dev["mode"] = DeviceMode(s.mem.desired_working_mode)
    /\ TargetsEnforced(s) /\ PriorityEnforced(s)

\* applyControlLogic, all writes succeeding, on a status and a current_mode_
\* that show the device.
LEMMA CleanApply ==
    ASSUME NEW s, Good(s), s.mem.current_mode = s.dev["mode"],
           NEW o, Counted(o), o.writes = AllOk, PrioritySupported,
           status.dhw = RawToTemp(s.dev["dhw"]), status.heat = RawToTemp(s.dev["heat"])
    PROVE  EnforcedIn(ApplyControlLogic(s, o))
  <1> DEFINE p == EnforceMode(s, o)
             q == EnforceTargets(p, o)
             w == EnforcePriority(q, o)
  <1>1. Good(p) /\ KeepsSaved(s, p)
    BY EnforceModeGood
  <1>2. /\ p.dev["mode"] = DeviceMode(s.mem.desired_working_mode)
        /\ p.dev["dhw"] = s.dev["dhw"] /\ p.dev["heat"] = s.dev["heat"]
    BY CleanMode
  <1>3. ApplyControlLogic(s, o) = w
    BY DEF ApplyControlLogic
  <1> HIDE DEF p
  <1>4. Good(q) /\ KeepsSaved(p, q)
    BY <1>1, EnforceTargetsGood
  <1>5. q.dev["mode"] = p.dev["mode"] /\ TargetsEnforced(q)
    BY <1>1, <1>2, CleanTargets
  <1> HIDE DEF q
  <1>6. KeepsSaved(q, w) /\ PriorityEnforced(w)
    BY <1>4, EnforcePriorityGood, CleanPriority
  <1>7. /\ w.dev["mode"] = q.dev["mode"] /\ w.dev["dhw"] = q.dev["dhw"]
        /\ w.dev["heat"] = q.dev["heat"]
    BY <1>4, PriorityAlone DEF Registers
  <1> HIDE DEF w
  <1>8. TargetsEnforced(w)
    BY <1>5, <1>6, <1>7 DEF TargetsEnforced, KeepsSaved
  <1>9. w.dev["mode"] = DeviceMode(w.mem.desired_working_mode)
    BY <1>1, <1>2, <1>4, <1>5, <1>6, <1>7 DEF KeepsSaved
  <1> QED
    BY <1>3, <1>6, <1>8, <1>9 DEF EnforcedIn

\* Calm holds between a complete read and the next turn, and until the
\* status is acted on it shows the device.  Without a priority register no
\* read is complete.
CalmStatus ==
    /\ calm => pc \in {"apply", "loop", "lastCommands"} /\ PrioritySupported
    /\ pc = "apply" /\ calm =>
        /\ status.dhw = RawToTemp(dev["dhw"]) /\ status.heat = RawToTemp(dev["heat"])
        /\ mem.current_mode = dev["mode"]

\* A handler that enforces in a state enforces in the next.
LEMMA BecomesEnforced ==
    ASSUME NEW w, Good(w), EnforcedIn(w), Becomes(w)
    PROVE  Enforced'
  <1>1. /\ mem' = w.mem /\ dev' = w.dev /\ mine' = w.mine
    BY DEF Becomes
  <1>2. mine' => dev'["prio"] = IF mem'.current_priority = "dhw" THEN 1 ELSE 0
    BY <1>1 DEF Good, MineHeld
  <1> QED
    BY <1>1, <1>2
    DEF Enforced, PriorityHeld, EnforcedIn, TargetsEnforced, PriorityEnforced

\* A calm status is acted on, or made obsolete by whatever disturbs it.
LEMMA CalmKept ==
    ASSUME Inv, CalmStatus, CleanTurnEnforces, [Next]_vars
    PROVE  CalmStatus' /\ CleanTurnEnforces'
  <1>0. Good(State) /\ mem \in Members /\ dev \in [Registers -> Nat]
    BY DEF Inv, TypeOK
  <1>1. CASE FirstRead \/ BeginTurn \/ Drained
    <2>1. ~calm'
      BY <1>1 DEF FirstRead, BeginTurn, Drained, CalmStatus
    <2> QED
      BY <2>1 DEF CalmStatus, CleanTurnEnforces
  <1>2. CASE Process
    <2>1. UNCHANGED <<pc, calm>> /\ pc \in {"commands", "lastCommands"}
      BY <1>2 DEF Process
    <2> QED
      BY <2>1 DEF CalmStatus, CleanTurnEnforces
  <1>3. CASE Read
    <2>1. PICK f : /\ mem' = MemRead(f)
                   /\ IF StatusRead(f).online
                        THEN pc' = "apply" /\ status' = StatusRead(f) /\ UNCHANGED snap
                        ELSE pc' = "loop" /\ snap' = StatusRead(f) /\ UNCHANGED status
                   /\ calm' = (f = {} /\ StatusRead(f).online)
      BY <1>3 DEF Read
    <2>2. dev' = dev
      BY <1>3 DEF Read
    <2>3. ASSUME calm'
          PROVE  /\ PrioritySupported
                 /\ pc' = "apply" /\ status'.dhw = RawToTemp(dev["dhw"])
                 /\ status'.heat = RawToTemp(dev["heat"])
                 /\ mem'.current_mode = dev["mode"]
      <3>1. f = {} /\ pc' = "apply" /\ status' = StatusRead(f)
        BY <2>1, <2>3
      <3>2. /\ StatusRead(f).dhw = RawToTemp(dev["dhw"])
            /\ StatusRead(f).heat = RawToTemp(dev["heat"])
        BY <3>1 DEF StatusRead
      <3>3. dev["mode"] \in 0 .. 2
        BY <1>0 DEF Good, Legal, State
      <3>4. MemRead(f).current_mode = dev["mode"]
        BY <1>0, <3>1, <3>3 DEF MemRead, Members
      <3>5. PrioritySupported
        BY <2>1, <2>3, <3>1 DEF StatusRead, Unread, Critical
      <3> QED
        BY <2>1, <3>1, <3>2, <3>4, <3>5
    <2> QED
      BY <2>2, <2>3 DEF CalmStatus, CleanTurnEnforces
  <1>4. CASE Apply
    <2>1. PICK o \in Outcomes : /\ Becomes(ApplyControlLogic(State, o))
                               /\ calm' = (calm /\ o.writes = AllOk)
      BY <1>4 DEF Apply
    <2>2. pc = "apply" /\ pc' = "loop"
      BY <1>4 DEF Apply
    <2>3. ASSUME calm'
          PROVE  PrioritySupported /\ Enforced'
      <3>1. calm /\ o.writes = AllOk
        BY <2>1, <2>3
      <3>2. /\ State.mem.current_mode = State.dev["mode"]
            /\ status.dhw = RawToTemp(State.dev["dhw"])
            /\ status.heat = RawToTemp(State.dev["heat"])
            /\ PrioritySupported
        BY <2>2, <3>1 DEF CalmStatus, State
      <3> DEFINE w == ApplyControlLogic(State, o)
      <3>3. EnforcedIn(w) /\ Good(w)
        BY <1>0, <3>1, <3>2, CleanApply, OutcomesCounted, ApplyControlLogicGood
      <3>4. Becomes(w)
        BY <2>1
      <3> HIDE DEF w
      <3> QED
        BY <3>2, <3>3, <3>4, BecomesEnforced
    <2> QED
      BY <2>2, <2>3 DEF CalmStatus, CleanTurnEnforces
  <1>5. CASE Panel \/ CrashRestart \/ StopRestart \/ LeaveReconnecting
    <2>1. calm' = FALSE
      BY <1>5
      DEF Panel, CrashRestart, StopRestart, LeaveReconnecting, SwitchOffAndRestart, Reboot
    <2> QED
      BY <2>1 DEF CalmStatus, CleanTurnEnforces
  <1>6. ASSUME \/ \E c \in Requests : Submit(c)
               \/ UNCHANGED vars
        PROVE  CalmStatus' /\ CleanTurnEnforces'
    <2>1. UNCHANGED <<pc, mem, dev, status, calm, mine>>
      BY <1>6 DEF Submit, vars
    <2>2. Enforced => Enforced'
      BY <2>1 DEF Enforced, PriorityHeld
    <2> QED
      BY <2>1, <2>2 DEF CalmStatus, CleanTurnEnforces
  <1>7. CASE StopReconnecting
    <2>1. pc' = "lastCommands" /\ calm' = calm
      BY <1>7 DEF StopReconnecting
    <2> QED
      BY <2>1 DEF CalmStatus, CleanTurnEnforces
  <1> QED
    BY <1>1, <1>2, <1>3, <1>4, <1>5, <1>6, <1>7 DEF Next, Loop

-----------------------------------------------------------------------------
(* What is enforced stays enforced *)

\* The same setpoints and registers are as well enforced.
LEMMA SameEnforced ==
    ASSUME NEW s, NEW w, EnforcedIn(s), KeepsSaved(s, w), KeepsPriority(s, w),
           w.dev["mode"] = s.dev["mode"], w.dev["dhw"] = s.dev["dhw"],
           w.dev["heat"] = s.dev["heat"]
    PROVE  EnforcedIn(w)
  BY DEF EnforcedIn, TargetsEnforced, PriorityEnforced, KeepsSaved, KeepsPriority

\* Whatever current_mode_ says and whatever becomes of the write, the mode
\* written is the one demanded.
LEMMA ModeLasts ==
    ASSUME NEW s, Good(s), EnforcedIn(s), NEW o, Counted(o)
    PROVE  EnforcedIn(EnforceMode(s, o))
  <1> DEFINE m == DeviceMode(s.mem.desired_working_mode)
             w == EnforceMode(s, o)
  <1>1. s.dev \in [Registers -> Nat] /\ s.dev["mode"] = m
    BY DEF Good, States, EnforcedIn
  <1>2. WriteRegister(s, "mode", m, o).dev \in {s.dev, [s.dev EXCEPT !["mode"] = m]}
    BY Written DEF Registers
  <1>3. w.dev \in {s.dev, [s.dev EXCEPT !["mode"] = m]}
    BY <1>2, ModeWritten
  <1>4. KeepsSaved(s, w) /\ KeepsPriority(s, w)
    BY EnforceModeGood
  <1> HIDE DEF w, m
  <1>5. /\ w.dev["mode"] = s.dev["mode"] /\ w.dev["dhw"] = s.dev["dhw"]
        /\ w.dev["heat"] = s.dev["heat"]
    BY <1>1, <1>3 DEF Registers
  <1> QED
    BY <1>4, <1>5, SameEnforced DEF w

\* A heating target that mode 1 or 3 writes, applied or not, ...
LEMMA HeatingLasts ==
    ASSUME NEW s, Good(s), NEW t \in HeatTemps, NEW o, Counted(o)
    PROVE  LET w == SetHeatingTarget(s, t, o)
           IN  /\ w.dev["heat"] \in {s.dev["heat"], TempToRaw(t)}
               /\ w.dev["mode"] = s.dev["mode"] /\ w.dev["dhw"] = s.dev["dhw"]
  <1> DEFINE w == SetHeatingTarget(s, t, o)
  <1>1. s.dev \in [Registers -> Nat]
    BY DEF Good, States
  <1>2. WriteRegister(s, "heat", TempToRaw(t), o).dev
          \in {s.dev, [s.dev EXCEPT !["heat"] = TempToRaw(t)]}
    BY Written DEF Registers
  <1>3. w.dev \in {s.dev, [s.dev EXCEPT !["heat"] = TempToRaw(t)]}
    BY <1>2, HeatingTargetWritten
  <1> HIDE DEF w
  <1>4. /\ w.dev["heat"] \in {s.dev["heat"], TempToRaw(t)}
        /\ w.dev["mode"] = s.dev["mode"] /\ w.dev["dhw"] = s.dev["dhw"]
    BY <1>1, <1>3 DEF Registers
  <1> QED
    BY <1>4 DEF w

\* ... and a DHW target that mode 2 or 3 writes.
LEMMA DhwLasts ==
    ASSUME NEW s, Good(s), NEW t \in DhwTemps, NEW o, Counted(o)
    PROVE  LET w == SetDhwTarget(s, t, o)
           IN  /\ w.dev["dhw"] \in {s.dev["dhw"], TempToRaw(t)}
               /\ w.dev["mode"] = s.dev["mode"] /\ w.dev["heat"] = s.dev["heat"]
  <1> DEFINE w == SetDhwTarget(s, t, o)
  <1>1. s.dev \in [Registers -> Nat]
    BY DEF Good, States
  <1>2. WriteRegister(s, "dhw", TempToRaw(t), o).dev
          \in {s.dev, [s.dev EXCEPT !["dhw"] = TempToRaw(t)]}
    BY Written DEF Registers
  <1>3. w.dev \in {s.dev, [s.dev EXCEPT !["dhw"] = TempToRaw(t)]}
    BY <1>2, DhwTargetWritten
  <1> HIDE DEF w
  <1>4. /\ w.dev["dhw"] \in {s.dev["dhw"], TempToRaw(t)}
        /\ w.dev["mode"] = s.dev["mode"] /\ w.dev["heat"] = s.dev["heat"]
    BY <1>1, <1>3 DEF Registers
  <1> QED
    BY <1>4 DEF w

\* Whatever status the targets are judged by and whatever becomes of the
\* writes, the targets written are the ones demanded.
LEMMA TargetsLast ==
    ASSUME NEW s, Good(s), EnforcedIn(s), NEW o, Counted(o)
    PROVE  EnforcedIn(EnforceTargets(s, o))
  <1> DEFINE w == EnforceTargets(s, o)
             m == s.mem.desired_working_mode
             sd == s.mem.saved_dhw_target
             sh == s.mem.saved_heating_target
  <1>0. /\ s.dev \in [Registers -> Nat] /\ sd \in DhwTemps /\ sh \in HeatTemps
        /\ sd \in Nat /\ sh \in Nat
    BY Targets DEF Good, States, Legal
  <1>1. KeepsSaved(s, w) /\ KeepsPriority(s, w) /\ PriorityEnforced(w)
    <2>1. KeepsSaved(s, w) /\ KeepsPriority(s, w)
      BY EnforceTargetsGood
    <2> HIDE DEF w
    <2> QED
      BY <2>1 DEF EnforcedIn, PriorityEnforced, KeepsSaved, KeepsPriority
  <1>2. CASE m = 1
    <2> DEFINE a == SetHeatingTarget(s, HEATING_TARGET_MIN, o)
    <2>1. w = a \/ w = s
      BY <1>2 DEF EnforceTargets
    <2>2. /\ a.dev["heat"] \in {s.dev["heat"], TempToRaw(HEATING_TARGET_MIN)}
          /\ a.dev["mode"] = s.dev["mode"]
      BY Minima, HeatingLasts
    <2> HIDE DEF a, w
    <2>3. w.dev["mode"] = s.dev["mode"]
      BY <2>1, <2>2
    <2>4. RawToTemp(w.dev["heat"]) <= HEATING_TARGET_MIN + 50
      <3>1. RawToTemp(s.dev["heat"]) <= HEATING_TARGET_MIN + 50
        BY <1>2 DEF EnforcedIn, TargetsEnforced
      <3>2. RawToTemp(TempToRaw(HEATING_TARGET_MIN)) <= HEATING_TARGET_MIN + 50
        BY CleanNear DEF HEATING_TARGET_MIN
      <3> QED
        BY <2>1, <2>2, <3>1, <3>2
    <2> QED
      BY <1>1, <1>2, <2>3, <2>4 DEF EnforcedIn, TargetsEnforced, KeepsSaved, w
  <1>3. CASE m = 2
    <2> DEFINE a == SetDhwTarget(s, DHW_TARGET_MIN, o)
    <2>1. w = a \/ w = s
      BY <1>3 DEF EnforceTargets
    <2>2. /\ a.dev["dhw"] \in {s.dev["dhw"], TempToRaw(DHW_TARGET_MIN)}
          /\ a.dev["mode"] = s.dev["mode"]
      BY Minima, DhwLasts
    <2> HIDE DEF a, w
    <2>3. w.dev["mode"] = s.dev["mode"]
      BY <2>1, <2>2
    <2>4. RawToTemp(w.dev["dhw"]) <= DHW_TARGET_MIN + 50
      <3>1. RawToTemp(s.dev["dhw"]) <= DHW_TARGET_MIN + 50
        BY <1>3 DEF EnforcedIn, TargetsEnforced
      <3>2. RawToTemp(TempToRaw(DHW_TARGET_MIN)) <= DHW_TARGET_MIN + 50
        BY CleanNear DEF DHW_TARGET_MIN
      <3> QED
        BY <2>1, <2>2, <3>1, <3>2
    <2> QED
      BY <1>1, <1>3, <2>3, <2>4 DEF EnforcedIn, TargetsEnforced, KeepsSaved, w
  <1>4. CASE m = 3
    <2> DEFINE a == IF Off(status.dhw, sd) > 50 THEN SetDhwTarget(s, sd, o) ELSE s
               b == SetHeatingTarget(a, sh, o)
    <2>1. w = b \/ w = a
      BY <1>4 DEF EnforceTargets
    <2>2. Good(a)
      BY <1>0, SetDhwTargetGood
    <2>3. /\ a.dev["mode"] = s.dev["mode"] /\ a.dev["heat"] = s.dev["heat"]
          /\ a.dev["dhw"] \in {s.dev["dhw"], TempToRaw(sd)}
      BY <1>0, DhwLasts
    <2> HIDE DEF a
    <2>4. /\ b.dev["mode"] = a.dev["mode"] /\ b.dev["dhw"] = a.dev["dhw"]
          /\ b.dev["heat"] \in {a.dev["heat"], TempToRaw(sh)}
      BY <1>0, <2>2, HeatingLasts
    <2> HIDE DEF b, w
    <2>5. /\ w.dev["mode"] = s.dev["mode"]
          /\ w.dev["dhw"] \in {s.dev["dhw"], TempToRaw(sd)}
          /\ w.dev["heat"] \in {s.dev["heat"], TempToRaw(sh)}
      BY <2>1, <2>3, <2>4
    <2>6. /\ Near(s.dev["dhw"], sd) /\ Near(TempToRaw(sd), sd)
          /\ Near(s.dev["heat"], sh) /\ Near(TempToRaw(sh), sh)
      BY <1>0, <1>4, CleanNear DEF EnforcedIn, TargetsEnforced
    <2>7. Near(w.dev["dhw"], sd) /\ Near(w.dev["heat"], sh)
      BY <2>5, <2>6
    <2> QED
      BY <1>1, <1>4, <2>5, <2>7 DEF EnforcedIn, TargetsEnforced, KeepsSaved, w
  <1>5. CASE m \notin {1, 2, 3}
    <2>1. w = s
      BY <1>5 DEF EnforceTargets
    <2> QED
      BY <2>1
  <1> QED
    BY <1>2, <1>3, <1>4, <1>5

\* applyControlLogic never undoes what it has enforced, however stale the
\* status and whichever writes fail.
LEMMA ApplyLasts ==
    ASSUME NEW s, Good(s), EnforcedIn(s), NEW o, Counted(o)
    PROVE  EnforcedIn(ApplyControlLogic(s, o))
  <1> DEFINE p == EnforceMode(s, o)
             q == EnforceTargets(p, o)
             w == EnforcePriority(q, o)
  <1>1. Good(p) /\ EnforcedIn(p)
    BY EnforceModeGood, ModeLasts
  <1>2. ApplyControlLogic(s, o) = w
    BY DEF ApplyControlLogic
  <1> HIDE DEF p
  <1>3. Good(q) /\ EnforcedIn(q)
    BY <1>1, EnforceTargetsGood, TargetsLast
  <1> HIDE DEF q
  <1>4. w = q
    BY <1>3 DEF EnforcedIn, PriorityEnforced, EnforcePriority
  <1> QED
    BY <1>2, <1>3, <1>4

\* A read changes a setpoint only to what the register holds.
LEMMA ReadLasts ==
    ASSUME mem \in Members, dev \in [Registers -> Nat], Enforced, NEW f,
           mem' = MemRead(f), dev' = dev, mine' = mine
    PROVE  Enforced'
  <1>1. /\ mem'.desired_working_mode = mem.desired_working_mode
        /\ mem'.current_priority = mem.current_priority
        /\ mem'.saved_dhw_target \in {mem.saved_dhw_target, RawToTemp(dev["dhw"])}
        /\ mem'.saved_heating_target \in {mem.saved_heating_target, RawToTemp(dev["heat"])}
    BY DEF MemRead, Members
  <1>2. dev["dhw"] \in Nat /\ dev["heat"] \in Nat
    BY DEF Registers
  <1>3. \A r \in Nat : Near(r, RawToTemp(r))
    BY DEF Near, Off, RawToTemp
  <1> QED
    BY <1>1, <1>2, <1>3 DEF Enforced, PriorityHeld

\* Only a command, a knob or a restart ends the demanded state.
EnforcedLasts ==
    [][Enforced => \/ Enforced'
                   \/ Len(queue') < Len(queue)
                   \/ used'.panel # used.panel
                   \/ used'.restarts # used.restarts]_vars

LEMMA EnforcedStep ==
    ASSUME Inv, [Next]_vars, Enforced
    PROVE  \/ Enforced'
           \/ Len(queue') < Len(queue)
           \/ used'.panel # used.panel
           \/ used'.restarts # used.restarts
  <1>0. /\ Good(State) /\ mem \in Members /\ dev \in [Registers -> Nat]
        /\ queue \in Seq(Requests) /\ used \in Counters
    BY DEF Inv, TypeOK, Counters
  <1>1. CASE FirstRead \/ Read
    <2>1. PICK f : mem' = MemRead(f)
      BY <1>1 DEF FirstRead, Read
    <2>2. dev' = dev /\ mine' = mine
      BY <1>1 DEF FirstRead, Read
    <2> QED
      BY <1>0, <2>1, <2>2, ReadLasts
  <1>2. CASE Process
    <2>1. queue # <<>> /\ queue' = Tail(queue)
      BY <1>2 DEF Process
    <2>2. Len(queue') < Len(queue)
      BY <1>0, <2>1
    <2> QED
      BY <2>2
  <1>3. CASE Apply
    <2>1. PICK o \in Outcomes : Becomes(ApplyControlLogic(State, o))
      BY <1>3 DEF Apply
    <2>2. EnforcedIn(State)
      BY DEF Enforced, PriorityHeld, EnforcedIn, TargetsEnforced, PriorityEnforced, State
    <2>3. EnforcedIn(ApplyControlLogic(State, o)) /\ Good(ApplyControlLogic(State, o))
      BY <1>0, <2>2, OutcomesCounted, ApplyLasts, ApplyControlLogicGood
    <2> QED
      BY <2>1, <2>3, BecomesEnforced
  <1>4. CASE Panel
    <2>1. used'.panel # used.panel
      BY <1>0, <1>4 DEF Panel, Counters
    <2> QED
      BY <2>1
  <1>5. CASE CrashRestart \/ StopRestart \/ LeaveReconnecting
    <2>1. used'.restarts # used.restarts
      BY <1>0, <1>5
      DEF CrashRestart, StopRestart, LeaveReconnecting, SwitchOffAndRestart, Reboot, Counters
    <2> QED
      BY <2>1
  <1>6. ASSUME \/ BeginTurn \/ Drained \/ StopReconnecting
               \/ \E c \in Requests : Submit(c)
               \/ UNCHANGED vars
        PROVE  Enforced'
    <2>1. UNCHANGED <<mem, dev, mine>>
      BY <1>6 DEF BeginTurn, Drained, StopReconnecting, Submit, vars
    <2> QED
      BY <2>1 DEF Enforced, PriorityHeld
  <1> QED
    BY <1>1, <1>2, <1>3, <1>4, <1>5, <1>6 DEF Next, Loop

-----------------------------------------------------------------------------
(* Theorems *)

LEMMA Invariance == Spec => []Inv
  BY InitInv, NextInv, PTL DEF Spec

\* The types, among them that the queue never holds more than its room and
\* that every command in it came from a handler.
THEOREM TypeCorrect == Spec => []TypeOK
  <1>1. Inv => TypeOK
    BY DEF Inv
  <1> QED
    BY <1>1, Invariance, PTL

\* Targets and setpoints stay within the limits although only the web
\* handlers check them: overrides, restores, first reads and knobs all move
\* legal values around.
THEOREM TargetsLegal == Spec => []LegalTargets
  <1>1. Inv => LegalTargets
    <2> SUFFICES ASSUME Inv PROVE LegalTargets
      OBVIOUS
    <2>1. /\ dev["dhw"] \in RawDhw /\ dev["heat"] \in RawHeat
          /\ mem.saved_dhw_target \in DhwTemps /\ mem.saved_heating_target \in HeatTemps
      BY DEF Inv, Good, Legal, State
    <2> QED
      BY <2>1, Conversion DEF LegalTargets, DhwTemps, HeatTemps
  <1> QED
    BY <1>1, Invariance, PTL

\* A setpoint commanded after the first complete status is never forgotten
\* by mode changes, overrides, reads or failed writes.
THEOREM SetpointsKept == Spec => []SetpointKept
  <1>1. Inv => SetpointKept
    BY DEF Inv
  <1> QED
    BY <1>1, Invariance, PTL

\* One undisturbed turn suffices: a turn whose reads and writes all succeed
\* and that no knob and no restart disturbs leaves the device in the state
\* that applyControlLogic holds it to in the working mode: running mode,
\* suppressed or restored targets, and the priority, whose register it
\* holds if this process set it last.  Whatever commands, failures, knobs
\* and restarts went before; saves may fail in the turn itself.
THEOREM CleanTurnSuffices == Spec => []CleanTurnEnforces
  <1>1. Init => CalmStatus /\ CleanTurnEnforces
    BY DEF Init, CalmStatus, CleanTurnEnforces
  <1>2. Inv /\ CalmStatus /\ CleanTurnEnforces /\ [Next]_vars
            => CalmStatus' /\ CleanTurnEnforces'
    BY CalmKept
  <1> QED
    BY <1>1, <1>2, Invariance, PTL DEF Spec

\* What is enforced stays enforced until a command, a knob or a restart:
\* enforcing again by a stale status, with writes that fail or are applied
\* although reported as failed, and reads that fail in part, cannot undo it.
\* With CleanTurnSuffices this is the safety half of Converges.
THEOREM EnforcementLasts == Spec => EnforcedLasts
  <1> DEFINE A == Enforced => \/ Enforced'
                              \/ Len(queue') < Len(queue)
                              \/ used'.panel # used.panel
                              \/ used'.restarts # used.restarts
  <1>1. Inv /\ [Next]_vars => [A]_vars
    BY EnforcedStep
  <1>2. Spec => [][A]_vars
    BY <1>1, Invariance, PTL DEF Spec
  <1> QED
    BY <1>2 DEF EnforcedLasts

\* A restart at any point finds the working mode and the targets that were
\* in force unless the last save failed: every handler that changes one
\* tries to save all, so one save that succeeds makes up for every one that
\* failed or was cut short before it.
THEOREM ModeSurvivesRestart == Spec => RestartKeepsMode
  <1> DEFINE A == used'.restarts # used.restarts /\ ~unsaved =>
                    /\ mem'.desired_working_mode = mem.desired_working_mode
                    /\ mem'.mDhwTarget = mem.mDhwTarget
                    /\ mem'.mHeatingTarget = mem.mHeatingTarget
  <1>1. Inv /\ [Next]_vars => [A]_vars
    BY RestartStep
  <1>2. Spec => [][A]_vars
    BY <1>1, Invariance, PTL DEF Spec
  <1> QED
    BY <1>2 DEF RestartKeepsMode
=============================================================================
