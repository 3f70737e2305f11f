------------------------- MODULE BatteryModeProofs -------------------------
(***************************************************************************)
(* Proofs about BatteryMode for every set of values, readers, commanders,  *)
(* report shapes, outcomes, user choices and timeouts.                     *)
(***************************************************************************)
EXTENDS BatteryMode, TLAPS

-----------------------------------------------------------------------------
(***************************************************************************)
(* The operators of EvccProfile.                                           *)
(***************************************************************************)
\* The property names are distinct and known.
LEMMA PropNames ==
  /\ Prop = {"acMode", "inputLimit", "outputLimit", "smartMode",
             "chargeMaxLimit", "electricLevel"}
  /\ Controlled \subseteq Prop
BY DEF Prop, Controlled

\* Every operator of the profile gives a property map.
LEMMA EmptyType == Empty \in PropMap
BY DEF Empty, PropMap

LEMMA CopyType ==
  ASSUME NEW into \in PropMap, NEW from \in PropMap
  PROVE  Copy(into, from) \in PropMap
BY DEF Copy, PropMap

\* A write leaves the unit with a value for every property.
LEMMA CopyIntoUnit ==
  ASSUME NEW unit \in [Prop -> Value], NEW write \in PropMap
  PROVE  Copy(unit, write) \in [Prop -> Value]
BY DEF Copy, PropMap

LEMMA SnapshotType ==
  ASSUME NEW p \in PropMap
  PROVE  Snapshot(p) \in PropMap
BY DEF Snapshot, PropMap

LEMMA UnitIsPropMap ==
  ASSUME NEW unit \in [Prop -> Value]
  PROVE  unit \in PropMap
BY DEF PropMap

LEMMA DiffType ==
  ASSUME NEW want \in PropMap, NEW p \in PropMap
  PROVE  Diff(want, p) \in PropMap
BY DEF Diff, PropMap

LEMMA ChargeLimitType ==
  ASSUME NEW p \in PropMap
  PROVE  ChargeLimit(p) \in Value
BY ValueAssumption, PropNames DEF ChargeLimit, PropMap

\* What a mode asks for, property by property.
LEMMA TargetValues ==
  ASSUME NEW p
  PROVE  /\ HoldTarget = [k \in Prop |-> IF k = "smartMode" THEN 1
                                         ELSE IF k = "outputLimit" THEN 0
                                         ELSE Absent]
         /\ ChargeTarget(p) = [k \in Prop |-> IF k = "smartMode" THEN 1
                                              ELSE IF k = "outputLimit" THEN 0
                                              ELSE IF k = "acMode" THEN 1
                                              ELSE IF k = "inputLimit" THEN ChargeLimit(p)
                                              ELSE Absent]
BY PropNames DEF HoldTarget, ChargeTarget, Empty

LEMMA TargetType ==
  ASSUME NEW p \in PropMap, NEW m \in Mode
  PROVE  Target(m, p) \in PropMap
<1>1. HoldTarget \in PropMap
  BY TargetValues, ValueAssumption DEF PropMap
<1>2. ChargeTarget(p) \in PropMap
  BY TargetValues, ChargeLimitType, ValueAssumption DEF PropMap
<1>3. QED
  BY <1>1, <1>2, EmptyType DEF Target, Mode

\* Writing the difference is writing the whole.
LEMMA CopyDiff ==
  ASSUME NEW p \in PropMap, NEW want \in PropMap
  PROVE  Copy(p, Diff(want, p)) = Copy(p, want)
BY ValueAssumption DEF Copy, Diff, PropMap

\* Once written, nothing is left to write.
LEMMA DiffAfterCopy ==
  ASSUME NEW p \in PropMap, NEW want \in PropMap
  PROVE  Diff(want, Copy(p, want)) = Empty
BY DEF Copy, Diff, Empty, PropMap

\* No mode writes chargeMaxLimit, so entering a mode does not move its target.
LEMMA TargetStable ==
  ASSUME NEW p \in PropMap, NEW m \in Mode
  PROVE  Target(m, Copy(p, Target(m, p))) = Target(m, p)
<1> DEFINE q == Copy(p, ChargeTarget(p))
<1>1. ChargeTarget(p)["chargeMaxLimit"] = Absent
  BY TargetValues, PropNames
<1>2. q["chargeMaxLimit"] = p["chargeMaxLimit"]
  BY <1>1, PropNames DEF Copy
<1>3. ChargeLimit(q) = ChargeLimit(p)
  BY <1>2 DEF ChargeLimit
<1>4. ChargeTarget(q) = ChargeTarget(p)
  BY <1>3 DEF ChargeTarget
<1>5. QED
  BY <1>4 DEF Target, Mode

-----------------------------------------------------------------------------
(***************************************************************************)
(* Type correctness.                                                       *)
(***************************************************************************)
\* What applyBatteryMode would write, hold and report has its type.
LEMMA ApplyTypes ==
  ASSUME TypeOK, NEW m \in Mode
  PROVE  /\ Want(m) \in PropMap
         /\ Write(m) \in PropMap
         /\ Saving(m) \in PropMap \cup {Nil}
         /\ Copy(props, Write(m)) \in PropMap
         /\ Copy(dev, Write(m)) \in [Prop -> Value]
         /\ Settings \in PropMap
<1>1. Want(m) \in PropMap
  BY TargetType, EmptyType DEF Want, TypeOK
<1>2. Write(m) \in PropMap
  BY <1>1, DiffType DEF Write, TypeOK
<1>3. Saving(m) \in PropMap \cup {Nil}
  BY SnapshotType DEF Saving, TypeOK
<1>4. Settings \in PropMap
  BY SnapshotType, UnitIsPropMap DEF Settings, TypeOK
<1>5. QED
  BY <1>1, <1>2, <1>3, <1>4, CopyType, CopyIntoUnit DEF TypeOK

\* A report carries values of the unit.
LEMMA ReportedType ==
  ASSUME TypeOK, NEW shape \in ReportShapes
  PROVE  Reported(shape) \in PropMap
BY DEF TypeOK, Reported, PropMap

\* Publishing keeps the types of what it touches.
LEMMA SpeakType ==
  ASSUME TypeOK, NEW g \in Speaker, NEW m \in Mode, Speak(g, m)
  PROVE  /\ speaking' \in [Speaker -> Mode \cup {Nil}]
         /\ status' \in Mode \cup {Nil}
BY DEF Speak, TypeOK

\* Applying a mode keeps the types of what it touches.
LEMMA ApplyKeepsTypes ==
  ASSUME TypeOK, NEW g \in Speaker, NEW m \in Mode, ApplyBatteryMode(g, m)
  PROVE  /\ dev' \in [Prop -> Value]
         /\ props' \in PropMap
         /\ mode' \in Mode
         /\ saved' \in PropMap \cup {Nil}
         /\ age' \in 0..Timeout
         /\ speaking' \in [Speaker -> Mode \cup {Nil}]
         /\ status' \in Mode \cup {Nil}
         /\ before' \in PropMap \cup {Nil}
         /\ UNCHANGED <<fetched, silent>>
<1> USE ApplyTypes
<1>1. age' \in 0..Timeout
  BY BatteryModeAssumption DEF ApplyBatteryMode
<1>2. before' \in PropMap \cup {Nil}
  BY DEF ApplyBatteryMode, TypeOK
<1>3. CASE NothingReported(m)
  BY <1>1, <1>2, <1>3 DEF NothingReported, ApplyBatteryMode, TypeOK
<1>4. CASE WriteFails(m)
  BY <1>1, <1>2, <1>4 DEF WriteFails, ApplyBatteryMode, TypeOK
<1>5. CASE WriteSucceeds(g, m)
  <2>1. dev' \in [Prop -> Value] /\ props' \in PropMap
    BY <1>5 DEF WriteSucceeds, TypeOK
  <2>2. mode' \in Mode /\ saved' \in PropMap \cup {Nil}
    BY <1>5 DEF WriteSucceeds
  <2>3. speaking' \in [Speaker -> Mode \cup {Nil}] /\ status' \in Mode \cup {Nil}
    BY <1>5, SpeakType DEF WriteSucceeds
  <2>4. UNCHANGED <<fetched, silent>>
    BY DEF ApplyBatteryMode
  <2>5. QED
    BY <1>1, <1>2, <2>1, <2>2, <2>3, <2>4
<1>6. QED
  BY <1>3, <1>4, <1>5 DEF ApplyBatteryMode

\* A merged report keeps the types of what it touches.
LEMMA MergeKeepsTypes ==
  ASSUME TypeOK, NEW r \in Reader, NEW report \in PropMap, Merge(r, report),
         fetched' \in [Reader -> PropMap \cup {Nil}]
  PROVE  TypeOK'
<1>1. r \in Speaker
  BY DEF Speaker
<1>2. speaking' \in [Speaker -> Mode \cup {Nil}] /\ status' \in Mode \cup {Nil}
  BY <1>1, SpeakType DEF Merge, TypeOK
<1>3. props' \in PropMap
  BY CopyType DEF Merge, TypeOK
<1>4. QED
  BY <1>2, <1>3 DEF Merge, TypeOK

\* The unit, the picture, the saved settings and everything in flight always
\* hold values of the right kind: no order of reports, commands, failed writes,
\* fallbacks, user changes and restarts puts anything else there.
THEOREM TypeCorrect == Spec => []TypeOK
<1>0. 0 \in 0..Timeout /\ "normal" \in Mode
  BY BatteryModeAssumption DEF Mode
<1>1. Init => TypeOK
  BY <1>0, BatteryModeAssumption, EmptyType DEF Init, TypeOK
<1>2. TypeOK /\ [Next]_vars => TypeOK'
  <2> SUFFICES ASSUME TypeOK, [Next]_vars PROVE TypeOK'
    OBVIOUS
  <2>1. ASSUME NEW r \in Reader, NEW shape \in ReportShapes, Report(r, shape)
        PROVE  TypeOK'
    BY <2>1, ReportedType, MergeKeepsTypes DEF Report, TypeOK
  <2>2. ASSUME NEW r \in Reader, NEW shape \in ReportShapes, Fetch(r, shape)
        PROVE  TypeOK'
    BY <2>2, ReportedType DEF Fetch, TypeOK, plane
  <2>3. ASSUME NEW r \in Reader, Deliver(r)
        PROVE  TypeOK'
    <3>1. fetched[r] \in PropMap /\ fetched' \in [Reader -> PropMap \cup {Nil}]
      BY <2>3 DEF Deliver, TypeOK
    <3>2. QED
      BY <2>3, <3>1, MergeKeepsTypes DEF Deliver
  <2>4. ASSUME NEW g \in Speaker, Publish(g)
        PROVE  TypeOK'
    BY <2>4 DEF Publish, TypeOK, plane
  <2>5. ASSUME NEW g \in Commander, NEW m \in Mode, Command(g, m)
        PROVE  TypeOK'
    <3>1. g \in Speaker
      BY DEF Speaker
    <3>2. QED
      BY <2>5, <3>1, ApplyKeepsTypes DEF Command, TypeOK
  <2>6. CASE Tick
    BY <2>6, BatteryModeAssumption DEF Tick, TypeOK
  <2>7. CASE FallbackScan
    BY <2>7 DEF FallbackScan, TypeOK, plane
  <2>8. CASE FallbackApply
    <3>1. "fallback" \in Speaker /\ "normal" \in Mode
      BY DEF Speaker, Mode
    <3>2. QED
      BY <2>8, <3>1, ApplyKeepsTypes DEF FallbackApply, TypeOK
  <2>9. ASSUME NEW c \in UserChoice, UserChange(c[1], c[2])
        PROVE  TypeOK'
    <3>1. c[2] \in Value
      BY BatteryModeAssumption
    <3>2. QED
      BY <2>9, <3>1 DEF UserChange, TypeOK, plane
  <2>10. CASE EvccStops
    BY <2>10 DEF EvccStops, TypeOK, plane
  <2>11. CASE Restart
    BY <1>0, <2>11, EmptyType DEF Restart, TypeOK
  <2>12. CASE UNCHANGED vars
    BY <2>12 DEF vars, TypeOK
  <2>13. QED
    BY <2>1, <2>2, <2>3, <2>4, <2>5, <2>6, <2>7, <2>8, <2>9, <2>10, <2>11,
       <2>12 DEF Next
<1>3. QED
  BY <1>1, <1>2, PTL DEF Spec

-----------------------------------------------------------------------------
(***************************************************************************)
(* What a step does to the plane: the facts every theorem below splits on. *)
(***************************************************************************)
\* Nothing is applied: at most a report is merged.
LearnStep ==
  /\ UNCHANGED <<mode, saved>>
  /\ props' \in PropMap

\* A write fails: the settings stay taken.
FailStep ==
  /\ \E m \in Mode : Write(m) # Empty /\ saved' = Saving(m)
  /\ UNCHANGED <<props, mode>>

\* A mode is applied.
ApplyStep ==
  \E m \in Mode :
    /\ m = "normal" \/ props # Empty
    /\ props' = Copy(props, Write(m))
    /\ mode' = m
    /\ saved' = IF m = "normal" THEN Nil ELSE Saving(m)

\* The bridge restarts.
ForgetStep ==
  props' = Empty /\ mode' = "normal" /\ saved' = Nil

LEMMA ApplyPlaneSteps ==
  ASSUME TypeOK, NEW g \in Speaker, NEW m \in Mode, ApplyBatteryMode(g, m)
  PROVE  LearnStep \/ FailStep \/ ApplyStep
<1>1. CASE NothingReported(m)
  BY <1>1 DEF NothingReported, LearnStep, TypeOK
<1>2. CASE WriteFails(m)
  BY <1>2 DEF WriteFails, FailStep
<1>3. CASE (m = "normal" \/ props # Empty) /\ WriteSucceeds(g, m)
  BY <1>3 DEF WriteSucceeds, ApplyStep
<1>4. QED
  BY <1>1, <1>2, <1>3 DEF ApplyBatteryMode

LEMMA PlaneSteps ==
  ASSUME TypeOK, [Next]_vars
  PROVE  LearnStep \/ FailStep \/ ApplyStep \/ ForgetStep
<1>1. ASSUME NEW r \in Reader, NEW shape \in ReportShapes, Report(r, shape)
      PROVE  LearnStep
  BY <1>1, ReportedType, CopyType DEF Report, Merge, LearnStep, TypeOK
<1>2. ASSUME NEW r \in Reader, NEW shape \in ReportShapes, Fetch(r, shape)
      PROVE  LearnStep
  BY <1>2 DEF Fetch, LearnStep, plane, TypeOK
<1>3. ASSUME NEW r \in Reader, Deliver(r)
      PROVE  LearnStep
  <2>1. fetched[r] \in PropMap
    BY <1>3 DEF Deliver, TypeOK
  <2>2. QED
    BY <1>3, <2>1, CopyType DEF Deliver, Merge, LearnStep, TypeOK
<1>4. ASSUME NEW g \in Speaker, Publish(g)
      PROVE  LearnStep
  BY <1>4 DEF Publish, LearnStep, plane, TypeOK
<1>5. ASSUME NEW g \in Commander, NEW m \in Mode, Command(g, m)
      PROVE  LearnStep \/ FailStep \/ ApplyStep
  BY <1>5, ApplyPlaneSteps DEF Command, Speaker
<1>6. CASE Tick
  BY <1>6 DEF Tick, LearnStep, TypeOK
<1>7. CASE FallbackScan
  BY <1>7 DEF FallbackScan, LearnStep, plane, TypeOK
<1>8. CASE FallbackApply
  BY <1>8, ApplyPlaneSteps DEF FallbackApply, Speaker, Mode
<1>9. ASSUME NEW c \in UserChoice, UserChange(c[1], c[2])
      PROVE  LearnStep
  BY <1>9 DEF UserChange, LearnStep, plane, TypeOK
<1>10. CASE EvccStops
  BY <1>10 DEF EvccStops, LearnStep, plane, TypeOK
<1>11. CASE Restart
  BY <1>11 DEF Restart, ForgetStep
<1>12. CASE UNCHANGED vars
  BY <1>12 DEF vars, LearnStep, TypeOK
<1>13. QED
  BY <1>1, <1>2, <1>3, <1>4, <1>5, <1>6, <1>7, <1>8, <1>9, <1>10, <1>11,
     <1>12 DEF Next

\* A write puts the whole of what is wanted into the picture.
LEMMA WriteIsWant ==
  ASSUME TypeOK, NEW m \in Mode
  PROVE  Copy(props, Write(m)) = Copy(props, Want(m))
BY ApplyTypes, CopyDiff DEF Write, TypeOK

\* Taken settings are never nil.
LEMMA SavingNotNil ==
  ASSUME TypeOK, NEW m \in Mode, m # "normal" \/ saved # Nil
  PROVE  Saving(m) # Nil
BY SnapshotType, BatteryModeAssumption DEF Saving, TypeOK

-----------------------------------------------------------------------------
\* Whatever happens, a unit in hold or charge has settings to give back.
THEOREM SettingsHeld == Spec => []SettingsHeldOutsideNormal
<1>1. Init => SettingsHeldOutsideNormal
  BY DEF Init, SettingsHeldOutsideNormal
<1>2. TypeOK /\ SettingsHeldOutsideNormal /\ [Next]_vars => SettingsHeldOutsideNormal'
  <2> SUFFICES ASSUME TypeOK, SettingsHeldOutsideNormal, [Next]_vars
               PROVE  SettingsHeldOutsideNormal'
    OBVIOUS
  <2>1. CASE LearnStep
    BY <2>1 DEF LearnStep, SettingsHeldOutsideNormal
  <2>2. CASE FailStep
    BY <2>2, SavingNotNil DEF FailStep, SettingsHeldOutsideNormal
  <2>3. CASE ApplyStep
    BY <2>3, SavingNotNil DEF ApplyStep, SettingsHeldOutsideNormal
  <2>4. CASE ForgetStep
    BY <2>4 DEF ForgetStep, SettingsHeldOutsideNormal
  <2>5. QED
    BY <2>1, <2>2, <2>3, <2>4, PlaneSteps
<1>3. QED
  BY <1>1, <1>2, TypeCorrect, PTL DEF Spec

\* Whatever happens, taken settings are given up only with every one of them
\* back in the bridge's picture, or by a restart.
THEOREM SettingsKept == Spec => SettingsKeptUntilRestored
<1> DEFINE Given ==
      /\ saved' = Nil /\ mode' = "normal"
      /\ props' = Empty \/ \A k \in Prop : saved[k] \in {Absent, props'[k]}
<1>1. TypeOK /\ [Next]_vars => [saved # Nil /\ saved' # saved => Given]_vars
  <2> SUFFICES ASSUME TypeOK, [Next]_vars, saved # Nil, saved' # saved
               PROVE  Given
    OBVIOUS
  <2>1. CASE LearnStep
    BY <2>1 DEF LearnStep
  <2>2. CASE FailStep
    BY <2>2 DEF FailStep, Saving
  <2>3. CASE ApplyStep
    <3>1. PICK m \in Mode : /\ props' = Copy(props, Write(m))
                            /\ mode' = m
                            /\ saved' = IF m = "normal" THEN Nil ELSE Saving(m)
      BY <2>3 DEF ApplyStep
    <3>2. m = "normal"
      BY <3>1 DEF Saving
    <3>3. props' = Copy(props, saved)
      BY <3>1, <3>2, WriteIsWant DEF Want
    <3>4. \A k \in Prop : saved[k] \in {Absent, props'[k]}
      BY <3>3 DEF Copy
    <3>5. QED
      BY <3>1, <3>2, <3>4
  <2>4. CASE ForgetStep
    BY <2>4 DEF ForgetStep
  <2>5. QED
    BY <2>1, <2>2, <2>3, <2>4, PlaneSteps
<1>2. QED
  BY <1>1, TypeCorrect, PTL DEF Spec, SettingsKeptUntilRestored

\* Whatever happens, entering hold or charge leaves nothing to write for the
\* same mode sent again.
THEOREM EnteredNeedsNoWrite == Spec => EnteredModeNeedsNoWrite
<1> DEFINE NoWrite == Diff(Target(mode', props'), props') = Empty
<1>1. TypeOK /\ [Next]_vars => [mode' # mode /\ mode' # "normal" => NoWrite]_vars
  <2> SUFFICES ASSUME TypeOK, [Next]_vars, mode' # mode, mode' # "normal"
               PROVE  NoWrite
    OBVIOUS
  <2>1. ApplyStep
    BY PlaneSteps DEF LearnStep, FailStep, ForgetStep
  <2>2. PICK m \in Mode : props' = Copy(props, Write(m)) /\ mode' = m
    BY <2>1 DEF ApplyStep
  <2>3. props' = Copy(props, Target(m, props))
    BY <2>2, WriteIsWant DEF Want
  <2>4. Target(m, props') = Target(m, props)
    BY <2>3, TargetStable DEF TypeOK
  <2>5. Diff(Target(m, props), props') = Empty
    BY <2>3, DiffAfterCopy, TargetType DEF TypeOK
  <2>6. QED
    BY <2>2, <2>4, <2>5
<1>2. QED
  BY <1>1, TypeCorrect, PTL DEF Spec, EnteredModeNeedsNoWrite

\* The contract speaks of the same profile.
LEMMA SameProfile ==
  /\ Contract!Empty = Empty
  /\ Contract!Mode = Mode
  /\ Contract!PropMap = PropMap
  /\ \A p : Contract!Snapshot(p) = Snapshot(p)
  /\ \A p, q : Contract!Copy(p, q) = Copy(p, q)
  /\ \A m, p : Contract!Target(m, p) = Target(m, p)
<1>1. Contract!Controlled = Controlled /\ Contract!Prop = Prop
  BY DEF Contract!Prop, Prop, Contract!Controlled, Controlled
<1>2. Contract!Empty = Empty
  BY <1>1 DEF Contract!Empty, Empty
<1>3. Contract!HoldTarget = HoldTarget
  BY <1>2 DEF Contract!HoldTarget, HoldTarget
<1>4. \A p : Contract!ChargeTarget(p) = ChargeTarget(p)
  BY <1>3 DEF Contract!ChargeTarget, ChargeTarget, Contract!ChargeLimit, ChargeLimit
<1>5. \A m, p : Contract!Target(m, p) = Target(m, p)
  BY <1>2, <1>3, <1>4 DEF Contract!Target, Target
<1>6. Contract!Mode = Mode
  BY DEF Contract!Mode, Mode
<1>7. Contract!PropMap = PropMap
  BY <1>1 DEF Contract!PropMap, PropMap
<1>8. \A p : Contract!Snapshot(p) = Snapshot(p)
  BY <1>1 DEF Contract!Snapshot, Snapshot
<1>9. \A p, q : Contract!Copy(p, q) = Copy(p, q)
  BY <1>1 DEF Contract!Copy, Copy
<1>10. QED
  BY <1>2, <1>5, <1>6, <1>7, <1>8, <1>9

\* The plane implements the contract: every step is a step of
\* BatteryModeContract on the bridge's picture, or changes nothing it sees.
THEOREM ContractKept == Spec => KeepsContract
<1> USE SameProfile
<1>1. Init => Contract!Init
  BY DEF Init, Contract!Init
<1>2. TypeOK /\ [Next]_vars => [Contract!Next]_(Contract!vars)
  <2> SUFFICES ASSUME TypeOK, [Next]_vars
               PROVE  [Contract!Next]_(Contract!vars)
    OBVIOUS
  <2>1. CASE LearnStep
    BY <2>1 DEF LearnStep, Contract!Next, Contract!Learn
  <2>2. CASE FailStep
    <3>1. PICK m \in Mode : Write(m) # Empty /\ saved' = Saving(m)
      BY <2>2 DEF FailStep
    <3>2. CASE saved' = saved
      BY <2>2, <3>2 DEF FailStep, Contract!vars
    <3>3. CASE saved' # saved
      BY <2>2, <3>1, <3>3 DEF FailStep, Saving, Contract!Next, Contract!Save,
         Contract!Held
    <3>4. QED
      BY <3>2, <3>3
  <2>3. CASE ApplyStep
    <3>1. PICK m \in Mode : /\ props' = Copy(props, Want(m))
                            /\ mode' = m
                            /\ saved' = IF m = "normal" THEN Nil ELSE Saving(m)
      BY <2>3, WriteIsWant DEF ApplyStep
    <3>2. CASE m = "normal"
      <4>1. Copy(props, Empty) = props
        BY DEF Copy, Empty, TypeOK, PropMap
      <4>2. Contract!Leave
        BY <3>1, <3>2, <4>1 DEF Contract!Leave, Want
      <4>3. QED
        BY <4>2 DEF Contract!Next
    <3>3. CASE m # "normal"
      <4>1. Contract!Enter(m)
        BY <3>1, <3>3 DEF Contract!Enter, Contract!Held, Want, Saving
      <4>2. QED
        BY <3>3, <4>1 DEF Contract!Next
    <3>4. QED
      BY <3>2, <3>3
  <2>4. CASE ForgetStep
    BY <2>4 DEF ForgetStep, Contract!Next, Contract!Forget
  <2>5. QED
    BY <2>1, <2>2, <2>3, <2>4, PlaneSteps
<1>3. QED
  BY <1>1, <1>2, TypeCorrect, PTL DEF Spec, KeepsContract, Contract!Spec

-----------------------------------------------------------------------------
(***************************************************************************)
(* `normal` restores the unit, when every write is applied and no report   *)
(* is overtaken.                                                           *)
(*                                                                         *)
(* NormalRestores is not inductive: it says nothing of a unit in hold or   *)
(* charge.  What carries it through an episode is that the picture stays   *)
(* true and that the saved settings are the ones before the first          *)
(* hold/charge, which in turn needs saved to be nil on entering it.        *)
(***************************************************************************)
IsSettings(s) ==
  /\ s \in PropMap
  /\ \A k \in Controlled : s[k] # Absent
  /\ \A k \in Prop \ Controlled : s[k] = Absent

EpisodeInv ==
  /\ \A r \in Reader : fetched[r] = Nil
  /\ mode = "normal" => saved = Nil
  /\ before # Nil =>
       /\ IsSettings(before)
       /\ \A k \in Controlled : props[k] = dev[k]
       /\ IF mode = "normal" THEN Settings = before ELSE saved = before

\* In sync means that the picture is right about every controlled property.
LEMMA SyncPointwise ==
  ASSUME TypeOK
  PROVE  InSync <=> \A k \in Controlled : props[k] = dev[k]
BY PropNames DEF InSync, Settings, Snapshot, TypeOK

\* A unit's settings are settings.
LEMMA SettingsAreSettings ==
  ASSUME TypeOK
  PROVE  IsSettings(Settings)
BY PropNames, ValueAssumption DEF IsSettings, Settings, Snapshot, TypeOK, PropMap

\* A mode applied to the unit and to the picture alike keeps the picture true,
\* and normal puts the saved settings into the unit.
LEMMA ApplyRestores ==
  ASSUME TypeOK, NEW m \in Mode,
         \A k \in Controlled : props[k] = dev[k],
         props' = Copy(props, Write(m)), dev' = Copy(dev, Write(m))
  PROVE  /\ \A k \in Controlled : props'[k] = dev'[k]
         /\ (m = "normal" /\ saved # Nil /\ IsSettings(saved)) => Settings' = saved
<1>1. \A k \in Controlled : props'[k] = dev'[k]
  BY PropNames DEF Copy
<1>2. ASSUME m = "normal", saved # Nil, IsSettings(saved)
      PROVE  Settings' = saved
  <2>1. Write(m) = Diff(saved, props)
    BY <1>2 DEF Write, Want
  <2>2. \A k \in Controlled : dev'[k] = saved[k]
    BY <1>2, <2>1, PropNames DEF Copy, Diff, IsSettings
  <2>3. Settings' = [k \in Prop |-> IF k \in Controlled THEN dev'[k] ELSE Absent]
    BY DEF Settings, Snapshot
  <2>4. \A k \in Prop : Settings'[k] = saved[k]
    BY <1>2, <2>2, <2>3 DEF IsSettings
  <2>5. QED
    BY <1>2, <2>3, <2>4 DEF IsSettings, PropMap
<1>3. QED
  BY <1>1, <1>2

\* Applying a mode keeps the episode invariant.
LEMMA ApplyKeepsEpisode ==
  ASSUME Outcome = {"applied"}, TypeOK, SettingsHeldOutsideNormal, EpisodeInv,
         NEW g \in Speaker, NEW m \in Mode, ApplyBatteryMode(g, m)
  PROVE  EpisodeInv'
<1>1. UNCHANGED fetched
  BY DEF ApplyBatteryMode
<1>2. CASE NothingReported(m)
  <2>1. UNCHANGED <<dev, props, mode, saved, before>>
    BY <1>2 DEF NothingReported, ApplyBatteryMode
  <2>2. QED
    BY <1>1, <2>1 DEF EpisodeInv, Settings
<1>3. CASE WriteFails(m)
  BY <1>3 DEF WriteFails
<1>4. CASE (m = "normal" \/ props # Empty) /\ WriteSucceeds(g, m)
  <2>1. /\ dev' = Copy(dev, Write(m)) /\ props' = Copy(props, Write(m))
        /\ mode' = m
        /\ saved' = IF m = "normal" THEN Nil ELSE Saving(m)
    BY <1>4 DEF WriteSucceeds
  <2>2. CASE before' = Nil
    BY <1>1, <2>1, <2>2 DEF EpisodeInv
  <2>3. CASE before' # Nil
    <3>1. CASE mode = "normal" /\ m # "normal"
      \* The episode begins: what is saved is what the unit has.
      <4>1. before' = Settings /\ InSync
        BY <1>4, <2>3, <3>1 DEF ApplyBatteryMode
      <4>2. saved' = Settings
        BY <2>1, <3>1, <4>1 DEF EpisodeInv, Saving, InSync
      <4>3. \A k \in Controlled : props'[k] = dev'[k]
        BY <2>1, <4>1, SyncPointwise, ApplyRestores
      <4>4. IsSettings(before')
        BY <4>1, SettingsAreSettings
      <4>5. QED
        BY <1>1, <2>1, <3>1, <4>1, <4>2, <4>3, <4>4 DEF EpisodeInv
    <3>2. CASE mode # "normal" \/ m = "normal"
      \* The episode goes on, or ends.
      <4>1. before' = before
        BY <3>2 DEF ApplyBatteryMode
      <4>2. IsSettings(before) /\ \A k \in Controlled : props[k] = dev[k]
        BY <2>3, <4>1 DEF EpisodeInv
      <4>3. \A k \in Controlled : props'[k] = dev'[k]
        BY <2>1, <4>2, ApplyRestores
      <4>4. CASE m # "normal"
        BY <1>1, <2>1, <2>3, <3>2, <4>1, <4>2, <4>3, <4>4
        DEF EpisodeInv, Saving, SettingsHeldOutsideNormal
      <4>5. CASE m = "normal" /\ mode # "normal"
        <5>1. saved = before /\ saved # Nil
          BY <2>3, <4>1, <4>5 DEF EpisodeInv, SettingsHeldOutsideNormal
        <5>2. Settings' = before
          BY <2>1, <4>2, <4>5, <5>1, ApplyRestores
        <5>3. QED
          BY <1>1, <2>1, <4>1, <4>2, <4>3, <4>5, <5>2 DEF EpisodeInv
      <4>6. CASE m = "normal" /\ mode = "normal"
        <5>1. saved = Nil /\ Settings = before
          BY <2>3, <4>1, <4>6 DEF EpisodeInv
        <5>2. Write(m) = Empty
          BY <4>6, <5>1 DEF Write, Want, Diff, Empty
        <5>3. dev' = dev
          BY <2>1, <5>2 DEF Copy, Empty, TypeOK
        <5>4. Settings' = before'
          BY <4>1, <5>1, <5>3 DEF Settings
        <5>5. QED
          BY <1>1, <2>1, <4>1, <4>2, <4>3, <4>6, <5>4 DEF EpisodeInv
      <4>7. QED
        BY <4>4, <4>5, <4>6
    <3>3. QED
      BY <3>1, <3>2
  <2>4. QED
    BY <2>2, <2>3
<1>5. QED
  BY <1>2, <1>3, <1>4 DEF ApplyBatteryMode

\* When every write is applied and no report is overtaken, `normal` leaves the
\* unit exactly as it was before the first hold/charge, however commands, full
\* and partial reports, fallbacks, user changes and restarts interleave.
THEOREM NormalRestoresUnit ==
  ASSUME Outcome = {"applied"}, InFlight = {}
  PROVE  Spec => []NormalRestores
<1>1. Init => EpisodeInv
  BY DEF Init, EpisodeInv
<1>2. TypeOK /\ SettingsHeldOutsideNormal /\ EpisodeInv /\ [Next]_vars => EpisodeInv'
  <2> SUFFICES ASSUME TypeOK, SettingsHeldOutsideNormal, EpisodeInv, [Next]_vars
               PROVE  EpisodeInv'
    OBVIOUS
  <2>1. ASSUME NEW r \in Reader, NEW shape \in ReportShapes, Report(r, shape)
        PROVE  EpisodeInv'
    <3>1. UNCHANGED <<dev, mode, saved, before, fetched>>
      BY <2>1 DEF Report, Merge
    <3>2. \A k \in Prop : props'[k] = props[k] \/ props'[k] = dev[k]
      BY <2>1 DEF Report, Merge, Copy, Reported
    <3>3. QED
      BY <3>1, <3>2, PropNames DEF EpisodeInv, Settings
  <2>2. ASSUME NEW r \in Reader, NEW shape \in ReportShapes, Fetch(r, shape)
        PROVE  EpisodeInv'
    BY <2>2 DEF Fetch
  <2>3. ASSUME NEW r \in Reader, Deliver(r)
        PROVE  EpisodeInv'
    BY <2>3 DEF Deliver, EpisodeInv
  <2>4. ASSUME NEW g \in Speaker, Publish(g)
        PROVE  EpisodeInv'
    BY <2>4 DEF Publish, plane, EpisodeInv, Settings
  <2>5. ASSUME NEW g \in Commander, NEW m \in Mode, Command(g, m)
        PROVE  EpisodeInv'
    BY <2>5, ApplyKeepsEpisode DEF Command, Speaker
  <2>6. CASE Tick
    BY <2>6 DEF Tick, EpisodeInv, Settings
  <2>7. CASE FallbackScan
    BY <2>7 DEF FallbackScan, plane, EpisodeInv, Settings
  <2>8. CASE FallbackApply
    BY <2>8, ApplyKeepsEpisode DEF FallbackApply, Speaker, Mode
  <2>9. ASSUME NEW c \in UserChoice, UserChange(c[1], c[2])
        PROVE  EpisodeInv'
    BY <2>9 DEF UserChange, plane, EpisodeInv
  <2>10. CASE EvccStops
    BY <2>10 DEF EvccStops, plane, EpisodeInv, Settings
  <2>11. CASE Restart
    BY <2>11 DEF Restart, EpisodeInv
  <2>12. CASE UNCHANGED vars
    BY <2>12 DEF vars, EpisodeInv, Settings
  <2>13. QED
    BY <2>1, <2>2, <2>3, <2>4, <2>5, <2>6, <2>7, <2>8, <2>9, <2>10, <2>11,
       <2>12 DEF Next
<1>3. EpisodeInv => NormalRestores
  BY DEF EpisodeInv, NormalRestores
<1>4. QED
  BY <1>1, <1>2, <1>3, TypeCorrect, SettingsHeld, PTL DEF Spec

-----------------------------------------------------------------------------
(***************************************************************************)
(* The same where the unit may refuse writes.                              *)
(*                                                                         *)
(* A refused hold leaves its settings behind in normal, and a later one    *)
(* does not take them anew.  They still are the unit's when nobody else    *)
(* sets it and every report is full, so that what the bridge sees is all   *)
(* true.                                                                   *)
(***************************************************************************)
RefusedInv ==
  /\ \A r \in Reader : fetched[r] = Nil
  /\ props # Empty => \A k \in Controlled : props[k] = dev[k]
  /\ saved # Nil => IsSettings(saved) /\ props # Empty
  /\ mode = "normal" /\ saved # Nil => saved = Settings
  /\ before # Nil =>
       /\ IsSettings(before) /\ props # Empty
       /\ IF mode = "normal" THEN Settings = before ELSE saved = before

\* What the bridge takes for the settings are the unit's.
LEMMA SnapshotIsTrue ==
  ASSUME TypeOK, \A k \in Controlled : props[k] = dev[k]
  PROVE  Snapshot(props) = Settings /\ InSync /\ IsSettings(Settings)
BY SyncPointwise, SettingsAreSettings DEF InSync

\* A picture that is true of a unit is not empty.
LEMMA TrueIsNotEmpty ==
  ASSUME NEW unit \in [Prop -> Value], NEW picture, \A k \in Controlled : picture[k] = unit[k]
  PROVE  picture # Empty
<1>1. "acMode" \in Controlled /\ "acMode" \in Prop
  BY PropNames DEF Controlled
<1>2. picture["acMode"] \in Value
  BY <1>1
<1> QED BY <1>1, <1>2, ValueAssumption DEF Empty

\* A refused write leaves the unit, the picture and the mode.
LEMMA RefusalKeeps ==
  ASSUME Outcome \subseteq {"applied", "refused"}, TypeOK, SettingsHeldOutsideNormal, RefusedInv,
         NEW g \in Speaker, NEW m \in Mode, ApplyBatteryMode(g, m), WriteFails(m),
         m = "normal" \/ props # Empty
  PROVE  RefusedInv'
<1>1. dev' = dev /\ props' = props /\ mode' = mode /\ fetched' = fetched /\ saved' = Saving(m)
  BY DEF WriteFails, ApplyBatteryMode
<1>2. Settings' = Settings
  BY <1>1 DEF Settings
<1>3. CASE m # "normal"
  <2>1. /\ \A k \in Controlled : props[k] = dev[k]
        /\ Snapshot(props) = Settings /\ InSync /\ IsSettings(Settings)
    BY <1>3, SnapshotIsTrue DEF RefusedInv
  <2>2. saved' = IF saved = Nil THEN Settings ELSE saved
    BY <1>1, <1>3, <2>1 DEF Saving
  <2>3. CASE mode = "normal"
    <3>1. before' = Settings /\ saved' = Settings
      BY <1>3, <2>1, <2>2, <2>3 DEF ApplyBatteryMode, RefusedInv
    <3> QED BY <1>1, <1>2, <1>3, <2>1, <2>3, <3>1 DEF RefusedInv
  <2>4. CASE mode # "normal"
    <3>1. before' = before /\ saved' = saved
      BY <2>2, <2>4 DEF ApplyBatteryMode, SettingsHeldOutsideNormal
    <3> QED BY <1>1, <1>2, <2>4, <3>1 DEF RefusedInv
  <2> QED BY <2>3, <2>4
<1>4. CASE m = "normal"
  <2>1. before' = before /\ saved' = saved
    BY <1>1, <1>4 DEF ApplyBatteryMode, Saving
  <2> QED BY <1>1, <1>2, <2>1 DEF RefusedInv
<1> QED BY <1>3, <1>4

\* An applied one that enters or changes a mode.
LEMMA EnteringKeeps ==
  ASSUME Outcome \subseteq {"applied", "refused"}, TypeOK, SettingsHeldOutsideNormal, RefusedInv,
         NEW g \in Speaker, NEW m \in Mode, ApplyBatteryMode(g, m), WriteSucceeds(g, m),
         m # "normal", props # Empty
  PROVE  RefusedInv'
<1>1. /\ dev' = Copy(dev, Write(m)) /\ props' = Copy(props, Write(m))
      /\ mode' = m /\ fetched' = fetched /\ saved' = Saving(m)
  BY DEF WriteSucceeds, ApplyBatteryMode
<1>2. /\ \A k \in Controlled : props[k] = dev[k]
      /\ Snapshot(props) = Settings /\ InSync /\ IsSettings(Settings)
  BY SnapshotIsTrue DEF RefusedInv
<1>3. \A k \in Controlled : props'[k] = dev'[k]
  BY <1>1, <1>2, ApplyRestores
<1>4. dev' \in [Prop -> Value]
  BY <1>1, ApplyTypes DEF TypeOK, WriteSucceeds
<1>5. props' # Empty
  BY <1>3, <1>4, TrueIsNotEmpty
<1>6. saved' = IF saved = Nil THEN Settings ELSE saved
  BY <1>1, <1>2 DEF Saving
<1>7. Settings # Nil
  BY <1>2, BatteryModeAssumption DEF IsSettings
<1>8. CASE mode = "normal"
  <2>1. before' = Settings /\ saved' = Settings
    BY <1>2, <1>6, <1>8 DEF ApplyBatteryMode, RefusedInv
  <2> QED BY <1>1, <1>2, <1>3, <1>5, <2>1 DEF RefusedInv
<1>9. CASE mode # "normal"
  <2>1. before' = before /\ saved' = saved
    BY <1>6, <1>9 DEF ApplyBatteryMode, SettingsHeldOutsideNormal
  <2> QED BY <1>1, <1>3, <1>5, <1>9, <2>1 DEF RefusedInv
<1> QED BY <1>8, <1>9

\* An applied normal: the saved settings are back, or nothing was written.
LEMMA LeavingKeeps ==
  ASSUME Outcome \subseteq {"applied", "refused"}, TypeOK, SettingsHeldOutsideNormal, RefusedInv,
         NEW g \in Speaker, ApplyBatteryMode(g, "normal"), WriteSucceeds(g, "normal")
  PROVE  RefusedInv'
<1>1. /\ dev' = Copy(dev, Write("normal")) /\ props' = Copy(props, Write("normal"))
      /\ mode' = "normal" /\ fetched' = fetched /\ saved' = Nil /\ before' = before
  BY DEF WriteSucceeds, ApplyBatteryMode
<1>2. CASE saved = Nil
  <2>1. Write("normal") = Empty
    BY <1>2 DEF Write, Want, Diff, Empty
  <2>2. dev' = dev /\ props' = props
    BY <1>1, <2>1 DEF Copy, Empty, TypeOK, PropMap
  <2>3. mode = "normal" /\ Settings' = Settings
    BY <1>2, <2>2 DEF SettingsHeldOutsideNormal, Settings
  <2> QED BY <1>1, <2>2, <2>3 DEF RefusedInv
<1>3. CASE saved # Nil
  <2>1. IsSettings(saved) /\ \A k \in Controlled : props[k] = dev[k]
    BY <1>3 DEF RefusedInv
  <2>2. (\A k \in Controlled : props'[k] = dev'[k]) /\ Settings' = saved
    BY <1>1, <1>3, <2>1, ApplyRestores DEF Mode
  <2>3. dev' \in [Prop -> Value]
    BY <1>1, ApplyTypes DEF TypeOK, WriteSucceeds, Mode
  <2>4. props' # Empty
    BY <2>2, <2>3, TrueIsNotEmpty
  <2>5. before # Nil => Settings' = before
    BY <1>3, <2>2 DEF RefusedInv
  <2> QED BY <1>1, <2>2, <2>4, <2>5 DEF RefusedInv
<1> QED BY <1>2, <1>3

LEMMA ApplyKeepsRefused ==
  ASSUME Outcome \subseteq {"applied", "refused"}, TypeOK, SettingsHeldOutsideNormal, RefusedInv,
         NEW g \in Speaker, NEW m \in Mode, ApplyBatteryMode(g, m)
  PROVE  RefusedInv'
<1>1. CASE NothingReported(m)
  BY <1>1 DEF NothingReported, ApplyBatteryMode, RefusedInv, Settings
<1>2. CASE (m = "normal" \/ props # Empty) /\ WriteFails(m)
  BY <1>2, RefusalKeeps
<1>3. CASE (m = "normal" \/ props # Empty) /\ WriteSucceeds(g, m)
  BY <1>3, EnteringKeeps, LeavingKeeps
<1> QED BY <1>1, <1>2, <1>3 DEF ApplyBatteryMode

\* A full report makes the whole picture true.
LEMMA FullReportKeeps ==
  ASSUME TypeOK, RefusedInv, NEW r \in Reader, Report(r, Prop)
  PROVE  RefusedInv'
<1>1. UNCHANGED <<dev, mode, saved, before, fetched>>
  BY DEF Report, Merge
<1>2. \A k \in Prop : props'[k] = dev[k]
  BY ValueAssumption DEF Report, Merge, Copy, Reported, TypeOK
<1>3. \A k \in Controlled : props'[k] = dev'[k]
  BY <1>1, <1>2, PropNames
<1>4. props' # Empty
  BY <1>1, <1>3, TrueIsNotEmpty DEF TypeOK
<1> QED BY <1>1, <1>3, <1>4 DEF RefusedInv, Settings

\* When a write is applied or refused, reports are full and not overtaken, and
\* nobody else sets the unit, `normal` leaves it exactly as it was before the
\* first hold/charge, whatever hold, charge or normal was refused before, and
\* however commands, fallbacks and restarts interleave.
THEOREM NormalRestoresRefused ==
  ASSUME Outcome \subseteq {"applied", "refused"}, InFlight = {}, ReportShapes \subseteq {Prop},
         UserChoice = {}
  PROVE  Spec => []NormalRestores
<1>1. Init => RefusedInv
  BY DEF Init, RefusedInv
<1>2. TypeOK /\ SettingsHeldOutsideNormal /\ RefusedInv /\ [Next]_vars => RefusedInv'
  <2> SUFFICES ASSUME TypeOK, SettingsHeldOutsideNormal, RefusedInv, [Next]_vars
               PROVE  RefusedInv'
    OBVIOUS
  <2>1. ASSUME NEW r \in Reader, NEW shape \in ReportShapes, Report(r, shape)
        PROVE  RefusedInv'
    BY <2>1, FullReportKeeps
  <2>2. ASSUME NEW r \in Reader, NEW shape \in ReportShapes, Fetch(r, shape)
        PROVE  RefusedInv'
    BY <2>2 DEF Fetch
  <2>3. ASSUME NEW r \in Reader, Deliver(r)
        PROVE  RefusedInv'
    BY <2>3 DEF Deliver, RefusedInv
  <2>4. ASSUME NEW g \in Speaker, Publish(g)
        PROVE  RefusedInv'
    BY <2>4 DEF Publish, plane, RefusedInv, Settings
  <2>5. ASSUME NEW g \in Commander, NEW m \in Mode, Command(g, m)
        PROVE  RefusedInv'
    BY <2>5, ApplyKeepsRefused DEF Command, Speaker
  <2>6. CASE Tick
    BY <2>6 DEF Tick, RefusedInv, Settings
  <2>7. CASE FallbackScan
    BY <2>7 DEF FallbackScan, plane, RefusedInv, Settings
  <2>8. CASE FallbackApply
    BY <2>8, ApplyKeepsRefused DEF FallbackApply, Speaker, Mode
  <2>9. ASSUME NEW c \in UserChoice, UserChange(c[1], c[2])
        PROVE  RefusedInv'
    BY <2>9
  <2>10. CASE EvccStops
    BY <2>10 DEF EvccStops, plane, RefusedInv, Settings
  <2>11. CASE Restart
    BY <2>11 DEF Restart, RefusedInv
  <2>12. CASE UNCHANGED vars
    BY <2>12 DEF vars, RefusedInv, Settings
  <2>13. QED
    BY <2>1, <2>2, <2>3, <2>4, <2>5, <2>6, <2>7, <2>8, <2>9, <2>10, <2>11,
       <2>12 DEF Next
<1>3. RefusedInv => NormalRestores
  BY DEF RefusedInv, NormalRestores
<1> QED BY <1>1, <1>2, <1>3, TypeCorrect, SettingsHeld, PTL DEF Spec
=============================================================================
