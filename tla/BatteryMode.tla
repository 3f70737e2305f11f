---------------------------- MODULE BatteryMode ----------------------------
(***************************************************************************)
(* The evcc battery mode plane of one unit (internal/coordinator/evcc.go)  *)
(* between the unit, the goroutines that read it, evcc's commands and the  *)
(* fallback.  evccPlane keeps an entry per serial and no step touches two  *)
(* entries, so one unit is the whole plane.                                *)
(*                                                                         *)
(* Everything the code does under evccPlane.mu is one step: a report is    *)
(* merged, or a mode is applied, write included.  What it does outside mu  *)
(* is a step of its own: fetching a report, publishing the mode read under *)
(* mu, deciding which units are stale.                                     *)
(***************************************************************************)
EXTENDS EvccProfile

CONSTANTS
  Nil,            \* nil map; also: nothing fetched, nothing to publish
  Reader,         \* goroutines that fetch reports: the poll loop, a re-read
  InFlight,       \* readers whose report can be overtaken before it is merged
  Commander,      \* goroutines that apply a command: MQTT handler, web UI
  Late,           \* goroutines whose publication can be overtaken
  ReportShapes,   \* which properties a report can carry
  Outcome,        \* what Backend.Write can come to
  InitSettings,   \* properties the unit may start with
  UserChoice,     \* <<k, v>>: what the user may set beside evcc
  Timeout,        \* EVCC_BATTERYMODE_TIMEOUT in ticks, 0 = off
  MayRestart      \* whether the bridge may restart

\* applied    the unit took the write and the call returned nil
\* refused    the unit did not, and the call returned an error
\* lostReply  the unit took it, and the call returned an error (a timeout)
\* lostWrite  the call returned nil, and the unit never got it: the cloud
\*            backend publishes at QoS 0 and waits for no answer
AllOutcomes == {"applied", "refused", "lostReply", "lostWrite"}

\* Whoever publishes a mode after releasing mu.
Speaker == Reader \cup Commander \cup {"fallback"}

ASSUME BatteryModeAssumption ==
  /\ Nil \notin PropMap /\ Nil \notin Mode
  /\ InFlight \subseteq Reader
  /\ Late \subseteq Speaker
  /\ ReportShapes \subseteq SUBSET Prop
  /\ {"applied"} \subseteq Outcome /\ Outcome \subseteq AllOutcomes
  /\ InitSettings \subseteq [Prop -> Value]
  /\ UserChoice \subseteq Controlled \X Value
  /\ Timeout \in Nat
  /\ MayRestart \in BOOLEAN

VARIABLES
  dev,       \* the unit's properties
  props,     \* evccUnit.props
  mode,      \* evccUnit.mode
  saved,     \* evccUnit.saved
  age,       \* now - evccUnit.lastCmd in ticks, capped at Timeout
  stale,     \* the fallback has put the unit on its list of stale units
  fetched,   \* fetched[r]: the report reader r has yet to merge, or Nil
  speaking,  \* speaking[g]: the mode g read under mu and has yet to publish
  status,    \* the retained evcc/battery/batterymode status, or Nil
  silent,    \* evcc stopped sending
  before     \* history: the settings at the first hold/charge out of normal,
             \* while the bridge saw them rightly and nobody else set any

vars == <<dev, props, mode, saved, age, stale, fetched, speaking, status,
          silent, before>>
plane == <<props, mode, saved, age>>

Settings == Snapshot(dev)
InSync == Snapshot(props) = Settings

TypeOK ==
  /\ dev \in [Prop -> Value]
  /\ props \in PropMap
  /\ mode \in Mode
  /\ saved \in PropMap \cup {Nil}
  /\ age \in 0..Timeout
  /\ stale \in BOOLEAN
  /\ fetched \in [Reader -> PropMap \cup {Nil}]
  /\ speaking \in [Speaker -> Mode \cup {Nil}]
  /\ status \in Mode \cup {Nil}
  /\ silent \in BOOLEAN
  /\ before \in PropMap \cup {Nil}

Init ==
  /\ dev \in InitSettings
  /\ props = Empty
  /\ mode = "normal"
  /\ saved = Nil
  /\ age = 0
  /\ stale = FALSE
  /\ fetched = [r \in Reader |-> Nil]
  /\ speaking = [g \in Speaker |-> Nil]
  /\ status = Nil
  /\ silent = FALSE
  /\ before = Nil

-----------------------------------------------------------------------------
(***************************************************************************)
(* Publishing the mode m that g read under mu, after releasing mu: a       *)
(* goroutine that is not Late does so before anyone else takes a step.     *)
(***************************************************************************)
Speak(g, m) ==
  IF g \in Late
  THEN /\ speaking' = [speaking EXCEPT ![g] = m]
       /\ UNCHANGED status
  ELSE /\ status' = m
       /\ UNCHANGED speaking

Publish(g) ==
  /\ speaking[g] # Nil
  /\ status' = speaking[g]
  /\ speaking' = [speaking EXCEPT ![g] = Nil]
  /\ UNCHANGED <<dev, plane, stale, fetched, silent, before>>

-----------------------------------------------------------------------------
(***************************************************************************)
(* Reports: publishEVCC merges one under mu and publishes after it.        *)
(***************************************************************************)
Idle(r) == fetched[r] = Nil /\ speaking[r] = Nil

Reported(shape) == [k \in Prop |-> IF k \in shape THEN dev[k] ELSE Absent]

\* Faulty: the mode is not published with the report.
MergeSilently(r, report) ==
  /\ props' = Copy(props, report)
  /\ UNCHANGED <<dev, mode, saved, age, stale, speaking, status, silent, before>>

Merge(r, report) ==
  /\ props' = Copy(props, report)
  /\ Speak(r, mode)
  /\ UNCHANGED <<dev, mode, saved, age, stale, silent, before>>

\* A report nothing overtakes: fetched and merged in one step.
Report(r, shape) ==
  /\ Idle(r)
  /\ Merge(r, Reported(shape))
  /\ UNCHANGED fetched

Fetch(r, shape) ==
  /\ r \in InFlight
  /\ Idle(r)
  /\ fetched' = [fetched EXCEPT ![r] = Reported(shape)]
  /\ UNCHANGED <<dev, plane, stale, speaking, status, silent, before>>

Deliver(r) ==
  /\ fetched[r] # Nil
  /\ Merge(r, fetched[r])
  /\ fetched' = [fetched EXCEPT ![r] = Nil]

-----------------------------------------------------------------------------
(***************************************************************************)
(* applyBatteryMode by goroutine g.                                        *)
(***************************************************************************)
Want(m) == IF m # "normal" THEN Target(m, props)
           ELSE IF saved = Nil THEN Empty ELSE saved

Write(m) == Diff(Want(m), props)

\* Faulty: every hold/charge takes the settings anew.
SavingEveryTime(m) == IF m # "normal" THEN Snapshot(props) ELSE saved

\* The settings held once a mode other than normal was asked for.
Saving(m) == IF m # "normal" /\ saved = Nil THEN Snapshot(props) ELSE saved

\* errNoReport: there is nothing to save yet.
NothingReported(m) ==
  /\ m # "normal" /\ props = Empty
  /\ UNCHANGED <<dev, props, mode, saved, speaking, status>>

\* Faulty: a failed write drops the settings.
WriteFailsForgetting(m) ==
  /\ Write(m) # Empty
  /\ \E o \in Outcome \cap {"refused", "lostReply"} :
       dev' = IF o = "lostReply" THEN Copy(dev, Write(m)) ELSE dev
  /\ saved' = Nil
  /\ UNCHANGED <<props, mode, speaking, status>>

\* The write fails: what was saved for it stays.
WriteFails(m) ==
  /\ Write(m) # Empty
  /\ \E o \in Outcome \cap {"refused", "lostReply"} :
       dev' = IF o = "lostReply" THEN Copy(dev, Write(m)) ELSE dev
  /\ saved' = Saving(m)
  /\ UNCHANGED <<props, mode, speaking, status>>

\* Faulty: the picture is left to the re-read.
WriteSucceedsUnseen(g, m) ==
  /\ \E o \in Outcome \cap {"applied", "lostWrite"} :
       dev' = IF o = "applied" THEN Copy(dev, Write(m)) ELSE dev
  /\ mode' = m
  /\ saved' = IF m = "normal" THEN Nil ELSE Saving(m)
  /\ Speak(g, m)
  /\ UNCHANGED props

WriteSucceeds(g, m) ==
  /\ \E o \in Outcome \cap {"applied", "lostWrite"} :
       dev' = IF o = "applied" THEN Copy(dev, Write(m)) ELSE dev
  /\ props' = Copy(props, Write(m))
  /\ mode' = m
  /\ saved' = IF m = "normal" THEN Nil ELSE Saving(m)
  /\ Speak(g, m)

ApplyBatteryMode(g, m) ==
  /\ speaking[g] = Nil
  /\ age' = 0
  /\ \/ NothingReported(m)
     \/ /\ m = "normal" \/ props # Empty
        /\ WriteFails(m) \/ WriteSucceeds(g, m)
  /\ before' = IF mode = "normal" /\ m # "normal" /\ props # Empty
               THEN IF InSync THEN Settings ELSE Nil
               ELSE before
  /\ UNCHANGED <<fetched, silent>>

Command(g, m) ==
  /\ ~silent
  /\ ApplyBatteryMode(g, m)
  /\ UNCHANGED stale

-----------------------------------------------------------------------------
(***************************************************************************)
(* The fallback: evccFallback lists the stale units under mu, and applies  *)
(* normal to each after releasing it.                                      *)
(***************************************************************************)
Tick ==
  /\ age < Timeout
  /\ age' = age + 1
  /\ UNCHANGED <<dev, props, mode, saved, stale, fetched, speaking, status,
                 silent, before>>

\* Faulty: only a hold locks a battery.
FallbackScanHold ==
  /\ Timeout > 0
  /\ ~stale /\ speaking["fallback"] = Nil
  /\ mode = "hold" /\ age >= Timeout
  /\ stale' = TRUE
  /\ UNCHANGED <<dev, plane, fetched, speaking, status, silent, before>>

FallbackScan ==
  /\ Timeout > 0
  /\ ~stale /\ speaking["fallback"] = Nil
  /\ mode # "normal" /\ age >= Timeout
  /\ stale' = TRUE
  /\ UNCHANGED <<dev, plane, fetched, speaking, status, silent, before>>

FallbackApply ==
  /\ stale
  /\ ApplyBatteryMode("fallback", "normal")
  /\ stale' = FALSE

-----------------------------------------------------------------------------
(***************************************************************************)
(* The world around the plane.                                             *)
(***************************************************************************)
\* The Zendure app, a button, or a `set` of one property through the bridge,
\* which writes past the plane.
UserChange(k, v) ==
  /\ dev[k] # v
  /\ dev' = [dev EXCEPT ![k] = v]
  /\ before' = Nil
  /\ UNCHANGED <<plane, stale, fetched, speaking, status, silent>>

EvccStops ==
  /\ ~silent
  /\ silent' = TRUE
  /\ UNCHANGED <<dev, plane, stale, fetched, speaking, status, before>>

\* The plane is in memory only; the status is retained by the broker.
Restart ==
  /\ MayRestart
  /\ props' = Empty
  /\ mode' = "normal"
  /\ saved' = Nil
  /\ age' = 0
  /\ stale' = FALSE
  /\ fetched' = [r \in Reader |-> Nil]
  /\ speaking' = [g \in Speaker |-> Nil]
  /\ before' = Nil
  /\ UNCHANGED <<dev, status, silent>>

Next ==
  \/ \E r \in Reader, shape \in ReportShapes : Report(r, shape)
  \/ \E r \in Reader, shape \in ReportShapes : Fetch(r, shape)
  \/ \E r \in Reader : Deliver(r)
  \/ \E g \in Speaker : Publish(g)
  \/ \E g \in Commander, m \in Mode : Command(g, m)
  \/ Tick
  \/ FallbackScan
  \/ FallbackApply
  \/ \E c \in UserChoice : UserChange(c[1], c[2])
  \/ EvccStops
  \/ Restart

Spec == Init /\ [][Next]_vars

(***************************************************************************)
(* Fairness.  The poll loop reads on a ticker, a goroutine that released   *)
(* mu goes on to publish, and runEVCCFallback checks on a ticker.  That    *)
(* a unit asked again and again takes the write now and then is an         *)
(* assumption about the unit, not about the bridge.                        *)
(***************************************************************************)
FallbackSucceeds == FallbackApply /\ mode' = "normal"

Fairness ==
  /\ \A r \in Reader :
       /\ WF_vars(\E shape \in ReportShapes : Report(r, shape))
       /\ WF_vars(Deliver(r))
  /\ \A g \in Speaker : WF_vars(Publish(g))
  /\ WF_vars(Tick)
  /\ WF_vars(FallbackScan)
  /\ WF_vars(FallbackApply)
  /\ SF_vars(FallbackSucceeds)

FairSpec == Spec /\ Fairness

-----------------------------------------------------------------------------
(***************************************************************************)
(* What holds whatever the unit, the network and the user do.              *)
(***************************************************************************)
\* While the unit is in hold or charge the bridge holds settings to give back:
\* no order of commands, failures, fallbacks and restarts strands a mode with
\* nothing to restore (evccUnit.saved, evcc.go:51-53).
SettingsHeldOutsideNormal == mode # "normal" => saved # Nil

\* Settings, once taken, are never taken again over hold/charge values: they
\* change only by being given up, and then either the bridge's picture shows
\* every one of them back in place or the bridge restarted and knows nothing.
SettingsKeptUntilRestored ==
  [][saved # Nil /\ saved' # saved =>
       /\ saved' = Nil /\ mode' = "normal"
       /\ props' = Empty \/ \A k \in Prop : saved[k] \in {Absent, props'[k]}]_vars

\* A step that enters hold or charge leaves a picture in which the same mode,
\* sent again before any report, costs no write (evcc.go:200-202,
\* docs/evcc.md:52).
EnteredModeNeedsNoWrite ==
  [][mode' # mode /\ mode' # "normal" =>
       Diff(Target(mode', props'), props') = Empty]_vars

\* The plane keeps the contract of BatteryModeContract.
Contract == INSTANCE BatteryModeContract WITH picture <- props, restore <- saved
KeepsContract == Contract!Spec

-----------------------------------------------------------------------------
(***************************************************************************)
(* What holds in the runs whose cfg grants what it needs.                  *)
(***************************************************************************)
\* `normal` leaves the unit's acMode, inputLimit, outputLimit and smartMode
\* exactly as they were before the first hold/charge (docs/evcc.md:45,
\* evcc.go:25-27), for every episode that began with a true picture and in
\* which nobody else set the unit.
NormalRestores == mode = "normal" /\ before # Nil => Settings = before

\* An evcc that stopped does not leave a battery locked (evcc.go:225-227):
\* once it is silent, a unit whose settings differ from those before the first
\* hold/charge gets them back.
Locked == before # Nil /\ Settings # before
SilentEvccReleases == silent /\ Locked ~> ~Locked

\* The published battery mode comes to be the mode the bridge last applied
\* (docs/evcc.md, status table): publishEVCC and applyBatteryMode publish after
\* releasing mu, so a stale mode may overtake, but once the mode stays the next
\* report's publication puts it right for good.
StatusFollowsMode == \A m \in Mode : <>[](mode = m) => <>[](status = m)

\* The fallback ends a hold/charge only when evcc has not sent a mode for
\* EVCC_BATTERYMODE_TIMEOUT (evcc.go:225-227).
FallbackOnlyAfterSilence ==
  [][stale /\ ~stale' /\ mode # "normal" /\ mode' = "normal" => age >= Timeout]_vars
=============================================================================
