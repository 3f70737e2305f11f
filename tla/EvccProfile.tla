---------------------------- MODULE EvccProfile ----------------------------
(***************************************************************************)
(* The pure half of the evcc profile (internal/evcc/evcc.go): what a       *)
(* battery mode asks of a unit, what is saved before it, and what has to   *)
(* be written.                                                             *)
(*                                                                         *)
(* A Go map[string]any of raw properties is a total function on Prop whose *)
(* value is Absent where the map has no (numeric) entry, so the empty map  *)
(* is Empty.  A nil map, which the code tells apart from an empty one only *)
(* for evccUnit.saved, is the value Nil of BatteryMode.                    *)
(***************************************************************************)
EXTENDS Integers

CONSTANTS
  Value,    \* the values a property can have
  Absent,   \* a property that is not in a map
  ChargeW   \* CHARGE_ACTIVE_VALUE: the input limit `charge` falls back to

ASSUME ValueAssumption ==
  /\ Value \subseteq Nat
  /\ {0, 1, ChargeW} \subseteq Value
  /\ Absent \notin Value

Mode == {"normal", "hold", "charge"}

\* The properties a mode may write, which are those `normal` restores.
Controlled == {"acMode", "inputLimit", "outputLimit", "smartMode"}

\* chargeMaxLimit is read by `charge` alone; electricLevel stands for all the
\* telemetry of a report that no mode reads or writes.
Prop == Controlled \cup {"chargeMaxLimit", "electricLevel"}

PropMap == [Prop -> Value \cup {Absent}]

Empty == [k \in Prop |-> Absent]

\* maps.Copy(into, from)
Copy(into, from) ==
  [k \in Prop |-> IF from[k] = Absent THEN into[k] ELSE from[k]]

\* Faulty: asks for more than the unit's chargeMaxLimit.
ChargeLimitOverMax(props) ==
  IF props["chargeMaxLimit"] \in {Absent, 0} THEN ChargeW
                                             ELSE props["chargeMaxLimit"] + 1

\* chargeMaxLimit, unless the unit reports none or zero.
ChargeLimit(props) ==
  IF props["chargeMaxLimit"] \in {Absent, 0} THEN ChargeW
                                             ELSE props["chargeMaxLimit"]

HoldTarget == [Empty EXCEPT !["smartMode"] = 1, !["outputLimit"] = 0]

ChargeTarget(props) ==
  [HoldTarget EXCEPT !["acMode"] = 1, !["inputLimit"] = ChargeLimit(props)]

Target(m, props) ==
  IF m = "hold" THEN HoldTarget
  ELSE IF m = "charge" THEN ChargeTarget(props)
  ELSE Empty

Snapshot(props) == [k \in Prop |-> IF k \in Controlled THEN props[k] ELSE Absent]

Diff(want, props) ==
  [k \in Prop |-> IF want[k] = props[k] THEN Absent ELSE want[k]]
=============================================================================
