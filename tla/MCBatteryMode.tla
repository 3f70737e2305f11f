--------------------------- MODULE MCBatteryMode ---------------------------
(***************************************************************************)
(* A small unit for TLC.  Power limits are 0 or 2, a flag is 0 or 1, and   *)
(* acMode is 1 (input) or 2 (output), so every target value differs from   *)
(* the value the unit starts with.                                         *)
(***************************************************************************)
EXTENDS BatteryMode

MCValue == 0..2

\* Discharging at 2 W, charging limited to 1 W, changes kept in flash.
Discharging ==
  [acMode |-> 2, inputLimit |-> 1, outputLimit |-> 2, smartMode |-> 0,
   chargeMaxLimit |-> 2, electricLevel |-> 1]
MCInitSettings == {Discharging}

\* A local unit reports everything.
FullReport == {Prop}

\* The cloud's reports carry what changed: all of it, or the output side.
CloudReports == {Prop, {"outputLimit", "chargeMaxLimit", "electricLevel"}}

NoUser == {}
OneUserLimit == {<<"outputLimit", 1>>}
=============================================================================
