------------------------ MODULE BatteryModeContract ------------------------
(***************************************************************************)
(* What the battery mode plane promises for one unit, with no unit, no     *)
(* report in flight, no failed write and no clock: a picture of the unit,  *)
(* the mode it is in, and the settings to give back.                       *)
(*                                                                         *)
(* The settings are taken once, from the picture, no later than the first  *)
(* hold/charge; while they are held nothing but giving them back (or a     *)
(* restart, which forgets them) can touch them; a mode is entered with its *)
(* whole target in the picture, and left with all the settings back in it. *)
(***************************************************************************)
EXTENDS EvccProfile

CONSTANT Nil    \* no settings are held

VARIABLES
  picture,      \* the unit's properties as the bridge knows them
  mode,         \* the battery mode last applied
  restore       \* the settings `normal` gives back, or Nil

vars == <<picture, mode, restore>>

Init ==
  /\ picture = Empty
  /\ mode = "normal"
  /\ restore = Nil

\* The picture changes with what the unit reports.
Learn ==
  /\ picture' \in PropMap
  /\ UNCHANGED <<mode, restore>>

Held == IF restore = Nil THEN Snapshot(picture) ELSE restore

\* A hold/charge the unit did not take still takes the settings.
Save ==
  /\ restore' = Held
  /\ UNCHANGED <<picture, mode>>

Enter(m) ==
  /\ restore' = Held
  /\ picture' = Copy(picture, Target(m, picture))
  /\ mode' = m

Leave ==
  /\ picture' = IF restore = Nil THEN picture ELSE Copy(picture, restore)
  /\ mode' = "normal"
  /\ restore' = Nil

\* A restart of the bridge.
Forget ==
  /\ picture' = Empty
  /\ mode' = "normal"
  /\ restore' = Nil

Next ==
  \/ Learn
  \/ Save
  \/ \E m \in Mode \ {"normal"} : Enter(m)
  \/ Leave
  \/ Forget

Spec == Init /\ [][Next]_vars
=============================================================================
