----------------------------- MODULE MCSetPath -----------------------------
(* Values for model checking SetPath: a scaled number with bounds, an enum, *)
(* not wholly translated, and the switches over both.                       *)
EXTENDS SetPath, TLC

MCEntry ==
  [soc_set |-> [prop |-> "socSet", scale |-> 10, min |-> 700, max |-> 1000],
   ac_mode |-> [prop |-> "acMode", token |-> (1 :> "charge" @@ 2 :> "discharge"),
               german |-> (1 :> "Laden")]]

MCWatts == [charge_active |-> 1, discharge_active |-> 1]

\* A number above its bounds, a number between two codes, a label, the switch,
\* and what is refused or is no value of the unit's.
MCRequest ==
  {<<"soc_set", [number |-> 2000]>>, <<"ac_mode", [number |-> 14]>>,
   <<"ac_mode", [word |-> "Laden"]>>,
   <<"charge_active", [word |-> On]>>, <<"discharge_active", [word |-> Off]>>,
   <<"soc_set", [word |-> Text]>>,
   <<"soc_set", [structured |-> TRUE]>>, <<"pack_count", [word |-> On]>>}

MCInitDev ==
  {[smartMode |-> 0, acMode |-> 2, inputLimit |-> 0, outputLimit |-> 1, socSet |-> 950]}
=============================================================================
