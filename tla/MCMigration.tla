---------------------------- MODULE MCMigration ----------------------------
(* A broker that served an old release, this bridge and a sibling under one *)
(* root.                                                                    *)
EXTENDS Migration

MCOldItem ==
  {<<"bridge", "status">>,
   <<"u1", "config", "ac_mode", "state">>, <<"u1", "battery", "p1", "soc", "state">>,
   <<"u2", "config", "ac_mode", "set">>}

MCTopic == MCOldItem \cup
  {<<"sibling", "config", "ac_mode", "state">>,  \* a sibling's unit
   <<"u1", "x", "p1", "soc", "state">>,          \* no group with packs
   <<"u1", "config", "ac_mode", "note">>,        \* no leaf of the old layout
   <<"u1", "battery", "", "soc", "state">>,      \* an empty level
   <<"status", "u1", "config", "state">>}        \* the new layout
=============================================================================
