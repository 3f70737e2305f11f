----------------------------- MODULE MCInstances -----------------------------
(***************************************************************************)
(* A bridge that never set its name (identities under zendure2mqtt) and    *)
(* one that set zendure2mqtt and reads a unit whose serial begins with the *)
(* other's.  Beside them stand configs of others: an integration's         *)
(* document in the namespace of S1's packs, the document of a bridge named *)
(* zendure2mqtt_garage that reads S1 too, and an entity of one named       *)
(* zendure2mqtt/garage.                                                    *)
(***************************************************************************)
EXTENDS Instances

MCPiece == {"_", "/", "pack", "zendure", "2mqtt", "garage", "z2m", "S1", "2", "P1", "P", "1", "X", "soc", "soh"}
MCSetting == [unset |-> None, explicit |-> <<"zendure", "2mqtt">>]
MCSerial == [unset |-> {<<"S1">>}, explicit |-> {<<"S1", "2">>}]
MCPack == {<<"P1">>, <<"P", "/", "1">>}
MCReported == {{}, MCPack}

Other(form, id, uid, root) ==
  [form |-> form, id |-> id, by |-> "other", sn |-> <<>>, old |-> FALSE,
   ents |-> {[uid |-> uid, state |-> root \o <<"/">>, pack |-> <<>>, leaf |-> "soc"]}]
S1Of(name) == name \o <<"_", "S1">>
SocOf(name) == S1Of(name) \o <<"_", "soc">>
Garage(sep) == <<"zendure", "2mqtt", sep, "garage">>

MCForeign ==
  {Other("document", S1Of(<<"zendure", "2mqtt">>) \o <<"_", "pack", "_", "X">>, <<"z2m", "_", "soc">>, <<"z2m">>),
   Other("document", S1Of(Garage("_")), SocOf(Garage("_")), Garage("_")),
   Other("entity", SocOf(Garage("/")), SocOf(Garage("/")), Garage("/"))}

\* They are a fleet whose bridges can tell their configs apart.
ASSUME Apart == PlainSerials /\ NamesApart /\ OthersApart

\* Two bridges with nothing left of before, for the sessions alone.
MCSilent == {"nothing"}
=============================================================================
