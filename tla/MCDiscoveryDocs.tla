-------------------------- MODULE MCDiscoveryDocs --------------------------
(***************************************************************************)
(* A unit with one pack, and a document a past release left ("ghost").  A  *)
(* report carries the pack or has dropped it.                              *)
(***************************************************************************)
EXTENDS DiscoveryDocs

MCDoc == {"unit", "pack"}
MCDocAndGhost == {"unit", "pack", "ghost"}
MCId == {"soc", "limit", "packSoc"}

Document(unit, pack, ghost) ==
  [d \in Doc |-> CASE d = "unit" -> unit [] d = "pack" -> pack [] OTHER -> ghost]

Full == Document({"soc", "limit"}, {"packSoc"}, {})
Shrunken == Document({"soc", "limit"}, {}, {})
OnlyFull == {Full}
FullOrShrunken == {Full, Shrunken}

FirstStart == Document({}, {}, {})
AfterUpgrade == Document({"soc", "limit"}, {"packSoc"}, {"soc"})
OnFirstStart == {FirstStart}
OnUpgrade == {AfterUpgrade}
EitherStart == {FirstStart, AfterUpgrade}
=============================================================================
