SPECIFICATION FairSpec
CONSTANTS
  None = None
  Doc <- MCDocAndGhost
  Unit = "unit"
  Id <- MCId
  Shape <- OnlyFull
  Reporter = {poll}
  Late = {"hook"}
  InitRetained <- EitherStart
  LinkMayDrop = TRUE
  StoreMayBeLost = FALSE
PROPERTIES
  NoConflictStays
  GhostsGo
