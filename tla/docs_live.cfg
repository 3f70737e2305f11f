SPECIFICATION FairSpec
CONSTANTS
  None = None
  Doc <- MCDoc
  Unit = "unit"
  Id <- MCId
  Shape <- FullOrShrunken
  Reporter = {poll}
  Late = {}
  InitRetained <- OnUpgrade
  LinkMayDrop = TRUE
  StoreMayBeLost = TRUE
INVARIANTS
  TypeOK
  MarkedIsDeclared
PROPERTIES
  LiveDocsStay
