SPECIFICATION FairSpec
CONSTANTS
  Topic <- MCTopic
  OldItem <- MCOldItem
  Unit = {"u1", "u2"}
  Function = {"status", "set"}
  LinkMayDrop = TRUE
  DropInWindow = FALSE
  LoseWrites = FALSE
  MayRestart = TRUE
INVARIANTS
  TypeOK
  ForeignStays
  DoneIsClean
PROPERTIES
  OldLayoutGoes
