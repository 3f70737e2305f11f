SPECIFICATION Spec
CONSTANTS
  None = None
  Piece <- MCPiece
  Instance = {"unset", "explicit"}
  Setting <- MCSetting
  Serial <- MCSerial
  Pack <- MCPack
  Reported <- MCReported
  UnitLeaf = {"soc"}
  PackLeaf = {"soc"}
  OldLeaf = {"soh"}
  Foreign <- MCForeign
  Legacy = {"nothing", "entities", "documents", "current"}
  MayRestart = TRUE
INVARIANTS
  TypeOK
  GhostsGone
  OneIdentity
PROPERTIES
  OnlyOwnCleared
