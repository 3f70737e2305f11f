SPECIFICATION FairSpec
CONSTANTS
  None = None
  Piece <- MCPiece
  Instance = {"unset", "explicit"}
  Setting <- MCSetting
  Serial <- MCSerial
  Pack <- MCPack
  Reported <- MCReported
  UnitLeaf = {"soc"}
  PackLeaf = {"soc"}
  OldLeaf = {"soh"}
  Foreign <- MCForeign
  Legacy <- MCSilent
  MayRestart = FALSE
PROPERTIES
  NamesKeepApart
