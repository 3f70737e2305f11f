SPECIFICATION FairSpec
CONSTANTS
  None = None
  Writer = {w1, w2}
  Watcher = {browser}
  Value = {1}
  MaxProblems = 1
  MaxStamp = 2
INVARIANTS
  TypeOK
  NoLostChange
PROPERTIES
  ViewSettles
