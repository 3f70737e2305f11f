SPECIFICATION FairSpec
CONSTANTS
  None = None
  Text = Text
  On = "on"
  Off = "off"
  Entry <- MCEntry
  Watts <- MCWatts
  Request <- MCRequest
  ReRead = {"reread"}
  Late = {"poll"}
  Outcome = {"applied", "slow", "refused", "lostReply"}
  InitDev <- MCInitDev
INVARIANTS
  TypeOK
  WrittenStaysInBounds
  SettingTheShownKeepsIt
PROPERTIES
  StatusSettles
