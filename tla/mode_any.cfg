SPECIFICATION Spec
CONSTANTS
  Value <- MCValue
  Absent = Absent
  Nil = Nil
  InitSettings <- MCInitSettings
  Reader = {poll}
  InFlight = {poll}
  Commander = {mqtt}
  Late = {}
  ReportShapes <- CloudReports
  Outcome = {"applied", "refused", "lostReply", "lostWrite"}
  UserChoice <- OneUserLimit
  Timeout = 1
  MayRestart = TRUE
  ChargeW = 1
INVARIANTS
  TypeOK
PROPERTIES
  SettingsKeptUntilRestored
  EnteredModeNeedsNoWrite
  KeepsContract
