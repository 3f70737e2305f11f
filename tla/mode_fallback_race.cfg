SPECIFICATION Spec
CONSTANTS
  Value <- MCValue
  Absent = Absent
  Nil = Nil
  InitSettings <- MCInitSettings
  Reader = {poll}
  InFlight = {}
  Commander = {mqtt}
  Late = {}
  ReportShapes <- FullReport
  Outcome = {"applied"}
  UserChoice <- NoUser
  Timeout = 2
  MayRestart = FALSE
  ChargeW = 1
PROPERTIES
  FallbackOnlyAfterSilence
