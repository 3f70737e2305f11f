SPECIFICATION FairSpec
CONSTANTS
  Value <- MCValue
  Absent = Absent
  Nil = Nil
  InitSettings <- MCInitSettings
  Reader = {poll}
  InFlight = {}
  Commander = {mqtt}
  Late = {poll, mqtt}
  ReportShapes <- FullReport
  Outcome = {"applied", "refused"}
  UserChoice <- NoUser
  Timeout = 2
  MayRestart = FALSE
  ChargeW = 1
INVARIANTS
  NormalRestores
PROPERTIES
  SilentEvccReleases
  StatusFollowsMode
