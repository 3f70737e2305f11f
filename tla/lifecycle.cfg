SPECIFICATION LifecycleFairSpec
CONSTANTS
  None = None
  Device = {d1}
  UnreachableAfter = 2
  LinkMayDrop = TRUE
  StoreMayBeLost = TRUE
INVARIANTS
  LifecycleTypeOK
  RetainedIsCached
  ReconnectIsCurrent
  QuietStopSaysSo
PROPERTIES
  OutputsSettle
  ShutdownEnds
  StartCompletes
