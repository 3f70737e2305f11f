SPECIFICATION FairSpec
CONSTANTS
  Device = {d1, d2}
  Listing = {{}, {d1}, {d1, d2}}
  MaxLoginBackoff = 8
  MaxReconnect = 6
  SubscribeMayFail = FALSE
INVARIANTS
  TypeOK
  WaitFollowsFlaps
  UpstreamAfterDevices
  SubscribedWhileUp
PROPERTIES
  UpstreamFollowsSession
  CancelStops
CHECK_DEADLOCK FALSE
