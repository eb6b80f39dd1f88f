SPECIFICATION FairSpec
CONSTANTS
  d1 = d1
  d2 = d2
  NoDevice = NoDevice
  Devices = {d1, d2}
  Pages = 2
  FlowCtrl = FALSE
  ErrorReplies = FALSE
  MaxChains = 1
  MaxUpdates = 1
  MaxRestarts = 1
INVARIANTS
  PartialIsAttended
PROPERTIES
  LineIsFreed
