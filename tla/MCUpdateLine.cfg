SPECIFICATION Spec
CONSTANTS
  d1 = d1
  d2 = d2
  NoDevice = NoDevice
  Devices = {d1, d2}
  Pages = 2
  FlowCtrl = FALSE
  ErrorReplies = TRUE
  MaxChains = 2
  MaxUpdates = 1
  MaxRestarts = 1
SYMMETRY DeviceSymmetry
INVARIANTS
  OneUpdateAtATime
  PartialIsNotDone
  RebootsWholeImage
