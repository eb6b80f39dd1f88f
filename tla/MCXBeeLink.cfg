SPECIFICATION Spec
CONSTANTS
  BufferSize = 8
  MaxLength = 7
  Payloads <- Frames
  MaxSent = 2
  MaxLost = 2
  Nothing = Nothing
INVARIANTS
  FrameFits
  IntactArrive
  HonestFrames
CHECK_DEADLOCK FALSE
