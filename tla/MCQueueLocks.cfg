SPECIFICATION FairSpec
CONSTANTS
  d1 = d1
  d2 = d2
  NoDevice = NoDevice
  NoCommand = NoCommand
  Devices = {d1}
  Commands <- WithRetries
  Notices <- Silent
  FrameMax = 12
  SendCommandRetry = 1
  SendTimeout = 1
  LongTimeout = 2
  ReceiveTimeout = 0
  ATRetryWait = 1
  TxRetryWait = 1
  MaxJobs = 2
  MaxFrames = 2
INVARIANTS
  LockHeldByStarted
  NoLockLeak
  NoSilentDrop
  PairsOwnAttempt
PROPERTIES
  EveryCommandEnds
