SPECIFICATION Spec
CONSTANTS
  d1 = d1
  d2 = d2
  NoDevice = NoDevice
  NoCommand = NoCommand
  Devices = {d1}
  Commands <- Everything
  Notices <- KeypadAndBoot
  FrameMax = 12
  SendCommandRetry = 0
  SendTimeout = 1
  LongTimeout = 1
  ReceiveTimeout = 0
  ATRetryWait = 1
  TxRetryWait = 1
  MaxJobs = 2
  MaxFrames = 1
INVARIANTS
  OneEntryPerSequence
  AnswerIsFinal
  OutcomeConsistent
