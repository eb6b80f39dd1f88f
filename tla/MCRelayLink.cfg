SPECIFICATION FairSpec
CONSTANTS
  WSSServerURL = TRUE
  MaxConnect = 2
  ConnectionTimeout = 2
  BufferSize = 3
  Kinds = {"cmd", "json"}
  WebKinds = {"cmd"}
  MaxSessions = 2
  MaxMessages = 1
  MaxPushed = 1
  MaxUnread = 1
INVARIANTS
  TypeOK
  DescriptorsAgree
PROPERTIES
  AnswersGoHome
  HandshakeEnds
  RelayIsTold
  GoneAreDropped
