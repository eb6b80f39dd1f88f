SPECIFICATION Spec
CONSTANTS
  WSSServerURL = FALSE
  MaxConnect = 1
  ConnectionTimeout = 2
  BufferSize = 5
  Kinds = {"cmd", "json", "rain", "other", "quit", "mail", "junk", "stray", "unclosed"}
  WebKinds = {"cmd"}
  MaxSessions = 2
  MaxMessages = 3
  MaxPushed = 1
  MaxUnread = 2
INVARIANTS
  NothingLeft

  
