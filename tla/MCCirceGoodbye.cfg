SPECIFICATION LiveCirceSpec
CONSTANTS
  Conn = {c1}
  Names = {n1, n2}
  Unsendable = {}
  NoName = NoName
  NoConn = NoConn
  Garbage = Garbage
  MaxFd = 2
  CtrlC = TRUE
  BufferCap = 1
  QueueSize = 1
  Usernames = {n1, n2}
  NoUsername = NoName
  Interrupts = TRUE
  StdinEnds = TRUE
  Requests <- Drafts
  MaxRequests = 2
CHECK_DEADLOCK FALSE
PROPERTY GoodbyeMeant
