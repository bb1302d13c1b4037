SPECIFICATION LiveCirceSpec
CONSTANTS
  Conn = {c1, c2}
  Names = {n1}
  Unsendable = {}
  NoName = NoName
  NoConn = NoConn
  Garbage = Garbage
  MaxFd = 2
  CtrlC = FALSE
  BufferCap = 1
  QueueSize = 1
  Usernames = {n1}
  NoUsername = NoName
  Interrupts = FALSE
  StdinEnds = FALSE
  Requests <- Drafts
  MaxRequests = 4
CHECK_DEADLOCK FALSE
CONSTRAINT OneTalks
PROPERTIES SendReturns
