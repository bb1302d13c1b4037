SPECIFICATION CirceSpec
CONSTANTS
  Conn = {c1, c2}
  Names = {n1, n2}
  Unsendable = {}
  NoName = NoName
  NoConn = NoConn
  Garbage = Garbage
  MaxFd = 2
  CtrlC = FALSE
  BufferCap = 1
  QueueSize = 1
  Usernames = {n1, n2}
  NoUsername = NoName
  Interrupts = FALSE
  StdinEnds = FALSE
  Requests <- Drafts
  MaxRequests = 3
SYMMETRY Symmetry
CHECK_DEADLOCK FALSE
CONSTRAINT UntilRaced
INVARIANT DisconnectRemovesUser
