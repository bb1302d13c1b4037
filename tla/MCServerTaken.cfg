SPECIFICATION WorldSpec
CONSTANTS
  Conn = {c1, c2}
  Names = {n1, n2}
  Unsendable = {}
  NoName = NoName
  NoConn = NoConn
  Garbage = Garbage
  MaxFd = 2
  CtrlC = FALSE
  BufferCap = 1
  QueueSize = 1
  Requests <- NameRequests
  MaxRequests = 2
SYMMETRY Symmetry
CHECK_DEADLOCK FALSE
CONSTRAINT UntilRaced
PROPERTIES TakenNameRefused
