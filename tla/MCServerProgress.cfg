SPECIFICATION LiveSpec
CONSTANTS
  Conn = {c1, c2}
  Names = {n1, n2}
  Unsendable = {}
  NoName = NoName
  NoConn = NoConn
  Garbage = Garbage
  MaxFd = 2
  CtrlC = TRUE
  BufferCap = 1
  QueueSize = 0
  Requests <- LiveRequests
  MaxRequests = 2
CHECK_DEADLOCK FALSE
CONSTRAINT CtrlCEarly
PROPERTIES ConnectionAccepted HandlerReturns HandlersAdvance DepartedListenerEnds
