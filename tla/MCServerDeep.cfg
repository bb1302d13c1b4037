SPECIFICATION WorldSpec
CONSTANTS
  Conn = {c1, c2}
  Names = {n1, n2}
  Unsendable = {}
  NoName = NoName
  NoConn = NoConn
  Garbage = Garbage
  MaxFd = 2
  CtrlC = FALSE
  BufferCap = 2
  QueueSize = 1
  Requests <- DeepRequests
  MaxRequests = 4
SYMMETRY Symmetry
CHECK_DEADLOCK FALSE
CONSTRAINT UntilRaced
INVARIANT BroadcastInv
PROPERTIES ImplementsRegistry InOrder BroadcastReachesAll
