SPECIFICATION WorldSpec
CONSTANTS
  Conn = {c1, c2}
  Names = {n1, n2}
  Unsendable = {n2}
  NoName = NoName
  NoConn = NoConn
  Garbage = Garbage
  MaxFd = 2
  CtrlC = FALSE
  BufferCap = 1
  QueueSize = 1
  Requests <- AllRequests
  MaxRequests = 3
SYMMETRY ConnSymmetry
CHECK_DEADLOCK FALSE
INVARIANTS IInv DescriptorsNameOwners RegisteredWasIdentified KeyOwnership NoEcho
