SPECIFICATION SocketSpec
CONSTANTS
  Servers = {s1, s2}
  Clients = {c1, c2}
  AnyIp = AnyIp
  LoopbackIp = LoopbackIp
  p1 = p1
  p2 = p2
  elsewhere = elsewhere
  Addresses <- SomeAddresses
  Assignable <- AssignableAddresses
  reuse_address = TRUE
  MaxStarts = 4
CHECK_DEADLOCK FALSE
INVARIANTS ServesAlone SocketInv
PROPERTIES StartedServes FailsOnlyToOthers
