SPECIFICATION StartupSpec
CONSTANTS
  Ips = {home, away}
  NoIp = NoIp
  Numerals <- MCNumerals
  DEFAULT_IP = home
  DEFAULT_PORT = 2
  MaxPort = 7
  IntSize = 32
  LongSize = 128
CHECK_DEADLOCK FALSE
INVARIANTS ConfiguredAsGiven StartupInv
PROPERTY StartupEnds
