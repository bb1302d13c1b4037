SPECIFICATION LiveLoggerSpec
CONSTANTS
  m = m
  t = t
  Thread = {m, t}
  Main = m
  Handler = h
  Program = "server"
  Nul = Nul
  BufferSize = 2
  Sizes = {2}
  Interrupts = TRUE
  MaxCalls <- Calls
CONSTRAINT SignalEarly
CHECK_DEADLOCK FALSE
INVARIANTS CopyStaysInside LinesWhole LostOnce LoggerInv SomeoneMoves
PROPERTY CallsReturn
