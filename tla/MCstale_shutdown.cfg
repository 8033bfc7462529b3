SPECIFICATION Spec
CONSTANTS
  Ports = {"float", "short"}
  Streams = {s1}
  NoStream = NoStream
  MaxBlocks = 1
  MaxThreads = 2
  SendMayFail = FALSE
  Ops = {"start", "stop"}
  PacedStreams = TRUE
  PacedControl = TRUE
  MaxOps = 3
INVARIANTS
  NoStaleShutdown
CHECK_DEADLOCK FALSE
