SPECIFICATION Spec
CONSTANTS
  Ports = {"float", "short"}
  Streams = {s1, s2}
  NoStream = NoStream
  MaxBlocks = 1
  MaxThreads = 2
  SendMayFail = FALSE
  Ops = {"start"}
  PacedStreams = FALSE
  PacedControl = TRUE
  MaxOps = 1
INVARIANTS
  ActiveIsProcessed
CHECK_DEADLOCK FALSE
