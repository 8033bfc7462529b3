SPECIFICATION FairSpec
CONSTANTS
  Ports = {"short"}
  Streams = {s1, s2}
  NoStream = NoStream
  MaxBlocks = 1
  MaxThreads = 2
  SendMayFail = TRUE
  Ops = {"start", "stop"}
  PacedStreams = FALSE
  PacedControl = FALSE
  MaxOps = 2
INVARIANTS
  DeckHasWaker
PROPERTIES
  ImplementsLifecycle
  CallsReturn
  StopQuiesces
CHECK_DEADLOCK FALSE
