SPECIFICATION FairSpec
CONSTANTS
  Ports = {"float", "short"}
  Streams = {s1, s2, s3}
  NoStream = NoStream
  MaxBlocks = 1
  MaxThreads = 2
  SendMayFail = FALSE
  Ops = {"start"}
  PacedStreams = TRUE
  PacedControl = TRUE
  MaxOps = 1
INVARIANTS
  ActiveIsProcessed
  DetachMatches
  AtMostOneActive
  StatusComplete
  AttachedIsCurrent
PROPERTIES
  ImplementsLifecycle
  LockReleased
  DeckGetsTurn
  EndIsAnnounced
CHECK_DEADLOCK FALSE
