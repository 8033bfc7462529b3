SPECIFICATION Spec
CONSTANTS
  Ports = {"float", "short", "octet"}
  Streams = {s1, s2, s3}
  NoStream = NoStream
  MaxBlocks = 1
  MaxThreads = 2
  SendMayFail = TRUE
  Ops = {"start"}
  PacedStreams = FALSE
  PacedControl = FALSE
  MaxOps = 1
SYMMETRY StreamSymmetry
INVARIANTS
  TypeOK
  OneOnDeck
  DeckedIsDisabled
  JoinExclusive
  AttachedBeforeData
  OneThread
CHECK_DEADLOCK FALSE
