SPECIFICATION HeaderSpec
CONSTANTS
  SeqMod = 32
  Payload = 1
  Sris = {1}
  Overrides = {1}
  BytesPerSample = 4
  Mode <- McMode
  Rate <- McRate
  UserHeader <- McUserHeader
  Memory <- McMemory
  FreqMod = 8
PROPERTIES
  OverrideEnds
