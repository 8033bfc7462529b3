SPECIFICATION HeaderSpec
CONSTANTS
  SeqMod = 64
  Payload = 2
  Sris = {1, 2}
  Overrides = {1, 2}
  BytesPerSample = 4
  Mode <- McMode
  Rate <- McRate
  UserHeader <- McUserHeader
  Memory <- McMemory
  FreqMod = 8
INVARIANTS
  TypeOK
  NumberedInOrder
  FieldsReceived
PROPERTIES
  SosUntilRoundEnds
  OverrideComplete
  DerivedFromBlock
