SPECIFICATION Spec
CONSTANTS
  Ports = {"short", "float"}
  Conns = {c1}
  Settings <- McSettings
  MaxSri = 2
  MaxOps = 3
INVARIANTS
  TypeOK
  
CHECK_DEADLOCK FALSE
