SPECIFICATION Spec
CONSTANTS
  Fds = {0, 1, 2, 3}
  StandardFds = {0}
  Settings <- McSettings
  DeviceTables <- McDeviceTables
  LateFailures = TRUE
  SetterRaces = FALSE
INVARIANTS
  TypeOK
  ConnectedWhenStarted
  SettingsInEffect
PROPERTIES
  LostOnlyByThrow
  ForeignFilesKept
