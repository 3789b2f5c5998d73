CONSTANTS
  m1 = m1
  m2 = m2
  m3 = m3
  Machine <- Two
  Forcers <- NoMachine
  Crashable <- NoMachine
  Impatient <- Two
  FlakyDisk <- NoMachine
  Lossy = FALSE
  TTL = 3
  MaxMissed = 3
  MaxGrants = 2
  MaxSessions = 2
SPECIFICATION Spec
CHECK_DEADLOCK FALSE
PROPERTY ReleasedAfterPush
