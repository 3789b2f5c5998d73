CONSTANTS
  m1 = m1
  m2 = m2
  m3 = m3
  Machine <- Two
  Forcers <- NoMachine
  Crashable <- Two
  Impatient <- NoMachine
  FlakyDisk <- NoMachine
  Lossy = FALSE
  TTL = 3
  MaxMissed = 0
  MaxGrants = 3
  MaxSessions = 3
SPECIFICATION Spec
CHECK_DEADLOCK FALSE
INVARIANT NoSessionLost
