CONSTANTS
  m1 = m1
  m2 = m2
  m3 = m3
  Machine <- Two
  Forcers <- Two
  Crashable <- NoMachine
  Impatient <- Two
  FlakyDisk <- NoMachine
  Lossy = TRUE
  TTL = 3
  MaxMissed = 2
  MaxGrants = 3
  MaxSessions = 3
SPECIFICATION Spec
CHECK_DEADLOCK FALSE
INVARIANTS NoSessionLost
PROPERTY ImplementsBundleHistory
