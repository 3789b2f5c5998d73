CONSTANTS
  m1 = m1
  m2 = m2
  m3 = m3
  Machine <- Two
  Forcers <- Two
  Crashable <- Two
  Impatient <- Two
  FlakyDisk <- NoMachine
  Lossy = TRUE
  TTL = 3
  MaxMissed = 2
  MaxGrants = 2
  MaxSessions = 2
SPECIFICATION FairSpec
CHECK_DEADLOCK FALSE
INVARIANT TypeOK
PROPERTIES LockComesFree StopEnds
