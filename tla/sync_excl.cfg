CONSTANTS
  m1 = m1
  m2 = m2
  m3 = m3
  Machine <- Three
  Forcers <- NoMachine
  Crashable <- Three
  Impatient <- NoMachine
  FlakyDisk <- Three
  Lossy = TRUE
  TTL = 3
  MaxMissed = 1
  MaxGrants = 3
  MaxSessions = 2
SPECIFICATION Spec
CHECK_DEADLOCK FALSE
SYMMETRY Symmetry3
INVARIANTS HistoryInv OneBrowser
