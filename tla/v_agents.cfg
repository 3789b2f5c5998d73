SPECIFICATION ShellSpec
CONSTANTS
  Call = {c1, c2}
  Processes = 3
  Unix = TRUE
  MaxDeaths = 1
  MaxTries = 2
INVARIANT OneAgent
CHECK_DEADLOCK FALSE
