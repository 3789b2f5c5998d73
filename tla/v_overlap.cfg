CONSTANTS
  p1 = p1
  p2 = p2
  c1 = c1
  c2 = c2
  reaper = reaper
  none = none
  Profile <- Both
  Team <- NoProfiles
  Caller <- TwoCallers
  Reaper <- reaper
  None <- none
  StoreFails = FALSE
  MaxLaunches = 2
SPECIFICATION Spec
CHECK_DEADLOCK FALSE
INVARIANT OneBrowserEach
