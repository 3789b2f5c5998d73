CONSTANTS
  p1 = p1
  p2 = p2
  c1 = c1
  c2 = c2
  reaper = reaper
  none = none
  Profile <- Both
  Team <- OneTeam
  Caller <- OneCaller
  Reaper <- reaper
  None <- none
  StoreFails = FALSE
  MaxLaunches = 3
SPECIFICATION FairSpec
CHECK_DEADLOCK FALSE
INVARIANT Managed
PROPERTIES SessionsSettle RelaysGo
