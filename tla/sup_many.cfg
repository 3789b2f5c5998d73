CONSTANTS
  p1 = p1
  p2 = p2
  c1 = c1
  c2 = c2
  reaper = reaper
  none = none
  Profile <- Both
  Team <- OneTeam
  Caller <- TwoCallers
  Reaper <- reaper
  None <- none
  StoreFails = TRUE
  MaxLaunches = 3
SPECIFICATION Spec
CHECK_DEADLOCK FALSE
SYMMETRY CallerSymmetry
INVARIANTS OneOwner BeatsInHand
