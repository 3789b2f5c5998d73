CONSTANTS
  p1 = p1
  p2 = p2
  h1 = h1
  h2 = h2
  None = None
  Profile <- OneProfile
  Handler <- TwoHandlers
  Keep = 2
  Ceiling = 3
  Torn = FALSE
  Purges = TRUE
  MaxUploads = 3
SPECIFICATION Spec
CHECK_DEADLOCK FALSE
SYMMETRY HandlerSymmetry
INVARIANT LiveIsWhole
