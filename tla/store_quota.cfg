CONSTANTS
  p1 = p1
  p2 = p2
  h1 = h1
  h2 = h2
  None = None
  Profile <- TwoProfiles
  Handler <- TwoHandlers
  Keep = 0
  Ceiling = 1
  Torn = FALSE
  Purges = FALSE
  MaxUploads = 3
SPECIFICATION Spec
CHECK_DEADLOCK FALSE
INVARIANT QuotaBound
PROPERTY ImplementsBundleHistory
