SPECIFICATION MirrorSpec
CONSTANTS
  Window = {w1, w2}
  MaxJoins = 3
  Began = {w1, w2}
  Worked = {w1}
  Closable = {}
  Kinds = {"key"}
  Rejoins = TRUE
  MaxActs = 2
  MaxGiven = 2
INVARIANT OperatorsOrder
PROPERTY GroupKept
CHECK_DEADLOCK FALSE
