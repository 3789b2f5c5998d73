SPECIFICATION Spec
CONSTANTS
  lone = l
  team = t
  Farmed = {l, t}
  Shared = {t}
  Lists <- OneList
  Plans = 1
  AtOnce = 1
  Days = 1
  Sittings = 1
  Visits = 1
  Meddling = 2
  Pressed = {p1, p2}
  Opened = {a}
  Crashes = 1
  Published = {"current", "next"}
  Window = {w1, w2, w3}
  Began = {w1, w2}
  Worked = {w1}
  Closable = {w3}
  Kinds = {"key"}
  Rejoins = FALSE
  MaxJoins = 3
  MaxActs = 2
  MaxGiven = 2
  Call = {c1, c2}
  Processes = 2
  Unix = TRUE
  MaxDeaths = 1
  MaxTries = 1
INVARIANT OperatorKeeps
CHECK_DEADLOCK FALSE
