SPECIFICATION CoreSpec
CONSTANTS
  Pressed = {p1, p2}
  Opened = {a}
  Crashes = 1
  Published = {"current", "next"}
PROPERTY FailedKeepsCore
CHECK_DEADLOCK FALSE
