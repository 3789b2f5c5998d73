SPECIFICATION LocalSpec
CONSTANTS
  Rows = 2
  Folder = {j, k}
  Exit = {x, y}
  MaxSeeds = 2
  MaxBusy = 1
PROPERTY ImportedVia
CHECK_DEADLOCK FALSE
