SPECIFICATION Spec
CONSTANTS
  crash = crash
  a = a
  b = b
  short = short
  long = long
  Nothing = Nothing
  Blank = Blank
  Torn = Torn
  Ids <- ThreeIds
  Vals <- TwoVals
  Cells <- CellsOf
  MaxIds = 2
  PageCells = 4
  HalfPages = 2
  PanicId = crash
  PanicVal = short
  PartialRefusal = FALSE
  MaxCalls = 4
  MaxFaults = 3
  Former <- Full
SYMMETRY Swap
INVARIANT
  NeverFull
CHECK_DEADLOCK FALSE
