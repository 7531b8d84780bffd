SPECIFICATION Spec
CONSTANTS
  crash = crash
  a = a
  b = b
  short = short
  long = long
  Nothing = Nothing
  Blank = Blank
  Torn = Torn
  Ids <- ThreeIds
  Vals <- TwoVals
  Cells <- CellsOf
  MaxIds = 2
  PageCells = 4
  HalfPages = 2
  PanicId = crash
  PanicVal = short
  PartialRefusal = FALSE
  MaxCalls = 3
  MaxFaults = 2
  Former <- NewOrWritten
SYMMETRY Swap
INVARIANTS
  
  ReserveKept
  NeverFull

  
  
CHECK_DEADLOCK FALSE
