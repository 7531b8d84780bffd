SPECIFICATION Spec
CONSTANTS
  e1 = e1
  e2 = e2
  NoEvent = NoEvent
  Depth = 2
  CountMax = 1
  Events <- MCEvents
INVARIANTS
  SlotsPartitioned
  HoldNamesCurrent
PROPERTIES
  OutstandingUntouched
  ImplementsFifo
