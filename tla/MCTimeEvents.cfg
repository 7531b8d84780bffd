SPECIFICATION Spec
CONSTANTS
  a = a
  b = b
  Null = Null
  Head = Head
  Timer <- TwoTimers
  Half = 4
  Delays <- SomeDelays
  Periods <- OnePeriod
  MaxLate = 3
INVARIANTS
  ListIsArmed
  QuestionsAgree
PROPERTIES
  
  DueFires
