SPECIFICATION Spec
CONSTANTS
  N = 3
  Slots = 2
  QuietMod = 8
  MaxPosts = 4
  Window = TRUE
INVARIANTS
  RunsWithinPack
  StackDecreases
  NoInversion
  
PROPERTIES
  AllServed
CHECK_DEADLOCK FALSE
