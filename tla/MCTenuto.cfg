SPECIFICATION Spec
CONSTANTS
  N = 3
  Slots = 2
  MaxPosts = 7
INVARIANTS
  OvertakenOnce
  
PROPERTIES
  AllServed
  DuePosted
