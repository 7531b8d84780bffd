SPECIFICATION TransfersSpec
CONSTANTS
  x = x
  y = y
  p = p
  q = q
  Nothing = Nothing
  Aos <- TwoObjects
  Ev <- TwoEvents
  Depth = 2
  Bells = 1
  MaxSends = 5
  SourceCount = 2
  Subscribers = {s1, s2}
  SubscriberDepth = 2
  MaxBlocks = 4
  Requesters = {r1, r2, r3, r4}
  PendingDepth = 2
  OpCounts = {0, 2}
  OutOfStore = OutOfStore
  Backlog = 2
  MaxRequests = 4
CHECK_DEADLOCK FALSE
INVARIANTS
  EveryEventHasABell
PROPERTIES
  ImplementsCrossing
  BlocksRead
  
