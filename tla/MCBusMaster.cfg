SPECIFICATION Spec
CONSTANTS
  a = a
  b = b
  c = c
  d = d
  Nobody = Nobody
  Client <- ThreeClients
  Depth = 1
  Timings <- EitherBus
  MaxAttempts = 1
  SeqRange = 2
  Budget = 3
  Preempt = TRUE
INVARIANTS
  NothingDropped
  OneCompletionOwed
  BuffersReturned
PROPERTIES
  
  ImplementsService
  AllAnswered
