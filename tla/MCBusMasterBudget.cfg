SPECIFICATION Spec
CONSTANTS
  a = a
  b = b
  c = c
  d = d
  Nobody = Nobody
  Client <- FourClients
  Depth = 1
  Timings <- UntimedBus
  MaxAttempts = 1
  SeqRange = 2
  Budget = 4
  Preempt = FALSE
INVARIANTS
  NothingDropped
