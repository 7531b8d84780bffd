CONSTANTS
  TxSize = 4
  CopyPart = 2
  NoByte = NoByte
  Objects = 2
  WaitFroms = {1, 2}
  Printers = {1, 2, 3}
  LongSize = 3
  SmallSize = 2
  SmallStages = 2
  SeqRange = 6
  FirstSeq = 5
  MarkSize = 1
  Sizes = {2, 3}
  MaxLines = 3
  Voters = {v1, v2}
  Depths = {0, 1, 3}
  LockLevels = {0, 1}
  MaxLocks = 1
  MaxAsking = 4
SPECIFICATION ServicesSpec
INVARIANTS LinesWhole NothingLostUntold ArmedAgreed NoneForgotten
PROPERTY LockReleased
CHECK_DEADLOCK FALSE
