CONSTANTS
  Size = 4
  EpochMod = 3
  Lap = 4
  Rings = {"skip", "guarded", "hardware"}
  Scripts <- MCScripts
  MaxBytes = 8
  MaxChars = 2
  QueueSlots = 3
SPECIFICATION ReaderSpec
INVARIANTS LentWhole OnlyGapsLose
PROPERTY AllRead
CHECK_DEADLOCK FALSE
