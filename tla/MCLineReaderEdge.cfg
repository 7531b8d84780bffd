CONSTANTS
  Size = 4
  EpochMod = 3
  Lap = 4
  Rings = {"skip"}
  Scripts <- MCScripts
  MaxBytes = 4
  MaxChars = 2
  QueueSlots = 3
SPECIFICATION ReaderSpec
INVARIANT NothingStranded
CHECK_DEADLOCK FALSE
