SPECIFICATION Spec
CONSTANTS
  Slots <- MCSlots
  Size <- MCSize
  MaxStrings = 6
  MaxChars = 6
  ChunkStrings = 1
  ChunkChars = 2
  Concurrency = 2
INVARIANT EveryChunkTried
CHECK_DEADLOCK FALSE
