SPECIFICATION Spec
CONSTANTS
  Keys = {k1, k2}
  UserValues = {a}
  Lifetimes = {1}
  TOMBSTONE = TOMBSTONE
  NONE = NONE
  CacheSize = 1
  CompactionTrigger = 1
  FlushTakesMs = 1
  MaxNow = 4
  MaxWal = 3
  MaxTables = 3
  MaxSizeBytes = 4
  IsFull <- MCIsFull
INVARIANT ReadsNewest
SYMMETRY Symmetry
