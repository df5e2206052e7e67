SPECIFICATION OrderedSpec
CONSTANTS
  Keys = {k1, k2}
  UserValues = {a}
  Lifetimes = {1}
  TOMBSTONE = TOMBSTONE
  NONE = NONE
  CacheSize = 1
  CompactionTrigger = 1
  FlushTakesMs = 1
  MaxNow = 5
  MaxWal = 3
  MaxTables = 3
  MaxSizeBytes = 4
  IsFull <- MCIsFull
INVARIANTS TypeOK CacheCoherent ReadsNewest RestartKeepsStore FilesMatchVector
PROPERTY ImplementsKVStore
SYMMETRY Symmetry
