SPECIFICATION OrderedCrashSpec
CONSTANTS
  Keys = {1, 2}
  UserValues = {a}
  Lifetimes = {}
  TOMBSTONE = TOMBSTONE
  NONE = NONE
  GARBLED = GARBLED
  LogCanTear = TRUE
  DiskCanFill = FALSE
  CacheSize = 1
  CompactionTrigger = 1
  FlushTakesMs = 1
  MaxNow = 4
  MaxWal = 2
  MaxTables = 3
  MaxSizeBytes = 4
  IsFull <- MCIsFull
INVARIANT CrashKeepsAcknowledged
