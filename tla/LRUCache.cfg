SPECIFICATION LRUSpec
CONSTANTS
  Keys = {k1, k2, k3, k4}
  Values = {a, b}
  Capacity = 3
  NONE = NONE
INVARIANTS LRUOK HoldsMostRecent
PROPERTY ImplementsBoundedCache
