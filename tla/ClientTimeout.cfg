SPECIFICATION SessionsSpec
CONSTANTS
  k = k
  b = b
  short = short
  long = long
  one = one
  x = x
  NONE = NONE
  BAD = BAD
  Keys = {k, b}
  UserValues = {short, long}
  Lifetimes = {1}
  LongValues = {}
  DefaultRounds = 2
  Number <- MCNumber
  Join <- MCJoin
  BenchKey <- MCBenchKey
  BenchValue <- MCBenchValue
  Typed <- MCTyped
  Submitted <- MCSubmitted
  MaxNow = 0
  MaxTyped = 3
  MaxPosted = 0
INVARIANT ResponseIsOwn
CHECK_DEADLOCK FALSE
