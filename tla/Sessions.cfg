SPECIFICATION SessionsSpec
CONSTANTS
  k = k
  b = b
  short = short
  long = long
  one = one
  x = x
  NONE = NONE
  BAD = BAD
  Keys = {k, b}
  UserValues = {short, long}
  Lifetimes = {1}
  LongValues = {long}
  DefaultRounds = 2
  Number <- MCNumber
  Join <- MCJoin
  BenchKey <- MCBenchKey
  BenchValue <- MCBenchValue
  Typed <- MCTyped
  Submitted <- MCSubmitted
  MaxNow = 1
  MaxTyped = 2
  MaxPosted = 2
INVARIANTS SessionsOK BridgeAnswersOwn CliInOrder CliLag
PROPERTIES ImplementsKVStore NobodyWaitsForEver
CHECK_DEADLOCK FALSE
