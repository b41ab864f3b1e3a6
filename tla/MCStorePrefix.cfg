SPECIFICATION AnySpec
CONSTANTS
  Names <- TwoNames
  HasPrefix <- Prefixes2
  Schedules <- OneSchedule
  Ticks <- OneTick
  BodyDeps <- NoBodyDeps
  Execs <- OneExecEach
  Writers = {w1}
  MaxExecutions = 1
  MaxTime = 1
  MaxCount = 0
  MaxListed = 2
PROPERTY DeletesOwnExecutionsOnly
