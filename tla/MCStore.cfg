SPECIFICATION MCSpec
CONSTANTS
  Names <- ThreeNames
  HasPrefix <- Prefixes3
  Schedules <- OneSchedule
  Ticks <- OneTick
  BodyDeps <- NoBodyDeps
  Execs <- ThreeExecs
  Writers = {w1}
  MaxExecutions = 2
  MaxTime = 2
  MaxCount = 2
  MaxListed = 2
 
PROPERTIES
  CountersNeverDecrease StatusOnlyFromCompletion
  FinishedNeverReverts EvictsOldestOverLimit 
