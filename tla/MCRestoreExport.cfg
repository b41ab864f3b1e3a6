SPECIFICATION Spec
CONSTANTS
  Names <- FourNames
  HasPrefix <- OwnPrefix
  Schedules <- OneSchedule
  MaxExecutions = 1
  Listings <- OnlyThree
  OldParents <- EmptyStore
  Tick = 1
  MaxDeletes = 0
  MaxFailures = 0
INVARIANT RestoredAsExported
CHECK_DEADLOCK FALSE
