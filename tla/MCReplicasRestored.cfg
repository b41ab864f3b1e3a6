SPECIFICATION Spec
CONSTANTS
  Names <- TwoNames
  HasPrefix <- OwnPrefixes
  Schedules <- OneSchedule
  MaxExecutions = 2
  Servers = {"s1", "s2"}
  Commands <- FourCommands
  Clock <- Clocks
  Trailing = 0
  MaxLog = 2
  MaxPersists <- OneOnS1
  MaxCrashes <- OneOnS1
  Files = {}
INVARIANT RestoresPreviousState
CHECK_DEADLOCK FALSE
