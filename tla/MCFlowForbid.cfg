SPECIFICATION Spec
CONSTANTS
  Names <- OneName
  HasPrefix <- OwnPrefix
  Schedules <- OneSchedule
  MaxExecutions = 9
  JobName = "a"
  Nodes = {0}
  Groups = {1, 2}
  Manual = {}
  MaxRetries = 0
  Forbid = TRUE
  Stamp <- ByDispatch
  Plans <- Plain
INVARIANT ForbidsOverlap
CHECK_DEADLOCK FALSE
