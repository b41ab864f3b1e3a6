SPECIFICATION Spec
CONSTANTS
  Names <- FourNames
  HasPrefix <- OwnPrefix
  Schedules <- OneSchedule
  MaxExecutions = 1
  Listings <- ThreeOrFour
  OldParents <- OldTrees
  Tick = 1
  MaxDeletes = 1
  MaxFailures = 1
INVARIANTS
  BuildsForest FailureCostsSubtree RestoresAll LinksRestored
PROPERTY SuccessMeansStored
CHECK_DEADLOCK FALSE
