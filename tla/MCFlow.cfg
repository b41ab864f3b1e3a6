SPECIFICATION FairSpec
CONSTANTS
  Names <- OneName
  HasPrefix <- OwnPrefix
  Schedules <- OneSchedule
  MaxExecutions = 9
  JobName = "a"
  Nodes = {0, 1}
  Groups = {1}
  Manual = {}
  MaxRetries = 1
  Forbid = FALSE
  Stamp <- ByDispatch
  Plans <- FaultsAndNodes
INVARIANTS
  NoFalseSuccess CountedOnce AttemptsInTurn FinishedAreCounted
  StatusMatchesStore DependentsRun
PROPERTY Settles
CHECK_DEADLOCK FALSE
