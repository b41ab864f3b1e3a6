SPECIFICATION MCSpec
CONSTANTS
  Nodes = {n1, n2, n3}
  Keys = {"region", "my_role"}
  Region = "region"
  MaxCount = 2
  MaxChanges = 1
  Calls <- TwoCalls
  Loads <- AllLoads
  Size = 4
  Entries = 3
  Lengths <- SmallBuffers
  Counts <- SomeCounts
INVARIANTS
  AtMostCount HaveAllTags EnoughTargets
  SuccessIsReal FinalIsLast DrainsExecutions  ForwardsOutput
PROPERTIES Returns ReadsLikeAFile
CHECK_DEADLOCK FALSE
