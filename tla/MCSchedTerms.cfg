SPECIFICATION Spec
CONSTANTS
  Jobs <- TwoJobs
  KeyRank <- ByName
  Versions = {"v1"}
  InvalidJobs = {}
  Handlers = {h1}
  MaxTerms = 2
  MaxRequests = 2
INVARIANT StartAddsAll
CHECK_DEADLOCK FALSE
