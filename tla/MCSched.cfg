SPECIFICATION FairSpec
CONSTANTS
  Jobs <- ThreeJobs
  KeyRank <- ByName3
  Versions = {"v1"}
  InvalidJobs = {"bad"}
  Handlers = {h1, h2}
  MaxTerms = 2
  MaxRequests = 2
INVARIANTS PanicsOnlyBeforeStart AtMostOneEntry FirstTermMatches
PROPERTIES RemovesOwnEntry FollowerStops
CHECK_DEADLOCK FALSE
