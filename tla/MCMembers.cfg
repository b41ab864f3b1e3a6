SPECIFICATION FairSpec
CONSTANTS
  Servers = {"s1", "s2", "s3", "r1"}
  Local = {"s1", "s2", "s3"}
  Addrs <- Addresses
  Plans <- SmallPlans
  MaxAttempts = 1
INVARIANTS  PeersFollow AddIsAccepted
PROPERTIES KeepsItself Converges
CHECK_DEADLOCK FALSE
