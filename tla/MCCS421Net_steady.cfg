SPECIFICATION SteadySpec
CONSTANTS
  CPUs = {c1, c2, c3}
  MaxPackets = 4
  MaxLoads = 2
  CompleteAll = 2
CHECK_DEADLOCK FALSE
INVARIANTS
  FetchedOnce
PROPERTIES
  IsPacketQueue
  WorkReturns
  ProcessedUnlessShared
