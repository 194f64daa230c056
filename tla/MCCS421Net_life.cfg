SPECIFICATION LifeSpec
CONSTANTS
  CPUs = {c1, c2}
  MaxPackets = 3
  MaxLoads = 2
  CompleteAll = 2
CHECK_DEADLOCK FALSE
INVARIANTS
  WorkerHasEntry
  FetchedInOrder
PROPERTIES
  ExitReturns
  LockstepInLoad
