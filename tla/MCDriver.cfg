SPECIFICATION Spec
CONSTANTS
  CPUs = {c1}
  MaxPackets = 2
  MaxLoads = 2
  CompleteAll = 2
  Threads = {t1}
  Uids = {1}
  UidOf <- MCUidOf
  Admins = {}
  RandomCode = FALSE
  Guesses <- MCGuesses
  Lasts = {2}
  Garbage = {}
  Ints = {}
  MaxStarts = 1
  MaxGuesses = 0
  Payload <- MCPayload
  MaxHandled = 3
CONSTRAINT FewPackets
CHECK_DEADLOCK FALSE
INVARIANTS
  NothingLeftBehind
  EachPacketCountedOnce
  CodeHasOrigin
  FreedGamesLeftAlone
