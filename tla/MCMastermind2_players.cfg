SPECIFICATION Spec
CONSTANTS
  p1 = p1
  p2 = p2
  q = q
  Threads = {p1, p2, q}
  Uids = {1, 2}
  UidOf <- MCUidOf
  Admins = {2}
  RandomCode = FALSE
  Guesses <- MCGuesses
  Lasts = {1, 2}
  Garbage <- MCGarbage
  Ints = {}
  Refetch = FALSE
  Packets <- MCPackets
  MaxStarts = 2
  MaxGuesses = 2
  MaxPackets = 1
SYMMETRY Alike
CHECK_DEADLOCK FALSE
INVARIANTS
  TypeOK
  OneGamePerPlayer
  OwnGame
  GameConsistent
  CodeOfKnownDigits
PROPERTIES
  OnlyOwnGameChanges
