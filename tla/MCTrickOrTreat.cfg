SPECIFICATION FairSpec
CONSTANTS
  num_of_houses = 4
  G = 2
  T = 0
  Distance <- MCDistance
  StartingHouse <- MCStartingHouse
  NumOfKids <- MCNumOfKids
  InitialCandy <- MCInitialCandy
  Refills <- MCRefills
  MaxRefills = 1
CHECK_DEADLOCK FALSE
INVARIANTS
  CandyConserved
  TotalIsBetween
  ShortOnlyIfRobbed
PROPERTIES
  AllReturn
