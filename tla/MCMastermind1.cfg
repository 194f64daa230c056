SPECIFICATION Spec
CONSTANTS
  Threads = {t1, t2}
  Insmod = insmod
  RandomCode = FALSE
  Digits = {0, 1}
  Guesses <- MCGuesses
  MaxGuesses = 2
  MaxCalls = 3
  MaxEarly = 2
CHECK_DEADLOCK FALSE
SYMMETRY ThreadSymmetry
INVARIANTS
  ScoreWithinPegs
  AgreementWithoutOverlap
  NothingLeftBehind
  LogIsThereUntilExit
