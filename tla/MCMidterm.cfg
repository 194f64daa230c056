SPECIFICATION FairSpec
CONSTANTS
  Contestants = {Ken, Watson, Brad}
  NumQuestions = 3
  Spurious = {Ken, Watson, Brad}
CHECK_DEADLOCK FALSE
INVARIANTS
  QuizInv
PROPERTIES
  IsQuiz
  GameEnds
