SPECIFICATION FairSpec
CONSTANTS
  Contestants = {Ken, Watson, Brad}
  NumQuestions = 3
CHECK_DEADLOCK FALSE
INVARIANTS
  QuizInv
PROPERTIES
  TurnLostOnlyAfterFailure
  IsQuiz
  EndsOrSticks
