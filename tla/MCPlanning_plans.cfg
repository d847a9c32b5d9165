CONSTANTS
  Responses <- Answers
  Predictions <- Guesses
  Contexts <- Knowledge
  MaxRounds = 2
SPECIFICATION PlanningSpec
CHECK_DEADLOCK FALSE
INVARIANTS
  BookingsArePaid
  OwnWordsOnly
  ResumeBlamesOpenSteps
