SPECIFICATION ExecSpec
CONSTANTS
  Runs = {1}
  Tasks = {look}
  book = book
  look = look
  Callers <- MCCallers
  ReadOnly = {look}
  Keyed = {}
  Keys = {}
  KeyFor <- NothingHasKey
  NoKey = NoKey
  NoTask = NoTask
  DependsOn <- BookThenLook
  RetrySafe = {look}
  MaxAttempts = 2
  MayCrash = FALSE
CHECK_DEADLOCK FALSE
INVARIANTS
  RetryReachesProvider
