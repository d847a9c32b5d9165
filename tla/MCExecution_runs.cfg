SPECIFICATION FairExecSpec
CONSTANTS
  Runs = {1, 2}
  Tasks = {book, look}
  book = book
  look = look
  Callers <- MCCallers
  ReadOnly = {look}
  Keyed = {}
  Keys = {}
  KeyFor <- NothingHasKey
  NoKey = NoKey
  NoTask = NoTask
  DependsOn <- BookThenLook
  RetrySafe = {look}
  MaxAttempts = 2
  MayCrash = TRUE
CHECK_DEADLOCK FALSE
INVARIANTS
  SuccessIsCommitted
  SuccessMeansDone
  DependenciesFirst
  AtMostOneCommitment
  NotSubmittedIsProof
PROPERTIES
  ImplementsLedger
  RunsEnd
