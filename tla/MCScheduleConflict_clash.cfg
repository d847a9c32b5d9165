CONSTANTS
  w1 = w1  w2 = w2  w3 = w3  t1 = t1  t2 = t2  t3 = t3  t4 = t4
  Plan <- Plans
  Times <- TimesOfDay
  FirstTime <- AtFirst
  Window = 60
  Replies = {r1,r2}
  MaxMoves = 1
  MaxCrashes = 1
SPECIFICATION ConflictSpec
CHECK_DEADLOCK FALSE
INVARIANTS
  Warned
  RunsAlone
  PausedCanBeAnswered
