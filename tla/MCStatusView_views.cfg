CONSTANTS
  Rests <- RestsOfRuns
  Writers = {w1}
  Asking = {a1,a2,a3}
  MaxCrashes = 1
SPECIFICATION ViewSpec
SYMMETRY Alike
CHECK_DEADLOCK FALSE
INVARIANTS
  ShownFits
  ShownIsTrue
