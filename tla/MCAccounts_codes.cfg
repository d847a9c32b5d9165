CONSTANTS
  ann = ann  bob = bob  annAt = annAt  bobAt = bobAt  r1 = r1  r2 = r2
  Names = {ann, bob}
  Emails = {annAt, bobAt}
  Requests = {r1, r2}
  Cooldown = 1
  Life = 2
  MaxCodes = 2
  MaxClock = 2
  MaxLocks = 1
SYMMETRY Symmetry
SPECIFICATION AccountsSpec
CHECK_DEADLOCK FALSE
INVARIANTS
  CodeOpensOnce
PROPERTIES
  PasswordFollowsCode
