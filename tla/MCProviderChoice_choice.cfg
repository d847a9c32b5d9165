CONSTANTS
  r1 = r1  r2 = r2
  a = a  b = b  today = today  later = later
  Companies <- TwoCompanies
  Details = {today, later}
  Price <- Prices2
  Closed <- DaysOff
  MaxAttempts = 3
  MaxOffers = 2
  MaxLate = 1
  MaxFailures = 1
  Requests = {r1,r2}
SPECIFICATION ChoiceSpec
CHECK_DEADLOCK FALSE
INVARIANTS
  DealIsKept
  RefusedStaysOut
  BookedWasAgreed
SYMMETRY SameRequests
