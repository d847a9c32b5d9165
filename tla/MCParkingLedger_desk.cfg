SPECIFICATION Spec
CONSTANTS
  cheap = cheap
  dear = dear
  Clients = {c1, c2}
  Vehicles = {v1, v2}
  Zones = {cheap, dear}
  Price <- TwoPrices
  Capacity <- OnePlace
  Workflows = {w1, w2}
  BookingIds = {1, 2}
  PaymentIds = {1, 2}
  Ops = {"book", "change", "cancel", "pay", "open", "confirm", "expire", "late", "approved", "refund", "delete"}
SYMMETRY LedgerSymmetry
CHECK_DEADLOCK FALSE
INVARIANTS
  CapacityHeld
  OneSessionPerBooking
  PaidIsThePrice
  NoDeadlock
