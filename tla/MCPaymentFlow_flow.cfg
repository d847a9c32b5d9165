SPECIFICATION FairFlowSpec
CONSTANTS
  cheap = cheap
  dear = dear
  Clients = {user, callback, sweep, desk}
  Users = {user}
  Callbacks = {callback}
  Sweepers = {sweep}
  Desk = desk
  Workflow = w
  Workflows = {w}
  Car = v
  Vehicles = {v}
  Zones = {cheap, dear}
  Price <- TwoPrices
  Capacity <- OnePlace
  Place = 1
  BookingIds = {1}
  PaymentIds = {1, 2}
  Ops = {"open", "pay", "confirm", "expire", "refund", "delete", "change", "cancel"}
  Providers = {"mock", "vnpay"}
  MaxCrashes = 1
CHECK_DEADLOCK FALSE
INVARIANTS
  ReleasedIsOver
  SuccessWasPaid
PROPERTIES
  ImplementsEscrow
  PaidIsSettled
