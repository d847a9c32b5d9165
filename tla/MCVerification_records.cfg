CONSTANTS
  ann = ann  bob = bob  flat = flat  loft = loft  plate = plate  v1 = v1  v2 = v2
  Users <- People
  Apartments = {flat}
  Plates = {plate}
  Records = {1, 2}
  Reviewers = {v1, v2}
  Account <- Accounts
  MaxFaults = 1
  MaxRevoked = 1
SPECIFICATION VerificationSpec
CHECK_DEADLOCK FALSE
INVARIANTS
  ReceiptTellsDecision
  OnlyApprovedOpens
  ShownIsDone
  SourcesAgree
