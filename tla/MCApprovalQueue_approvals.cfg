CONSTANTS
  Steps = {"view","place","pay","car","spot","tour","tourH2","tourH3"}
  Viewing = {"view"}
  Gated = {"place","car","spot","tour"}
  Paying = {"pay"}
  Repairable = {"view","place"}
  Plans = {{"view","place","pay"},{"car","spot"},{"place","tour"},{"tour"}}
  DependsOn <- Needs
  CancelsOf <- Names
  Settled = {{"tour"}}
  Job = job
  Officers = {o1,o2}
  Customers = {c1}
  MaxRequests = 2
  MaxWishes = 2
  MaxCrashes = 1
SPECIFICATION FairQueueSpec
CHECK_DEADLOCK FALSE
INVARIANTS
  CalledOffAsAgreed
PROPERTIES
  DecidedWhenSent
  DecidedIsResumed
