CONSTANTS
  Fields = {f1,f2}
  Starts = {s1,s2}
  Replies = {c1,c2}
  Quota = 1
  Outcomes = {"PENDING","WAITING_APPROVAL"}
  Keep = 1
  MaxWorkflows = 3
  MaxTroubles = 1
SPECIFICATION FairConversationSpec
CHECK_DEADLOCK FALSE
INVARIANTS
  OneChildPerAnswer
  AnswersReachThePlan
PROPERTIES
  EveryRequestEnds
