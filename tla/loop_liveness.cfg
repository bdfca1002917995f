SPECIFICATION FairSpec
CONSTANTS
  c1 = c1
  c2 = c2
  v0 = v0
  v1 = v1
  Caller <- OneCaller
  Member <- TwoMembers
  Ops = {"pause", "resume", "update", "snapshot"}
  MaxCalls = 1
  Capacity = 1
  MaxSteps = 2
  Outcomes = {"Step", "Error"}
  Stopping = TRUE
  CancelFails = FALSE
CHECK_DEADLOCK FALSE
PROPERTY CommandsAreAnswered
PROPERTY StopReturns
