SPECIFICATION FairSpec
CONSTANTS
  r1 = r1
  r2 = r2
  own = own
  N = 2
  MaxGeneration = 2
  Requester <- OneRequester
  Owner = own
  Reasons = {"Wakeup", "Stop"}
  Faults = {"submit", "cancel", "run", "topology"}
  Natural = {"Handled", "CpuSuspend", "CpuOff"}
  Online0 = {0}
  LimitParks = TRUE
INVARIANTS NoProtocolError OfflineIsInert
PROPERTY ImplementsTopology
PROPERTY RequestsAreAnswered
