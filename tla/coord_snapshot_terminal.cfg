SPECIFICATION Spec
CONSTANTS
  r1 = r1
  r2 = r2
  own = own
  N = 2
  MaxGeneration = 3
  Requester <- OneRequester
  Owner = own
  Reasons = {"Wakeup"}
  Faults = {}
  Natural = {"Handled", "GuestReset"}
  Online0 = {0, 1}
  LimitParks = TRUE
INVARIANTS SnapshotPauseHasWork
