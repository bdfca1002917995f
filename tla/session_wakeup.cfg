SPECIFICATION SessionSpec
CONSTANTS
  r1 = r1
  r2 = r2
  own = own
  N = 2
  MaxGeneration = 4
  Requester <- TwoRequesters
  Owner = own
  Reasons = {"Wakeup"}
  Faults = {}
  Natural = {"Handled", "CpuOn", "CpuOff", "CpuSuspend", "AffinityInfo"}
  Online0 = {0}
  LimitParks = FALSE
INVARIANT WakeupIsNonTerminal
