SPECIFICATION FairSessionSpec
CONSTANTS
  r1 = r1
  r2 = r2
  own = own
  N = 2
  MaxGeneration = 4
  Requester <- OneRequester
  Owner = own
  Reasons = {"Wakeup", "Stop"}
  Faults = {"submit", "cancel", "run"}
  Natural = {"Handled", "CpuOn", "CpuOff", "CpuSuspend", "AffinityInfo", "GuestReset"}
  Online0 = {0}
  LimitParks = FALSE
INVARIANTS NoRunWhileOff LifecycleAgreement SomeCpuOn NoLostCall PowerAgreement
PROPERTY PsciCallsAreAnswered
