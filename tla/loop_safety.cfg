SPECIFICATION Spec
CONSTANTS
  c1 = c1
  c2 = c2
  v0 = v0
  v1 = v1
  Caller <- TwoCallers
  Member <- OneMember
  Ops = {"pause", "resume", "update", "snapshot"}
  MaxCalls = 1
  Capacity = 2
  MaxSteps = 1
  Outcomes = {"Step", "Exit"}
  Stopping = TRUE
  CancelFails = TRUE
SYMMETRY LoopSymmetry
CHECK_DEADLOCK FALSE
INVARIANT SnapshotCommandIsLast
INVARIANT LeaseMeansPaused
INVARIANT PausedMeansParked
INVARIANT SleepMissesNoCommand
INVARIANT NobodyAwaitsADeadWorker
PROPERTY ShutdownIsFinal
