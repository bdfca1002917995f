SPECIFICATION Spec
CONSTANTS
  r1 = r1
  r2 = r2
  own = own
  N = 2
  MaxGeneration = 3
  Requester <- TwoRequesters
  Owner = own
  Reasons = {"Wakeup", "Stop"}
  Faults = {"submit"}
  Natural = {"Handled", "GuestReset"}
  Online0 = {0, 1}
  LimitParks = FALSE
SYMMETRY RequesterSymmetry
INVARIANTS QuiescedIsQuiet BarrierCoversSnapshot DebtIsPromised BarrierHidesNoTerminal OwnerHasWork
PROPERTY AnsweredOnce
