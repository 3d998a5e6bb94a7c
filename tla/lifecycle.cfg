SPECIFICATION FairSpec
CONSTANTS
  b1 = b1  b2 = b2  u1 = u1  u2 = u2
  Browser <- TwoBrowsers
  Slot <- TwoSlots
  MaxRequests = 3
  MaxFaults = 2
  LateHandlers = FALSE
INVARIANTS
  NoOrphan StoppedIsHalted
PROPERTIES
  Convergence ImplementsPromise
