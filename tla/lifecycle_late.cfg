SPECIFICATION Spec
CONSTANTS
  b1 = b1  b2 = b2  u1 = u1  u2 = u2
  Browser <- OneBrowser
  Slot <- OneSlot
  MaxRequests = 4
  MaxFaults = 2
  LateHandlers = TRUE
PROPERTIES
  ProfileKept
