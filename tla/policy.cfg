SPECIFICATION FairSpec
CONSTANTS
  Hosts = {h1}
  Requests = {r1, r2, r3}
  None = None
  TTL = 1
  MaxTime = 2
  MaxChanges = 1
INVARIANTS
  SingleFlight RefusalNotCached AllowedIsFresh WaitersDoNotCancel
PROPERTY
  AllAnswered
CHECK_DEADLOCK FALSE
