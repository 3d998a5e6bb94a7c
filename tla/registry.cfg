SPECIFICATION FairSpec
CONSTANTS
  Users = {u1, u2}
  Browsers = {b1, b2, b3}
  Names = {"Work"}
  Handlers = {h1, h2}
  None = None
  Fold <- MCFold
  MaxPerUser = 2
  MaxTotal = 2
  MaxRequests = 4
INVARIANTS
  Capacity NamesDistinct
PROPERTY
  DefaultLetGo
CHECK_DEADLOCK FALSE
