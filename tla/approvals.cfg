SPECIFICATION FairSpec
CONSTANTS
  Tabs = {t1, t2}
  Urls = {home, form}
  home = home
  Labels = {read, send}
  Sensitive = {send}
  read = read
  send = send
  Opening <- MCOpening
  Texts = {x}
  Empty = Empty
  Ids = {a1}
  NoId = NoId
  TTL = 1
  MaxGeneration = 2
  MaxTroubles = 1
  Lives = 2
INVARIANTS
  ApprovedOnce SeenBefore
PROPERTIES
  NotOvertaken CommitAsApproved Decided
