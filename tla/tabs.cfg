SPECIFICATION Spec
CONSTANTS
  Tabs = {t1, t2, t3, t4}
  Contexts = {c1, c2}
  Profile = Profile
  Gone = Gone
  None = None
  MaxTabs = 3
  MaxFaults = 1
SYMMETRY Alike
INVARIANTS
  ClosedWhole SaidPrivate
PROPERTIES
  NoBystander KeepsItsConnection
