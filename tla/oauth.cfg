SPECIFICATION Spec
CONSTANTS
  Account = {o1}
  Client = {k1, k2}
  Code = {c1}
  Pair = {p1, p2, p3}
  Slot = {s1, s2}
  None = None
SYMMETRY Alike
INVARIANTS
  RemovedHasNothing WholePairs NotStranded
PROPERTIES
  SpentForGood FamilyEnds ImplementsPromise
