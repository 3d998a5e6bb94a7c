SPECIFICATION Spec
CONSTANTS
  Ids = {i1}
  Origins = {here, there}
  here = here
  there = there
  Passwords = {w1, w2}
  None = None
  Slots = {e1, e2}
  MaxEdits = 2
  Urls = {home, other, broken}
  home = home
  other = other
  broken = broken
  Broken = broken
  OriginOf <- MCOriginOf
  Names = {n1, n2}
  Calls = {k1, k2}
  LocalPassword = local
  LocalOrigins = {here}
  MaxGeneration = 3
  Lives = 2
  MaxTrouble = 2
SYMMETRY Alike
INVARIANTS
  Intact SecretsAtHome OutcomeTruthful NotTwice
