SPECIFICATION Spec
CONSTANTS
  Codes = {0, 1, 137}
  Timeout = 3
  MaxTime = 5
INVARIANTS
  TypeOK
  KeepsContract
  CodeIsTheChilds
  ReapedUnlessError
  TimeoutIsEarned
PROPERTIES
  Returns
