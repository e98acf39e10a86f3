SPECIFICATION Spec
CONSTANTS
  Names = {1, 2, 3, 4}
  MaxRecords = 3
  Statuses = {"PASS", "FAIL", "MISSING", "TIMEOUT"}
  Directories <- MCDirectories
INVARIANTS
  TypeOK
  VerdictIsComplete
  VerdictIsEarned
