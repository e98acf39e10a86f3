SPECIFICATION Spec
CONSTANTS
  Initial = 3
  Limit = 14
  MaxSize = 17
INVARIANTS
  TypeOK
  InBounds
  WholeReportParsed
PROPERTIES
  Terminates
