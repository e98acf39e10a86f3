SPECIFICATION Spec
CONSTANTS
  SizeModulus = 8
  Nanos = 4
  Millis = 2
  MaxStart = 4
  MaxTicks = 13
  MaxMillis = 5
  MaxOverhead = 2
  Behaviours <- MCBehaviours
  Values <- MCValues
  Overheads <- MCOverheads
INVARIANTS
  TypeOK
  VerdictIsTrue
  VerdictIsFounded
  NoCaptureLeft
