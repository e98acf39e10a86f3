SPECIFICATION Spec
CONSTANTS
  Codes = {0, 1}
  Suffix = "2"
  Ignored = {"build"}
  MaxKept = 0
  Elsewhere <- MCElsewhere
  Names <- MCNames
  Cases <- MCCases
INVARIANT KilledMeansRejected
