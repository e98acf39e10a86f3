SPECIFICATION Spec
CONSTANTS
  Inputs <- MCInputs
  MaxApis = 3
  MaxFaults = 4
INVARIANTS
  TypeOK
  VerdictIsFounded
  ReceiptAgrees
