SPECIFICATION Spec
CONSTANTS
  Inputs <- MCInputs
  MaxApis = 3
  MaxFaults = 4
INVARIANT ReceiptNamesItsCounters
