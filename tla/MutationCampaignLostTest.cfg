SPECIFICATION Spec
CONSTANTS
  Codes = {0, 1}
  MaxMutants = 3
  MaxSites = 3
INVARIANT ZeroMeansEveryMutantKilled
