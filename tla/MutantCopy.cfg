SPECIFICATION Spec
CONSTANTS
  Codes = {0, 1}
  Suffix = "2"
  Ignored = {"build"}
  MaxKept = 2
  Elsewhere <- MCElsewhere
  Names <- MCNames
  Cases <- MCCases
INVARIANTS
  TypeOK
  MutantIsTested
  RemovalIsThorough
PROPERTIES
  ProjectNeverEdited
  KeepsToCampaign
