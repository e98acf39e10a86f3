SPECIFICATION TestSpec
CONSTANTS
  Codes = {0, 1}
  MaxMutants = 3
  MaxSites = 3
  MaxNumber = 3
  DefaultCount = 3
  MaxOperators = 1
  Operators = {"branch", "call"}
  Seconds = {"1.5"}
  Formats = {"-d:json"}
  BadFormats = {"-d:xml"}
  Dashed = {"-x"}
  Numbers <- MCNumbers
  Lines <- MCLines
INVARIANTS
  TypeOK
  VerdictIsComplete
  NoSurvivorMissed
  FindingsAreReal
  TreesRemoved
  ReportAgrees
  CommandLineObeyed
PROPERTIES
  ImplementsTesting
