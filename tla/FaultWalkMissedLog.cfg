SPECIFICATION Spec
CONSTANTS
  MaxCases = 2
  MaxFailuresLimit = 3
  GroupLimit = 1
  Missable = {"faults"}
  Unset = Unset
  FailureSets <- MCFailureSets
  InheritedSets <- MCInheritedSets
  Inherited = Inherited
  Requests <- MCRequests
  NoName = NoName
  Names <- MCNames
  Worlds <- MCWorlds
  Leftover <- MCLeftover
  Nothing <- Nil
INVARIANT
  ExhaustedMeansNoFaultFired
