CONSTANTS
  Contexts <- MCContexts
  Values <- MCValues
  Structs <- MCStructs
  SmallValues = {"small"}
  MaxFaults = 1
SPECIFICATION Spec
INVARIANTS FieldsOfTheirKeys PopulatedWhole ErrorsExplained
CHECK_DEADLOCK FALSE
