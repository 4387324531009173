CONSTANTS
  MaxFaults = 1
  Heaps <- MCHeaps
  HNIDs <- MCHNIDs
  Descriptors <- MCDescriptors
  Garbage = {0, 5, 300}
  Tables <- MCTables
  BlockBytes = 12
  PropertyIDs = {12289, 26610, 13826, 13834}
  Word = 8
  Shift = 8
  PropertySets = 3
  PropertySetMAPI = 0
  PropertySetPublicStrings = 1
  Maps <- MCMaps
  Documents <- MCDocuments
  Damaged <- MCDamaged
  MessageOf <- MCMessageOf
  FieldTypes = {3, 11, 30, 31}
  MaxIds <- MCMaxIds
  Failures <- MCFailures
SPECIFICATION Spec
INVARIANTS TypeOK ItemResolved TableAsStored NamesResolved GeneratedAsWritten
CHECK_DEADLOCK FALSE
