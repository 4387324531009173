CONSTANTS
  Files <- MCFiles
  Iterators = {i1, i2}
  MaxFaults = 2
SPECIFICATION Spec
INVARIANTS CacheWhole AllOrError ErrorsExplained
PROPERTIES ImplementsCursor LoopEnds
CHECK_DEADLOCK FALSE
