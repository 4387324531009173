CONSTANTS
  BlockLists <- MCBlockLists
  MaxOffset = 10
  MaxWant = 10
  MaxReads = 1
  Faulty = TRUE
SPECIFICATION Spec
INVARIANTS BytesInPlace EndReported
PROPERTIES ReadReturns
CHECK_DEADLOCK FALSE
