CONSTANTS
  Word = 64
  SIEntrySize = 16
  SLEntrySize = 24
  Files <- MCFiles
  Upto <- MCUpto
  Below <- MCBelow
  MaxCalls = 2
  MaxFaults = 1
SPECIFICATION Spec
INVARIANTS AllInOrder Verdict
PROPERTIES CallReturns
CHECK_DEADLOCK FALSE
