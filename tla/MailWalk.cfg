CONSTANTS
  f1 = f1 f2 = f2 f3 = f3 f4 = f4 f5 = f5 f6 = f6
  m1 = m1 m2 = m2 m3 = m3
  Folder <- MCFolder
  RootFolder = f1
  Message <- MCMessage
  SubFolders <- MCSubFolders
  HasSubFolders <- MCHasSubFolders
  MessageCount <- MCMessageCount
  SearchFolder <- MCSearchFolder
  Rows <- MCRows
  Files <- MCFiles
  Walk <- MCWalk
  Rest <- MCRest
  MaxFaults = 2
SPECIFICATION Spec
INVARIANTS PointersStable WalkInOrder NothingLost ErrorsJustified
PROPERTIES WalkReturns
CHECK_DEADLOCK FALSE
