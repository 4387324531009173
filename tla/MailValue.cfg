CONSTANTS
  f1 = f1 f2 = f2 f3 = f3 f4 = f4 f5 = f5 f6 = f6
  m1 = m1 m2 = m2 m3 = m3
  Folder <- MCFolder
  RootFolder = f1
  Message <- MCMessage
  SubFolders <- MCSubFolders
  HasSubFolders <- MCHasSubFolders
  MessageCount <- MCMessageCount
  SearchFolder <- MCSearchFolder
  Rows <- MCRows
  Files <- Undamaged
  Walk <- MCWalk
  Rest <- MCRest
  MaxFaults = 0
SPECIFICATION Spec
INVARIANT ValuePresent
CHECK_DEADLOCK FALSE
