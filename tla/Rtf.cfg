CONSTANTS
  Nibble = 2
  FlagBits = 2
  Header <- MCHeader
  Streams <- MCStreams
SPECIFICATION Spec
INVARIANTS WindowIsRecent TextReturned
PROPERTIES ImplementsWindow DecodeReturns
CHECK_DEADLOCK FALSE
