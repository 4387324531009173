CONSTANTS
  Page <- MCPage
  Root <- MCRoot
  PageLevel <- MCPageLevel
  Ids <- MCIds
  Child <- MCChild
  Span <- MCSpan
  Keys <- MCKeys
  Payload <- MCPayload
  Garbage <- MCGarbage
  Headers <- OneHeader
  MaxOpens = 1
  MaxFaults = 1
  FaultKinds <- RawFaults
  MaxCrashes = 0
  Durable = FALSE
SPECIFICATION Spec
INVARIANT NoOpenAfterReadError
CHECK_DEADLOCK FALSE
