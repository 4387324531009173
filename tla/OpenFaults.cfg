CONSTANTS
  Page <- MCPage
  Root <- MCRoot
  PageLevel <- MCPageLevel
  Ids <- MCIds
  Child <- MCChild
  Span <- MCSpan
  Keys <- MCKeys
  Payload <- MCPayload
  Garbage <- MCGarbage
  Headers <- AllHeaders
  MaxOpens = 3
  MaxFaults = 2
  FaultKinds <- AllFaults
  MaxCrashes = 1
  Durable = TRUE
SPECIFICATION Spec
INVARIANTS NoConflict LeafGenuine DamageConfined
PROPERTIES ImplementsDirectory Settles
CHECK_DEADLOCK FALSE
