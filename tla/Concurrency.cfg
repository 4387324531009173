CONSTANTS
  r1 = r1 r2 = r2 r3 = r3
  o1 = o1 o2 = o2 o3 = o3
  Reads = {r1, r2, r3}
  QueueSlots = 2
  Openers = {o1, o2, o3}
  WalkOrder <- MCWalkOrder
  MapID = 97
SPECIFICATION SpecParallel
INVARIANTS OneOutcome OneWalkFills
PROPERTIES ReadsAnswered CompleteUnlessPanic
CHECK_DEADLOCK FALSE
