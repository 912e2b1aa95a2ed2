SPECIFICATION FairSpec
CONSTANTS
  Call = {c1, c2, c3, c4}
  FailureThreshold = 2
  ResetSeconds = 2
  HalfOpenSuccesses = 2
  FailureCap = 3
  MayCancel = TRUE
INVARIANTS TypeOK SlotAccounting SlotsHaveOwners
PROPERTIES ImplementsDiagram OnlyLeakedSlotsBlock
