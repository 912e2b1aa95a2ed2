SPECIFICATION FairSpec
CONSTANTS
  Call = {c1, c2, c3}
  FailureThreshold = 2
  ResetSeconds = 2
  HalfOpenSuccesses = 1
  FailureCap = 3
  MayCancel = TRUE
PROPERTIES SlotsComeBack
