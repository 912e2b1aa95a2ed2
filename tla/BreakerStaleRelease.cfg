SPECIFICATION Spec
CONSTANTS
  Call = {c1, c2, c3}
  FailureThreshold = 1
  ResetSeconds = 2
  HalfOpenSuccesses = 1
  FailureCap = 2
  MayCancel = FALSE
INVARIANTS ProbesWithinQuota
