SPECIFICATION ClientFairSpec
CONSTANTS
  Call = {c1, c2}
  FailureThreshold = 2
  ResetSeconds = 2
  HalfOpenSuccesses = 1
  FailureCap = 2
  MayCancel = TRUE
  MaxAttempts = 3
  InitialSeconds = 1
  Multiplier = 2
  MaxSeconds = 2
  JitterPercent = 50
  Reply <- Replies
INVARIANTS ClientTypeOK TrafficWhileOpenBounded TransientFailureRetried
PROPERTIES BlamedOnlyWhenExhausted RetryNotBeforeAsked ExecutionsEnd
