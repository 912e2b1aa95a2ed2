SPECIFICATION Spec
CONSTANTS
  Branch = {b1, b2, b3}
  Setting <- PerTask
INVARIANTS PartialNeedsShortfall
CHECK_DEADLOCK FALSE
