SPECIFICATION FairSpec
CONSTANTS
  Branch = {b1, b2, b3}
  Setting <- Settings
INVARIANTS GraphTypeOK CompletedIsWhole PartialHasCause ReportAgrees
PROPERTIES FailedOnlyByCrash RunEnds
CHECK_DEADLOCK FALSE
