SPECIFICATION BranchFairSpec
CONSTANTS
  MaxResults = 3
  MaxItems = 2
  RankGiven = {1, 4, 12}
  VolumeGiven = {0, 100, 100000}
  IndexGiven = {0, 30, 100}
  DemandOf <- Demand
  SubQuery <- Plans
  Proposable <- Calls
  MaxCalls = 2
CHECK_DEADLOCK FALSE
INVARIANTS MeasureTypeOK VerdictOfEvidence UnknownIsNoOpportunity BadPayloadContained
           BranchTypeOK OnlyGatedCalls ModelCannotStopBranch AbsenceWasLookedFor
PROPERTIES BranchEnds
