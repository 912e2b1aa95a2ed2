SPECIFICATION BranchSpec
CONSTANTS
  MaxResults = 2
  MaxItems = 1
  RankGiven = {1, 4, 12}
  VolumeGiven = {0, 100, 100000}
  IndexGiven <- OutOfRange
  DemandOf <- Demand
  SubQuery <- Plans
  Proposable <- Calls
  MaxCalls = 2
CHECK_DEADLOCK FALSE
INVARIANTS BadPayloadContained
