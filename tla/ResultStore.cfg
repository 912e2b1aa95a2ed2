SPECIFICATION ServiceFairSpec
CONSTANTS
  a1 = a1
  a2 = a2
  r1 = r1
  r2 = r2
  k1 = k1
  k2 = k2
  s1 = s1
  l1 = l1
  l2 = l2
  v1 = v1
  Applicant = {a1, a2}
  Domain <- TwoApplicants
  Run = {r1, r2}
  Recheck = {k1, k2}
  Rank = {1}
  Summary = {s1}
  Listing = {l1, l2}
  Advice = {v1}
  Filter <- Filters
  StartedAt <- Starts
  Load <- Loads
CHECK_DEADLOCK FALSE
INVARIANTS StoreTypeOK UniqueDomains AllOrNothing EveryRunLeavesARow
           
           ReaderTypeOK SummaryGrows UnfilteredListsAgree
PROPERTIES NoMeasurementReturns ImplementsLedger RequestsEnd
