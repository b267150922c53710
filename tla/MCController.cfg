CONSTANTS
  Depth = 2
  SyncStages = 2
  Programs <- Mixed
  MaxRuns = 2
  SettleCycles = 2
  None = None
SPECIFICATION FairSpec
INVARIANTS AlignedParse WholeVector RunComplete ChangesWhenQuiescent
PROPERTIES RefinesFlow RunsEnd
