CONSTANTS
  Depth = 3
  SyncStages = 2
  MaxVectors = 5
SPECIFICATION Spec
INVARIANTS TypeOK Paired ResultsInOrder
PROPERTIES DrainedBeforeAct InOrder
