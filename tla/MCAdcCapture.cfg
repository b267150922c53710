SPECIFICATION FairSpec
CONSTANTS
  LastAddress = 3
  PowerUp = 2
  MaxCaptures = 3
  MaxKills = 2
INVARIANTS SramShared UploadsCapture
PROPERTY MeasurementEnds
