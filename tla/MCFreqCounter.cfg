SPECIFICATION FairSpec
CONSTANTS
  Confrds = {c}
  Tools = {t}
  Pins = {0, 1}
  Width = 4
  Cycles = {0, 2}
  MaxRuns = 2
  MaxFds = 2
  MaxKills = 1
  None = None
INVARIANTS Handshake OwnMeasurement
PROPERTIES ParametersHold MeasurementEnds
