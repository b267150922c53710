CONSTANTS
  Depth = 2
  SyncStages = 1
  MaxVectors = 2
  MaxCommands = 1
  Commands = {"TRGMASK"}
  CountRange = 3
  Pins = {p}
  Masks = {{p}}
SPECIFICATION Spec
INVARIANTS ExecutedInFull ResultsOfTheirVectors NoCommandTooEarly
PROPERTY RefinesFlow
