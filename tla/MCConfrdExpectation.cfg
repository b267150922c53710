CONSTANTS
  SRAM_SIZE = 56
  ChunkSize = 16
  Files <- MeasureBetween
  MaxFiles = 1
SPECIFICATION Spec
INVARIANT ExpectationOfItsOwn
