SPECIFICATION FairFlashSpec
CONSTANTS
  SectorPages = 2
  Sectors = 2
  AddressSectors = 4
  MarginPages = 1
  Files = {0, 1, 2, 3, 5}
  MaxClientCalls = 3
INVARIANTS FileWritten CallsWork
PROPERTY ProgramEnds
CHECK_DEADLOCK FALSE
