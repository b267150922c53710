CONSTANTS
  SRAM_SIZE = 56
  ChunkSize = 16
  Files <- ShortAndLong
  MaxFiles = 2
SPECIFICATION FairSpec
INVARIANTS RunsTheFile UploadedOnce SmallFileReported
PROPERTY FileEnds
