CONSTANTS
  IO_BLOCK = 2
  MaxBytes = 7
  Blocks = 2
  Buffer = 1
  MaxRuns = 3
  Body <- Bodies
  MaxDuration = 6
  DefaultDuration = 2
  Word16 = 4
  Word32 = 8
SPECIFICATION FairSpec
CHECK_DEADLOCK FALSE
INVARIANTS TypeOK RequestHonoured RunningImageIntact ErasedBeforeWritten FlashReportTrue NvsLeftClean
  EvidenceAgrees
PROPERTY NetworkRunEnds
