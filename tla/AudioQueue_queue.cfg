SPECIFICATION FairSpec
CONSTANTS
  Frame = 2
  Length <- TwoFrames
  BlockSize = 3
  MaxBytes = 9
INVARIANTS
  NeverHalfWritten
PROPERTIES
  FifoImplemented
  DropExplained
  DrainEnds
CHECK_DEADLOCK FALSE
