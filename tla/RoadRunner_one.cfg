\* One child, a network that loses, duplicates, reorders within a window and
\* delays; the last block of the file is full, so it carries the dummy byte.
SPECIFICATION FairSpec
CONSTANTS
  c1 = c1
  Children = {c1}
  WindowSize = 2
  BlockSize = 2
  NumWindows = 4
  LastCount = 2
  LastLen = 2
  NumEofAcks = 3
  MaxRequests = 3
  Overtaking = FALSE
  Budget <- NetworkFaults
INVARIANTS
  FileIntact
PROPERTIES
  TransferImplemented
  BothTerminate
CHECK_DEADLOCK FALSE
