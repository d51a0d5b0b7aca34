\* One lost packet in a last window of two blocks whose last block is short.
SPECIFICATION Spec
CONSTANTS
  c1 = c1
  Children = {c1}
  WindowSize = 2
  BlockSize = 2
  NumWindows = 1
  LastCount = 2
  LastLen = 1
  NumEofAcks = 2
  MaxRequests = 1
  Overtaking = FALSE
  Budget <- LossOnly
INVARIANT FileIntact
CHECK_DEADLOCK FALSE
