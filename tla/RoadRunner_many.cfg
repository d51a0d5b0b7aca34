\* Two children, an early timeout, a failing call, packets overtaking one another
\* freely, and a short last block.
SPECIFICATION Spec
CONSTANTS
  c1 = c1
  c2 = c2
  Children = {c1, c2}
  WindowSize = 2
  BlockSize = 2
  NumWindows = 3
  LastCount = 1
  LastLen = 1
  NumEofAcks = 1
  MaxRequests = 2
  Overtaking = TRUE
  Budget <- EarlyAndError
INVARIANTS
  NoRunAhead
  ParityKept
SYMMETRY Symmetry
CHECK_DEADLOCK FALSE
