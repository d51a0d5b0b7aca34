\* Two children, a file of two blocks, two empty packets, one fault of each kind.
SPECIFICATION FairSpec
CONSTANTS
  c1 = c1
  c2 = c2
  Children = {c1, c2}
  NumBlocks = 2
  EofTries = 2
  MaxRequests = 2
  Budget <- OneOfEach
INVARIANTS
  SenderOrder
  SomeoneComplete
  OwnFeedback
PROPERTY StreamEnds
CHECK_DEADLOCK FALSE
