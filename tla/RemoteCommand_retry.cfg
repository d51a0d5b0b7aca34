\* A client admitted with two commands and one refused with one, two attempts per command,
\* room for one connection in the queue and for two descriptors, one fault of each kind.
SPECIFICATION FairSpec
CONSTANTS
  Clients = {c1, c2}
  Admitted = {c1}
  MaxEntries <- TwoAndOne
  MaxAttempts = 2
  Backlog = 1
  MaxFds = 2
  Budget <- OneOfEach
INVARIANTS
  TypeOK
  ExecutedOnce
  OutcomeExplained
  LeakExplained
PROPERTIES
  ClientReturns
  QueueServed
CHECK_DEADLOCK FALSE
