\* Two clients in one directory, a file of two units in server blocks of one (65537 as 16 bits)
\* and client blocks of two, two connections at a time, one kind of fault.
SPECIFICATION FairSpec
CONSTANTS
  Clients = {c1, c2}
  Asks <- OneOdd
  Dirs = {d}
  DirOf <- SameDir
  FileLen = 2
  BlockArg = 65537
  ClientBlock = 2
  NumSlots = 2
  Backlog = 2
  MaxFaults = 1
INVARIANTS
  TypeOK
  BeginningKept
  ReportTrue
PROPERTIES
  RunEnds
  Fetched
CHECK_DEADLOCK FALSE
