\* Two clients, two requests each: short ones, some that just fit one read, some too long.
SPECIFICATION FairSpec
CONSTANTS
  Clients = {c1, c2}
  Nobody = Nobody
  NoPid = NoPid
  Sizes = {1, 2, 3}
  ReadSize = 2
  MaxRequests = 2
  Budget <- OneOfEach
INVARIANTS
  OwnAnswer
  NameKept
PROPERTIES
  LostBehindAnother
  ServerFree
  Answered
CHECK_DEADLOCK FALSE
