\* Two routers, two clients, one table, one port of the first taken.
SPECIFICATION FairSpec
CONSTANTS
  Routers <- TwoRouters
  Clients = {1, 2}
  Server = 3
  Conf = 4
  Ports = {1, 2, 3, 4, 10, 11, 12, 18, 19, 20, 21, 22}
  StartPort <- TwoStart
  Target <- TwoTarget
  Overlays <- OneTable
  QueueLimit = 1
  Contested = {11}
  MaxForeign = 1
INVARIANTS
  NoSharedSocket
  LearntFirst
PROPERTY Answered
CHECK_DEADLOCK FALSE
