\* One router, one client, three tables, the second of which moves the forward port.
SPECIFICATION FairSpec
CONSTANTS
  Routers <- OneRouter
  Clients = {1}
  Server = 3
  Conf = 4
  Ports = {1, 3, 4, 10, 11, 12, 13, 18, 19}
  StartPort <- OneStart
  Target <- OneTarget
  Overlays <- MovedPort
  QueueLimit = 2
  Contested = {}
  MaxForeign = 0
PROPERTY ControlServed
CHECK_DEADLOCK FALSE
