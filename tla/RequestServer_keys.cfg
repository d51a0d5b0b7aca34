\* Two clients; a list with both, one with c2's key beside another address, one with c2's
\* address beside another key, one cut short and an empty one; the file there or not, and one
\* failing call.
SPECIFICATION FairSpec
CONSTANTS
  c1 = c1
  c2 = c2
  Clients = {c1, c2}
  Bits = {0, 1}
  LowBits = {0}
  Address <- Hosts
  Key <- Keys
  Lists <- AclFiles
  Content <- Data
  Coding = TRUE
  MaxFaults = 1
INVARIANTS
  TypeOK
  OwnKey
  FileDecoded
PROPERTY ListedServed
CHECK_DEADLOCK FALSE
