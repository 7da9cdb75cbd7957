SPECIFICATION FairSpec
CONSTANTS
  x = x
  y = y
  NoBlock = NoBlock
  Blocks = {x, y}
  Service = TRUE
  Faults = TRUE
  RingSize = 2
  SocketSize = 2
  MaxWrites = 4
INVARIANTS
  TypeOK
  OnlyWindowLost
PROPERTIES
  InOrderOnce
  Terminates
CHECK_DEADLOCK FALSE
