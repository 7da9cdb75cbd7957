SPECIFICATION FairSpec
CONSTANTS
  Requests = {r1, r2, r3}
  Capacity = 2
  MaxBatches = {1, 2}
INVARIANTS
  TypeOK
PROPERTIES
  ServesWrites
  AcceptedAnswered
  StopEnds
CHECK_DEADLOCK FALSE
