SPECIFICATION FairSpec
CONSTANTS
  Requests = {r1}
  MaxConns = 3
INVARIANTS
  TypeOK
  ResultOnceAndLast
  LostOnlyWithConnection
PROPERTIES
  EveryCommandEnds
  PingersEnd
CHECK_DEADLOCK FALSE
