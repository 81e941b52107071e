SPECIFICATION Spec
CONSTANTS
  PingEvery = 4
  PongWait = 12
  ReadWait = 15
  HandshakeTimeout = 4
  InitialInterval = 1
  MaxInterval = 12
  MaxDelay = 7
INVARIANTS
  TypeOK
  LivePeerKept
  DeadPeerNoticed
  RedialsInTime
