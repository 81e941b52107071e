SPECIFICATION FairSpec
CONSTANTS
  p1 = p1
  p2 = p2
  n1 = n1
  pod = pod
  node = node
  Objects = {p1, n1}
  Kinds = {pod, node}
  KindOf <- KindsOfTwo
  QueueCap = 2
  BatchSize = 2
  MaxRv = 3
  MaxTries = 2
  MaxRestarts = 1
  RequestsFail = TRUE
INVARIANTS
  TypeOK
  DeltaBounds
  NothingLostUncounted
  QuietMeansInSync
PROPERTIES
  ViewNeverGoesBack
  KeepsPromise
  CatchesUp
CHECK_DEADLOCK FALSE
