SPECIFICATION FairSpec
CONSTANTS
  p1 = p1
  p2 = p2
  n1 = n1
  pod = pod
  node = node
  Objects = {p1, p2, n1}
  Kinds = {pod, node}
  KindOf <- KindsOfThree
  QueueCap = 2
  BatchSize = 2
  MaxRv = 1
  MaxTries = 2
  MaxRestarts = 0
  RequestsFail = FALSE
PROPERTIES
  CatchesUpRegardless
CHECK_DEADLOCK FALSE
