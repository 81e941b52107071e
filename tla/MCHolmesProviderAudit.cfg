SPECIFICATION Spec
CONSTANTS
  g = g
  NoGroup = NoGroup
  ClusterIDs = {1, 2}
  Groups = {g}
  Tools = {t1}
  Definitions = {t1}
  Requests = {r1}
  Targets <- MCTargets
  MaxSeen = 2
INVARIANTS
  AuditsEveryInvocation
CHECK_DEADLOCK FALSE
