SPECIFICATION FairSpec
CONSTANTS
  g = g
  NoGroup = NoGroup
  ClusterIDs = {1, 2}
  Groups = {g}
  Tools = {t1}
  Definitions = {}
  Requests = {r1}
  Targets <- MCTargets
  MaxSeen = 2
INVARIANTS
  TypeOK
  ResultsMatchTargets
  TargetsOfferedTool
  TargetsOfOneMoment
  NamedTargetsKept
  AuditMatchesAnswer
PROPERTIES
  InvokeReturns
CHECK_DEADLOCK FALSE
