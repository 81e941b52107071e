SPECIFICATION Spec
CONSTANTS
  Objects <- MCObjects
  Clusters <- MCClusters
  Requests <- MCRequests
  Absent = Absent
  NotAString = NotAString
  MaxChanges = 3
INVARIANTS
  TypeOK
  AnswerIsRegular
  VerdictIsTrue
  NumbersOfMoments
  ToolsUnderstood
CHECK_DEADLOCK FALSE
