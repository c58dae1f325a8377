SPECIFICATION JobSpec
CONSTANTS
  p1 = p1
  p2 = p2
  g1 = g1
  g2 = g2
  a1 = a1
  Partitions <- TwoPartitions
  Groups <- TwoGroups
  Admins <- OneAdmin
INVARIANTS
  TypeOK
  SuccessIsComplete
  StatusIsAccounted
  NothingInFlightAtReport
  GroupsNeedTenant
  FailureHasCause
PROPERTIES
  AnswersAreFinal
  ReportIsHonest
  JobEnds
