SPECIFICATION Spec
CONSTANTS
  p1 = p1
  p2 = p2
  g1 = g1
  a1 = a1
  Partitions <- TwoPartitions
  Groups <- OneGroup
  Admins <- OneAdmin
INVARIANT EntitlementsSkippedAfterFailure
