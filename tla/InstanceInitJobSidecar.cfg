SPECIFICATION JobSpec
CONSTANTS
  p1 = p1
  p2 = p2
  g1 = g1
  g2 = g2
  a1 = a1
  Partitions <- TwoPartitions
  Groups <- OneGroup
  Admins <- OneAdmin
PROPERTY SidecarIsAskedToQuit
