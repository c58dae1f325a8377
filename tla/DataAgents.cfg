SPECIFICATION Spec
CONSTANTS
  PartitionCount = 2
  SeedPartitions = 2
  MaxRetry = 2
  MaxRetryCount = 2
  PodSets <- PodsTogether
INVARIANTS
  TypeOK
  ExitIsHonest
  GroupsNeedTenant
  LostToRaceOrFailedGet
  SeedingIsComplete
  TransferIsComplete
PROPERTIES
  ExitIsAReport
  AgentsExit
