SPECIFICATION Spec
CONSTANTS
  PartitionCount = 1
  SeedPartitions = 1
  MaxRetry = 1
  MaxRetryCount = 1
  PodSets <- PartitionPod
INVARIANT AcceptedAgentSucceeds
