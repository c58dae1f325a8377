SPECIFICATION Spec
CONSTANTS
  MaxFaults = 1
  Leftovers <- SomeLeftovers
PROPERTY ValidationUsesOwnAnswer
