SPECIFICATION Spec
CONSTANTS
  MaxFaults = 1
  Leftovers <- SomeLeftovers
INVARIANTS TypeOK GreenIsReported HealthyRunIsGreen OnlyLateThingsStay
PROPERTIES CleanupOrder RunEnds
