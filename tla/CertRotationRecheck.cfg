SPECIFICATION Spec
CONSTANTS
  MaxCerts = 3
  MaxFailures = 0
INVARIANT CannotUpdateIsTrue
