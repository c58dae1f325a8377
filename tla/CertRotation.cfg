SPECIFICATION Spec
CONSTANTS
  MaxCerts = 3
  MaxFailures = 2
PROPERTIES
  OnlyOverlapSetsBack
  PlacesConverge
