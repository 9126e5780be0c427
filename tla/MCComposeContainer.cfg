\* An image that comes after a nested mapping.
CONSTANTS
  none = none
  None <- none
  Files <- FilesDef
  Names = {"worker", "proxy", "environment", "x-common"}
  Images = {"near-outlayer", "postgres", "template"}
  Outlayer = {"near-outlayer"}
  Versioned = TRUE
CHECK_DEADLOCK FALSE
SPECIFICATION Spec
INVARIANT ContainerIsService
