\* Every file of one or two short services, with and without other blocks around
\* them.  The scan ends.
CONSTANTS
  none = none
  None <- none
  Files <- FilesDef
  Names = {"worker", "proxy", "environment", "x-common"}
  Images = {"near-outlayer", "postgres", "template"}
  Outlayer = {"near-outlayer"}
  Versioned = TRUE
CHECK_DEADLOCK FALSE
SPECIFICATION Spec
INVARIANTS EveryImageOnce ImageFirstIsNamed
