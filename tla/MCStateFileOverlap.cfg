\* What overlapping calls do to the state file.
CONSTANTS
  s1 = s1  s2 = s2  s3 = s3
  empty = empty  brief = brief  long = long
  none = none
  Saver <- SaverDef
  Map <- MapDef
  EmptyMap <- empty
  Size <- SizeDef
  IOErrors = FALSE
  None <- none
SPECIFICATION FileSpec
INVARIANT NeverCorrupt
CHECK_DEADLOCK FALSE
