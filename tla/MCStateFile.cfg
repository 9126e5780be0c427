\* save_state on its own: any calls, in any interleaving, with crashes and
\* I/O errors.  The calls are interchangeable; every call is made at most once
\* and a crash may always happen, so there is no deadlock.
CONSTANTS
  s1 = s1  s2 = s2  s3 = s3
  empty = empty  brief = brief  long = long
  none = none
  Saver <- SaverDef
  Map <- MapDef
  EmptyMap <- empty
  Size <- SizeDef
  IOErrors = TRUE
  None <- none
SYMMETRY Calls
SPECIFICATION FileSpec
INVARIANTS FileTypeOK NeverTorn LoadedIsASnapshot
PROPERTY OnlyRenamePublishes
