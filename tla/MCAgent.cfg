\* Two VMs that share two ports, and everything that can fail.
CONSTANTS
  v1 = v1  v2 = v2
  none = none
  None <- none
  VM = {v1, v2}
  Port = {a, b}
SPECIFICATION FairSpec
INVARIANT NothingLeftOut
PROPERTIES EvidenceIsOwn CollectionSpec RoundsGoOn
