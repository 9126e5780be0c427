\* Two pushes of a node in one second.
CONSTANTS
  n1 = n1  n2 = n2
  p1 = p1  p2 = p2  p3 = p3  p4 = p4
  none = none
  Node = {n1}
  Push = {p1, p2}
  Authorized = {p1, p2, p3}
  WellFormed = {p1, p2, p3, p4}
  NodeOf <- NodeOfDef
  Saver <- SaverDef
  Map <- MapDef
  EmptyMap <- EmptyMapDef
  Size <- SizeDef
  IOErrors = TRUE
  None <- none
  TokenSet = TRUE
  Persist = FALSE
  MaxTime = 0
  ClockSteps <- ForwardClock
  MaxRestarts = 0
  PowerFails = FALSE
CHECK_DEADLOCK FALSE
SPECIFICATION Spec
INVARIANT OwnVerdicts
