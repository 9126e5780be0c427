\* One node pushed twice, with the state file, one
\* restart after a loss of power (which includes a crash), and an I/O error
\* possible at every step of every save.  Pushes, time and restarts run out, so
\* the portal may come to rest.
CONSTANTS
  n1 = n1  n2 = n2
  p1 = p1  p2 = p2  p3 = p3  p4 = p4
  none = none
  Node = {n1}
  Push = {p1, p2}
  Authorized = {p1, p2, p3}
  WellFormed = {p1, p2, p3, p4}
  NodeOf <- NodeOfDef
  Saver <- SaverDef
  Map <- MapDef
  EmptyMap <- EmptyMapDef
  Size <- SizeDef
  IOErrors = TRUE
  None <- none
  TokenSet = TRUE
  Persist = TRUE
  MaxTime = 1
  ClockSteps <- ForwardClock
  MaxRestarts = 1
  PowerFails = TRUE
CHECK_DEADLOCK FALSE
SPECIFICATION FairSpec
INVARIANTS TypeOK VerdictsOfSameSecond PendingIsInHand MirrorFaithful
PROPERTIES StoreSpec JudgedWhileAlive
