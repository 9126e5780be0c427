\* Three rounds of a node, the first with a report that is refused (too large),
\* over a network that delays, reorders and loses, with the state file and one
\* crash of the portal.  Rounds, time and restarts run out: the fleet comes to
\* rest.
CONSTANTS
  n1 = n1
  p1 = p1  p2 = p2  p3 = p3
  none = none
  Node = {n1}
  Push = {p1, p2, p3}
  Authorized = {p1, p2, p3}
  WellFormed = {p2, p3}
  NodeOf <- NodeOfDef
  RoundOf <- RoundOfDef
  Saver <- SaverDef
  Map <- MapDef
  EmptyMap <- EmptyMapDef
  Size <- SizeDef
  IOErrors = FALSE
  None <- none
  TokenSet = TRUE
  Persist = TRUE
  MaxTime = 1
  ClockSteps <- ForwardClock
  MaxRestarts = 1
  PowerFails = FALSE
CHECK_DEADLOCK FALSE
SPECIFICATION FairFleetSpec
INVARIANTS FleetTypeOK AckedSurvives
PROPERTIES OnlyAbandonedOvertakes NextPushHeals
