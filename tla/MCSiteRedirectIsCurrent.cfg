\* A keystore redeployed on a node that still lists the old CVM.
CONSTANTS
  n1 = n1  n2 = n2
  p1 = p1  p2 = p2  p3 = p3  p4 = p4
  none = none
  Node = {n1, n2}
  Push = {p1, p2, p3, p4}
  Authorized = {p1, p2, p3}
  WellFormed = {p1, p2, p3, p4}
  NodeOf <- NodeOfDef
  NodeOrder <- NodeOrderDef
  CvmsOf <- Report
  VerdictsOf <- Outcomes
  Cert <- Numbers
  Quote <- Numbers
  QuoteIn <- QuoteInDef
  Kind <- KindDef
  Claim <- ClaimDef
  Folded <- FoldedDef
  Regs <- RegsDef
  Networks = {"mainnet", "testnet"}
  LiveFor = 1
  StaleFor = 2
  Saver <- SaverDef
  Map <- MapDef
  EmptyMap <- EmptyMapDef
  Size <- SizeDef
  IOErrors = FALSE
  None <- none
  TokenSet = TRUE
  Persist = FALSE
  MaxTime = 1
  ClockSteps <- ForwardClock
  MaxRestarts = 1
  PowerFails = FALSE
CHECK_DEADLOCK FALSE
SPECIFICATION SiteSpec
INVARIANT RedirectIsCurrent
