\* Every kind of CVM alone, and some pairs, in every state of the world.  The
\* task ends; the world goes on.
CONSTANTS
  bad = bad  td = td  sgx = sgx  forged = forged
  m1 = m1  m1upper = m1upper  m2 = m2
  none = none
  None <- none
  Reports <- ReportsDef
  Cert <- CertDef
  Quote <- QuoteDef
  QuoteIn <- QuoteInDef
  Kind <- KindDef
  Claim <- ClaimDef
  Folded <- FoldedDef
  Regs <- RegsDef
  Listable <- ListableDef
CHECK_DEADLOCK FALSE
SPECIFICATION FairSpec
INVARIANTS TypeOK NoSilentOutcome ClaimsAreMarked ApprovedIsShown RedChipIsExplained
PROPERTIES GreenMeansGenuine VerificationSpec ReportJudged
