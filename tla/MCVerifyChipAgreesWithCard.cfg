\* A platform whose TCB is out of date.
CONSTANTS
  bad = bad  td = td  sgx = sgx  forged = forged
  m1 = m1  m1upper = m1upper  m2 = m2
  none = none
  None <- none
  Reports <- OneCvm
  Cert <- CertDef
  Quote <- QuoteDef
  QuoteIn <- QuoteInDef
  Kind <- KindDef
  Claim <- ClaimDef
  Folded <- FoldedDef
  Regs <- RegsDef
  Listable <- ListableDef
CHECK_DEADLOCK FALSE
SPECIFICATION Spec
INVARIANT ChipAgreesWithCard
