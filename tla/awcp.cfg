SPECIFICATION FairSpec
CONSTANTS
  Id = d1
  NoId = NoId
  DCalls = {c1, c2}
  ECalls = {e1, e2}
  DMaxStarts = 2
  EMaxStarts = 2
INVARIANTS ServicesKeepTheirInvariants WaitIsJustified ConfirmedCancelHolds
PROPERTY Contract
CHECK_DEADLOCK FALSE
