\* HCS: the request for which an agreement was abandoned.
CONSTANTS
  Buyers = {b1}
  FirstBuyer = b1
  Seller = seller
  Deployments <- MCOnlyHCS
  PeriodDriven = TRUE
  IncomingCap = 1
  MaxRequests = 2
  MaxRounds = 2
SPECIFICATION CommerceSpec
INVARIANTS NewcomerIsSeen
CHECK_DEADLOCK FALSE
