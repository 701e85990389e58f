\* Two buyers and their retries, with timeouts, crashes and restarts on all sides, on either
\* bus; and one buyer alone while nothing fails.
CONSTANTS
  Buyers = {b1, b2}
  FirstBuyer = b1
  Seller = seller
  Deployments <- MCDeployments
  PeriodDriven = TRUE
  IncomingCap = 1
  MaxRequests = 2
  MaxRounds = 3
SPECIFICATION CommerceSpec
INVARIANTS ServedIsFunded ApprovedIsPaid InvoicedOnce
PROPERTIES KeepsPromise FundedIsPaid
CHECK_DEADLOCK FALSE
