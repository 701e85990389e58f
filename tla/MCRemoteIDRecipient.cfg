\* One buyer, one session: who a release of the seller's price pays.
CONSTANTS
  Buyers = {b1}
  Seller = sel
  Offers <- MCOffers
  MaxSessions = 1
SPECIFICATION SessionSpec
INVARIANTS SellerIsPaid
CHECK_DEADLOCK FALSE
