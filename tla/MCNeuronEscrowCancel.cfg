\* A refund with a release outstanding, then a new deposit and a new release.
CONSTANTS
  Tokens = {t1}
  Addr = {buyer, seller}
  Buyer = buyer
  Seller = seller
  Arbiter = seller
  ZeroAddr = zero
  EscrowAddr = contract
  EscrowTerms <- MCTerms
  Payers = {buyer}
  Recipients = {seller}
  Amounts = {1}
  MaxSupply = 2
  MaxEscrows = 1
  MaxReleases = 2
  MaxTime = 0
SPECIFICATION Spec
PROPERTIES RefundCancelsReleases
CHECK_DEADLOCK FALSE
