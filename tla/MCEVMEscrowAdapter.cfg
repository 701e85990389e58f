\* One worker of the buyer with one or two of the seller, or two workers of the buyer that share
\* its key and, as in multistream-buyer, a mutex: every operation, retries, lost waits.
CONSTANTS
  Tokens = {t1}
  Token = t1
  Addr = {buyer, seller}
  Buyer = buyer
  Seller = seller
  ZeroAddr = zero
  EscrowAddr = contract
  EscrowTerms <- MCTerms
  Payers = {buyer}
  Recipients = {seller}
  Amounts = {1}
  MaxSupply = 2
  MaxEscrows = 2
  MaxReleases = 2
  MaxTime = 1
  Callers = {w1, w2, s1, s2}
  BuyerCallers = {w1, w2}
  w1 = w1
  w2 = w2
  s1 = s1
  s2 = s2
  NoCaller = none
  AccountOf <- MCAccountOf
  OperationsOf <- MCOperationsOf
  Serialized = {buyer}
  CallLimits <- MCCallLimits
SPECIFICATION AdapterSpec
INVARIANTS OkIsTrue IdsAreOwn
PROPERTIES OperationsReturn
CHECK_DEADLOCK FALSE
