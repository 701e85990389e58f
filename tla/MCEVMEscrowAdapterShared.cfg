\* Two workers of the buyer share its key and deposit at the same time.
CONSTANTS
  Tokens = {t1}
  Token = t1
  Addr = {buyer, seller}
  Buyer = buyer
  Seller = seller
  ZeroAddr = zero
  EscrowAddr = contract
  EscrowTerms <- MCTerms
  Payers = {buyer}
  Recipients = {seller}
  Amounts = {1}
  MaxSupply = 2
  MaxEscrows = 2
  MaxReleases = 1
  MaxTime = 0
  Callers = {w1, w2, s1, s2}
  BuyerCallers = {w1, w2}
  w1 = w1
  w2 = w2
  s1 = s1
  s2 = s2
  NoCaller = none
  AccountOf <- MCAccountOf
  OperationsOf <- MCOperationsOf
  Serialized = {}
  CallLimits <- MCTwoWorkers
SPECIFICATION AdapterSpec
INVARIANTS DepositAddsFunds
CHECK_DEADLOCK FALSE
