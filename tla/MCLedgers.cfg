\* Each ledger by itself.  The contract: two escrows that share one token and one contract, with
\* and without an arbiter.  In memory: two escrows, two releases.  The store: two callers, two
\* entries, one crash.  The registry: a key and a contract, three tokens.  The clients: two
\* processes of the key that are started three times between them, two tokens.
CONSTANTS
  Tokens = {t1}
  Addr = {buyer, seller, other}
  Buyer = buyer
  Seller = seller
  Arbiter = other
  ZeroAddr = zero
  EscrowAddr = contract
  EscrowTerms <- MCTerms
  Payers = {buyer}
  Recipients = {seller, contract, zero}
  Amounts = {1}
  MaxSupply = 2
  MaxEscrows = 2
  MaxReleases = 2
  MaxTime = 1
  Amount = {1, 2}
  Timeout = {0, 1}
  MaxNextID = 2
  MaxRelease = 2
  MaxBalance = 3
  MaxClock = 1
  Goroutines = {g1, g2}
  RequestIDs = {q1, q2}
  States = {a}
  MaxNow = 1
  MaxCrashes = 1
  k1 = k1
  k2 = k2
  s1 = s1
  s2 = s2
  uri1 = uri1
  uri2 = uri2
  Accounts = {k1, k2}
  Contracts = {k2}
  NoOne = nobody
  URIs = {uri1, uri2}
  NoURI = empty
  MaxAgents = 3
  Starters = {s1, s2}
  KeyOf <- MCKeyOf
  Wanted <- MCWanted
  Edge <- MCEdge
  MaxStarts = 3
SPECIFICATION LedgersSpec
INVARIANTS LedgersTypeOK PendingCovered Solvent FundsNeverStuck StoreKeeps
  ReverseMappingExact URIFollowsToken SuccessIsOnChain
PROPERTIES OnlyReleaseOrRefundPays KeepsThePromise
CHECK_DEADLOCK FALSE
