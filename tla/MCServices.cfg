\* Each service by itself.  Delivery: two goroutines that open and close two channels to one
\* peer, one reconnection at a time, or one that does so with one channel, two reconnections;
\* delays 1 and then the cap against a budget of 3.  Validator:
\* two agreements, with and without a reused request id, one replay.  Tasking: two
\* consumers, one with a stream, two tasks, one failed write, two runs of the seller.  Sessions:
\* two buyers and two sessions of one seller, with and without a contract and faults.
CONSTANTS
  u2 = u2
  r2 = r2
  Peers = {p1}
  Users = {u1, u2}
  Readers = {r1, r2}
  MaxChannels = 2
  MaxStreams = 3
  InitialDelay = 1
  Factor = 2
  MaxDelay = 1
  MaxDuration = 3
  DialTimeout = 1
  NAgreements = 2
  Reuse = {TRUE, FALSE}
  MaxReplays = 1
  Consumers = {c1, c2}
  Sessions = {c1}
  MaxTasks = 2
  MaxFaults = 1
  MaxRuns = 2
  Buyers = {b1, b2}
  Seller = sel
  Offers <- MCOffers
  MaxSessions = 2
SPECIFICATION ServicesSpec
INVARIANTS ServicesTypeOK ConnectedHasStream ProtectionReleased EvidenceIsSound
  GateIsLastControl AcknowledgedIsObeyed ReportedIsPaid
PROPERTIES ReconnectionEnds LaneIsConsumed FirstIsSettled
CHECK_DEADLOCK FALSE
