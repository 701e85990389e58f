----------------------------- MODULE MemoryEscrow -----------------------------
(***************************************************************************)
(* internal/payment/mock_escrow.go: the escrow kept in the memory of the   *)
(* demo programs (edge-seller, remoteid-seller, the SAPIENT buyer).  Every *)
(* method holds one mutex from its first line to its last, so every method *)
(* is one action; a call that returns an error changes nothing and is not  *)
(* enabled.  No method looks at who calls it.  Currency, threshold and the *)
(* hashes are stored and never read: left out.                             *)
(***************************************************************************)
EXTENDS Integers, Sequences, Functions

CONSTANTS Amount,      \* the amounts deposited and requested
          Timeout,     \* the timeouts escrows are created with
          MaxNextID,   \* bound on CreateEscrow
          MaxRelease,  \* bound on RequestRelease
          MaxBalance,  \* bound on what one escrow holds
          MaxClock     \* bound on the simulated time

ASSUME MemAssumption ==
  /\ Amount \subseteq Nat \ {0} /\ Timeout \subseteq Nat
  /\ {MaxNextID, MaxRelease, MaxBalance, MaxClock} \subseteq Nat

VARIABLES memEscrows,   \* escrows: one record per escrow, by creation order
          nextID,       \* nextID
          releaseID,    \* releaseID
          simClock      \* clock

memVars == <<memEscrows, nextID, releaseID, simClock>>

Locators == 1..MaxNextID
ReleaseLocators == 1..MaxRelease

\* Locators nobody created are not in the domain of the map.
memoryEscrowState == [timeout: Timeout, balance: 0..MaxBalance, released: Nat,
                      state: {"created", "funded", "released", "refunded"},
                      releases: UNION {[R -> Amount] : R \in SUBSET ReleaseLocators}]

MemTypeOK ==
  /\ nextID \in 0..MaxNextID
  /\ releaseID \in 0..MaxRelease
  /\ simClock \in 0..MaxClock
  /\ DOMAIN memEscrows = 1..nextID
  /\ \A e \in 1..nextID : memEscrows[e] \in memoryEscrowState

MemInit ==
  /\ memEscrows = << >>
  /\ nextID = 0
  /\ releaseID = 0
  /\ simClock = 0

-----------------------------------------------------------------------------

pendingTotal(e) == SumFunction(memEscrows[e].releases)

available(e) == memEscrows[e].balance - pendingTotal(e)

lookup(e) == e \in DOMAIN memEscrows

SetClock(t) ==
  /\ simClock' = t
  /\ UNCHANGED <<memEscrows, nextID, releaseID>>

CreateEscrow(timeout) ==
  /\ nextID < MaxNextID
  /\ nextID' = nextID + 1
  /\ memEscrows' = Append(memEscrows, [timeout |-> timeout, balance |-> 0, released |-> 0,
                                       state |-> "created", releases |-> << >>])
  /\ UNCHANGED <<releaseID, simClock>>

Deposit(e, n) ==
  /\ lookup(e)
  /\ memEscrows[e].balance + n <= MaxBalance
  /\ memEscrows' = [memEscrows EXCEPT ![e].balance = @ + n,
                                      ![e].state = IF @ = "created" THEN "funded" ELSE @]
  /\ UNCHANGED <<nextID, releaseID, simClock>>

\* One counter numbers the releases of all the escrows.
RequestRelease(e, n) ==
  /\ lookup(e)
  /\ n <= available(e)
  /\ releaseID < MaxRelease
  /\ releaseID' = releaseID + 1
  /\ memEscrows' = [memEscrows EXCEPT ![e].releases =
                      [r \in DOMAIN @ \cup {releaseID'} |-> IF r = releaseID' THEN n ELSE @[r]]]
  /\ UNCHANGED <<nextID, simClock>>

ApproveRelease(e, r) ==
  /\ lookup(e)
  /\ r \in DOMAIN memEscrows[e].releases
  /\ LET amount == memEscrows[e].releases[r] IN
     memEscrows' = [memEscrows EXCEPT ![e].balance = @ - amount, ![e].released = @ + amount,
                                      ![e].releases = Restrict(@, DOMAIN @ \ {r}),
                                      ![e].state = "released"]
  /\ UNCHANGED <<nextID, releaseID, simClock>>

\* Faulty variant: the pending releases survive the refund.
refundKeepsReleases(e) ==
  /\ lookup(e)
  /\ simClock >= memEscrows[e].timeout
  /\ memEscrows' = [memEscrows EXCEPT ![e].balance = 0, ![e].state = "refunded"]
  /\ UNCHANGED <<nextID, releaseID, simClock>>

ClaimRefund(e) ==
  /\ lookup(e)
  /\ simClock >= memEscrows[e].timeout
  /\ memEscrows' = [memEscrows EXCEPT ![e].balance = 0, ![e].releases = << >>,
                                      ![e].state = "refunded"]
  /\ UNCHANGED <<nextID, releaseID, simClock>>

MemNext ==
  \/ \E t \in Timeout : CreateEscrow(t)
  \/ \E t \in 0..MaxClock : SetClock(t)
  \/ \E e \in Locators, n \in Amount : Deposit(e, n) \/ RequestRelease(e, n)
  \/ \E e \in Locators, r \in ReleaseLocators : ApproveRelease(e, r)
  \/ \E e \in Locators : ClaimRefund(e)

MemSpec == MemInit /\ [][MemNext]_memVars

-----------------------------------------------------------------------------

HoldersOf(r) == {e \in DOMAIN memEscrows : r \in DOMAIN memEscrows[e].releases}

promisedClaim ==
  [r \in ReleaseLocators |->
     IF r > releaseID THEN [status |-> "free", escrow |-> 0, amount |-> 0]
     ELSE IF HoldersOf(r) = {} THEN [status |-> "spent", escrow |-> 0, amount |-> 0]
     ELSE LET e == CHOOSE h \in HoldersOf(r) : TRUE IN
          [status |-> "owed", escrow |-> e, amount |-> memEscrows[e].releases[r]]]

promisedPurse == [e \in Locators |-> IF lookup(e) THEN memEscrows[e].balance ELSE 0]

promisedDue == {e \in Locators : lookup(e) /\ simClock >= memEscrows[e].timeout}

Promise == INSTANCE EscrowPromise WITH
  Escrows <- Locators, Claims <- ReleaseLocators, Money <- Amount,
  purse <- promisedPurse, claim <- promisedClaim, due <- promisedDue

\* The in-memory escrow keeps the promise of the EscrowAdapter interface: a release is
\* paid at most once and from its own escrow, and a refund voids the escrow's releases.
KeepsThePromise == Promise!PromiseSpec
=============================================================================
