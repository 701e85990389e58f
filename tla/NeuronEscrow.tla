----------------------------- MODULE NeuronEscrow -----------------------------
(***************************************************************************)
(* contracts/src/NeuronEscrow.sol: the on-chain escrow of the payment      *)
(* protocol.  One action per external function, and a predicate mayXxx for *)
(* the checks it makes: a call that fails one reverts and leaves the chain *)
(* unchanged, so its action is simply not enabled.  nonReentrant and the   *)
(* EVM make every call atomic.  threshold, agreementHash and evidenceHash  *)
(* are stored and never read by the contract: left out.                    *)
(***************************************************************************)
EXTENDS TestToken, Functions

CONSTANTS EscrowTerms, \* the argument lists createEscrow is called with
          Payers,      \* the accounts that hold tokens at first
          Recipients,  \* the recipients a release may name
          MaxEscrows,  \* bound on createEscrow
          MaxReleases, \* bound on requestRelease, per escrow
          MaxTime      \* bound on block.timestamp

ASSUME TermsAssumption ==
  EscrowTerms \subseteq [buyer: Addr \cup {ZeroAddr}, seller: Addr \cup {ZeroAddr},
                         arbiter: Addr \cup {ZeroAddr}, token: Tokens \cup {ZeroAddr},
                         timeout: 0..MaxTime]

ASSUME PayersAssumption == Payers \subseteq Addr

ASSUME RecipientAssumption == Recipients \subseteq Holders \cup {ZeroAddr}

ASSUME BoundAssumption ==
  /\ MaxEscrows \in Nat
  /\ MaxReleases \in Nat
  /\ MaxTime \in Nat

VARIABLES escrows,      \* _escrows, without the nested release mapping
          releases,     \* releases[e][r]: the release requests of escrow e
          nextEscrowId, \* _nextEscrowId
          now,          \* block.timestamp
          epoch         \* history: releases[e][r] with r < epoch[e] predate e's last refund

escrowVars == <<escrows, releases, nextEscrowId, epoch>>
vars == <<escrows, releases, nextEscrowId, now, epoch, wallet, allowance, totalSupply>>

EscrowIds == 1..MaxEscrows
ReleaseIds == 1..MaxReleases
Time == 0..MaxTime
EscrowState == {"Created", "Funded", "Released", "Refunded"}
ReleaseState == {"Pending", "Approved", "Withdrawn"}

Escrow == [buyer: Addr \cup {ZeroAddr}, seller: Addr \cup {ZeroAddr},
           arbiter: Addr \cup {ZeroAddr}, token: Tokens \cup {ZeroAddr}, timeout: Time,
           balance: Nat, pendingReleaseTotal: Nat, state: EscrowState,
           nextReleaseId: 0..(MaxReleases + 1)]

ReleaseRequest == [amount: Nat, recipient: Holders \cup {ZeroAddr}, state: ReleaseState]

\* The zero values that a mapping holds for a key nobody wrote.
NoEscrow == [buyer |-> ZeroAddr, seller |-> ZeroAddr, arbiter |-> ZeroAddr,
             token |-> ZeroAddr, timeout |-> 0, balance |-> 0,
             pendingReleaseTotal |-> 0, state |-> "Created", nextReleaseId |-> 0]

NoRelease == [amount |-> 0, recipient |-> ZeroAddr, state |-> "Pending"]

TypeOK ==
  /\ TokenTypeOK
  /\ escrows \in [EscrowIds -> Escrow]
  /\ releases \in [EscrowIds -> [ReleaseIds -> ReleaseRequest]]
  /\ nextEscrowId \in 1..(MaxEscrows + 1)
  /\ now \in Time
  /\ epoch \in [EscrowIds -> 0..(MaxReleases + 1)]

ContractInit ==
  /\ escrows = [e \in EscrowIds |-> NoEscrow]
  /\ releases = [e \in EscrowIds |-> [r \in ReleaseIds |-> NoRelease]]
  /\ nextEscrowId = 1
  /\ now = 0
  /\ epoch = [e \in EscrowIds |-> 0]

Init == TokenInit /\ ContractInit

-----------------------------------------------------------------------------

escrowExists(e) == escrows[e].buyer # ZeroAddr

releaseExists(e, r) == releases[e][r].amount # 0

getBalance(e) == escrows[e].balance - escrows[e].pendingReleaseTotal

mayCreateEscrow(terms) ==
  /\ nextEscrowId \in EscrowIds
  /\ terms.buyer # ZeroAddr /\ terms.seller # ZeroAddr /\ terms.token # ZeroAddr

createEscrow(terms) ==
  /\ mayCreateEscrow(terms)
  /\ escrows' = [escrows EXCEPT ![nextEscrowId] =
                   [buyer |-> terms.buyer, seller |-> terms.seller,
                    arbiter |-> terms.arbiter, token |-> terms.token,
                    timeout |-> terms.timeout, balance |-> 0, pendingReleaseTotal |-> 0,
                    state |-> "Created", nextReleaseId |-> 1]]
  /\ nextEscrowId' = nextEscrowId + 1
  /\ UNCHANGED <<releases, now, epoch, tokenVars>>

mayDeposit(sender, e, amount) ==
  /\ escrowExists(e)
  /\ amount # 0
  /\ mayTransferFrom(escrows[e].token, sender, amount)

\* Faulty variant: the result of transferFrom is not checked (no SafeERC20).
depositUnchecked(sender, e, amount) ==
  /\ escrowExists(e)
  /\ amount # 0
  /\ safeTransferFrom(escrows[e].token, sender, amount) \/ UNCHANGED tokenVars
  /\ escrows' = [escrows EXCEPT ![e].balance = @ + amount,
                                ![e].state = IF @ = "Created" THEN "Funded" ELSE @]
  /\ UNCHANGED <<releases, nextEscrowId, now, epoch>>

deposit(sender, e, amount) ==
  /\ mayDeposit(sender, e, amount)
  /\ safeTransferFrom(escrows[e].token, sender, amount)
  /\ escrows' = [escrows EXCEPT ![e].balance = @ + amount,
                                ![e].state = IF @ = "Created" THEN "Funded" ELSE @]
  /\ UNCHANGED <<releases, nextEscrowId, now, epoch>>

mayRequestRelease(sender, e, amount) ==
  /\ escrowExists(e)
  /\ amount # 0
  /\ sender \in {escrows[e].seller, escrows[e].arbiter}
  /\ amount <= getBalance(e)
  /\ escrows[e].nextReleaseId \in ReleaseIds

requestRelease(sender, e, amount, recipient) ==
  /\ mayRequestRelease(sender, e, amount)
  /\ releases' = [releases EXCEPT ![e][escrows[e].nextReleaseId] =
                    [amount |-> amount, recipient |-> recipient, state |-> "Pending"]]
  /\ escrows' = [escrows EXCEPT ![e].nextReleaseId = @ + 1,
                                ![e].pendingReleaseTotal = @ + amount]
  /\ UNCHANGED <<nextEscrowId, now, epoch, tokenVars>>

mayApproveRelease(sender, e, r) ==
  /\ escrowExists(e)
  /\ sender \in {escrows[e].buyer, escrows[e].arbiter}
  /\ releaseExists(e, r)
  /\ releases[e][r].state = "Pending"

approveRelease(sender, e, r) ==
  /\ mayApproveRelease(sender, e, r)
  /\ releases' = [releases EXCEPT ![e][r].state = "Approved"]
  /\ UNCHANGED <<escrows, nextEscrowId, now, epoch, tokenVars>>

\* Faulty variant: pendingReleaseTotal is decremented in an unchecked block.
withdrawWrapping(e, r) ==
  LET amount == releases[e][r].amount IN
  /\ escrowExists(e)
  /\ releaseExists(e, r)
  /\ releases[e][r].state = "Approved"
  /\ amount <= escrows[e].balance
  /\ safeTransfer(escrows[e].token, releases[e][r].recipient, amount)
  /\ releases' = [releases EXCEPT ![e][r].state = "Withdrawn"]
  /\ escrows' = [escrows EXCEPT ![e].balance = @ - amount,
                                ![e].pendingReleaseTotal = @ - amount]
  /\ UNCHANGED <<nextEscrowId, now, epoch>>

\* Faulty variant: the balance is not debited by a withdrawal.
withdrawNoDebit(e, r) ==
  LET amount == releases[e][r].amount IN
  /\ escrowExists(e)
  /\ releaseExists(e, r)
  /\ releases[e][r].state = "Approved"
  /\ amount <= escrows[e].pendingReleaseTotal
  /\ safeTransfer(escrows[e].token, releases[e][r].recipient, amount)
  /\ releases' = [releases EXCEPT ![e][r].state = "Withdrawn"]
  /\ escrows' = [escrows EXCEPT ![e].pendingReleaseTotal = @ - amount]
  /\ UNCHANGED <<nextEscrowId, now, epoch>>

\* Anyone may call withdraw.  Both subtractions are checked: an underflow reverts.
mayWithdraw(e, r) ==
  LET amount == releases[e][r].amount IN
  /\ escrowExists(e)
  /\ releaseExists(e, r)
  /\ releases[e][r].state = "Approved"
  /\ amount <= escrows[e].balance
  /\ amount <= escrows[e].pendingReleaseTotal
  /\ mayTransfer(escrows[e].token, releases[e][r].recipient, amount)

withdraw(e, r) ==
  LET amount == releases[e][r].amount IN
  /\ mayWithdraw(e, r)
  /\ safeTransfer(escrows[e].token, releases[e][r].recipient, amount)
  /\ releases' = [releases EXCEPT ![e][r].state = "Withdrawn"]
  /\ escrows' = [escrows EXCEPT ![e].balance = @ - amount,
                                ![e].pendingReleaseTotal = @ - amount,
                                ![e].state = IF escrows[e].balance = amount
                                             THEN "Released" ELSE @]
  /\ UNCHANGED <<nextEscrowId, now, epoch>>

\* Faulty variant: the timeout is not looked at.
alwaysElapsed(e) == TRUE

timeoutElapsed(e) == now >= escrows[e].timeout

mayClaimRefund(sender, e) ==
  /\ escrowExists(e)
  /\ sender = escrows[e].buyer
  /\ timeoutElapsed(e)
  /\ escrows[e].balance # 0
  /\ mayTransfer(escrows[e].token, escrows[e].buyer, escrows[e].balance)

\* Faulty variant: the reservation of the outstanding releases is kept.
claimRefundKeepsPending(sender, e) ==
  /\ mayClaimRefund(sender, e)
  /\ safeTransfer(escrows[e].token, escrows[e].buyer, escrows[e].balance)
  /\ escrows' = [escrows EXCEPT ![e].balance = 0, ![e].state = "Refunded"]
  /\ epoch' = [epoch EXCEPT ![e] = escrows[e].nextReleaseId]
  /\ UNCHANGED <<releases, nextEscrowId, now>>

claimRefund(sender, e) ==
  /\ mayClaimRefund(sender, e)
  /\ safeTransfer(escrows[e].token, escrows[e].buyer, escrows[e].balance)
  /\ escrows' = [escrows EXCEPT ![e].balance = 0, ![e].pendingReleaseTotal = 0,
                                ![e].state = "Refunded"]
  /\ epoch' = [epoch EXCEPT ![e] = escrows[e].nextReleaseId]
  /\ UNCHANGED <<releases, nextEscrowId, now>>

\* Block timestamps grow.
Tick ==
  /\ now < MaxTime
  /\ now' = now + 1
  /\ UNCHANGED <<escrowVars, tokenVars>>

CallToken ==
  /\ \E t \in Tokens, a \in Payers, n \in Amounts : mint(t, a, n) \/ approve(t, a, n)
  /\ UNCHANGED <<escrowVars, now>>

CallEscrow(e) ==
  \/ \E a \in Addr, n \in Amounts : deposit(a, e, n)
  \/ \E a \in Addr, n \in Amounts, to \in Recipients : requestRelease(a, e, n, to)
  \/ \E a \in Addr, r \in ReleaseIds : approveRelease(a, e, r)
  \/ \E r \in ReleaseIds : withdraw(e, r)
  \/ \E a \in Addr : claimRefund(a, e)

Next ==
  \/ CallToken
  \/ \E terms \in EscrowTerms : createEscrow(terms)
  \/ \E e \in EscrowIds : CallEscrow(e)
  \/ Tick

Spec == Init /\ [][Next]_vars

-----------------------------------------------------------------------------

\* The reserved part of an escrow never exceeds its balance, so the subtraction in
\* getBalance and requestRelease (NeuronEscrow.sol:166,190) can never revert.
PendingCovered ==
  \A e \in EscrowIds : escrows[e].pendingReleaseTotal <= escrows[e].balance

\* What each escrow says it holds of token t.
Held(t) == [e \in EscrowIds |-> IF escrows[e].token = t THEN escrows[e].balance ELSE 0]

\* The contract owns at least what its escrows say they hold of each token,
\* whatever deposits, withdrawals and refunds of different escrows are interleaved.
Solvent == \A t \in Tokens : SumFunction(Held(t)) <= wallet[t][EscrowAddr]

\* Funds are never locked past the timeout: while an escrow holds anything after its
\* timeout, its buyer's claimRefund succeeds, whatever releases are outstanding.
RefundNeverStuck ==
  \A e \in EscrowIds :
    escrowExists(e) /\ now >= escrows[e].timeout /\ escrows[e].balance > 0
      => mayClaimRefund(escrows[e].buyer, e)

\* Until the escrow's first refund an approved release can be withdrawn: approving or
\* withdrawing other releases never uses up what was reserved for this one.
ApprovedWithdrawable ==
  \A e \in EscrowIds, r \in ReleaseIds :
    /\ epoch[e] = 0
    /\ releases[e][r].state = "Approved"
    /\ releases[e][r].recipient # ZeroAddr
    => mayWithdraw(e, r)

\* No order of calls makes what an escrow holds unreachable: neither to the buyer after the
\* timeout nor to the recipient of an approved release.
FundsNeverStuck == RefundNeverStuck /\ ApprovedWithdrawable

\* What escrow e paid out in this step.
Paid(e) == escrows[e].balance - escrows'[e].balance

PaidByRelease(e) ==
  \E r \in ReleaseIds :
    /\ releases[e][r].state = "Approved"
    /\ releases'[e][r].state = "Withdrawn"
    /\ releases[e][r].amount = Paid(e)
    /\ LET t == escrows[e].token
           to == releases[e][r].recipient
       IN to = EscrowAddr \/ wallet'[t][to] = wallet[t][to] + Paid(e)

PaidByRefund(e) ==
  LET t == escrows[e].token
      buyer == escrows[e].buyer
  IN /\ now >= escrows[e].timeout
     /\ escrows'[e].balance = 0
     /\ wallet'[t][buyer] = wallet[t][buyer] + Paid(e)

\* Money leaves an escrow in two ways only: an approved release pays its whole amount,
\* once, to its recipient; or after the timeout the buyer gets the whole balance.
OnlyReleaseOrRefundPays ==
  [][\A e \in EscrowIds : Paid(e) > 0 => PaidByRelease(e) \/ PaidByRefund(e)]_vars

\* A refund cancels the releases that were outstanding when it was claimed: none of
\* them is ever paid afterwards (specs/008-payment/spec.md, User Story 4).
RefundCancelsReleases ==
  [][\A e \in EscrowIds, r \in ReleaseIds :
       r < epoch[e] /\ releases[e][r].state # "Withdrawn"
         => releases'[e][r].state # "Withdrawn"]_vars
=============================================================================
