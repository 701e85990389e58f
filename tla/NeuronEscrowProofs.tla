-------------------------- MODULE NeuronEscrowProofs --------------------------
(***************************************************************************)
(* Theorems about NeuronEscrow for every set of accounts, tokens, amounts  *)
(* and every bound.  IInv is inductive by itself: the checked subtraction  *)
(* in withdraw keeps both counters natural, and requestRelease reserves    *)
(* no more than getBalance.                                                *)
(***************************************************************************)
EXTENDS NeuronEscrow, SumTheorems

\* An escrow that exists names a deployed token and issues its releases from 1.
WellFormed ==
  \A e \in EscrowIds : escrowExists(e) =>
    escrows[e].token \in Tokens /\ escrows[e].nextReleaseId >= 1

\* The inductive invariant.  WellFormed makes the token transfers typed, and
\* PendingCovered gives getBalance a natural number.
IInv == TypeOK /\ PendingCovered /\ WellFormed

USE DEF Holders, Time, EscrowIds, ReleaseIds

\* The calls about an escrow, whatever recipient a release names.
AnyCall(e) ==
  \/ \E a \in Addr, n \in Amounts : deposit(a, e, n)
  \/ \E a \in Addr, n \in Amounts, to \in Holders \cup {ZeroAddr} : requestRelease(a, e, n, to)
  \/ \E a \in Addr, r \in ReleaseIds : approveRelease(a, e, r)
  \/ \E r \in ReleaseIds : withdraw(e, r)
  \/ \E a \in Addr : claimRefund(a, e)

LEMMA CallIsAnyCall == \A e : CallEscrow(e) => AnyCall(e)
BY RecipientAssumption DEF CallEscrow, AnyCall

-----------------------------------------------------------------------------

\* The token transfers keep the token's types.
LEMMA MoveType ==
  ASSUME NEW w \in [Holders -> Nat], NEW from \in Holders, NEW to \in Holders,
         NEW amount \in Nat, amount <= w[from]
  PROVE  Move(w, from, to, amount) \in [Holders -> Nat]
BY DEF Move

LEMMA TransferFromType ==
  ASSUME TokenTypeOK, NEW t \in Tokens, NEW from \in Addr, NEW amount \in Nat,
         safeTransferFrom(t, from, amount)
  PROVE  TokenTypeOK'
<1>1. Move(wallet[t], from, EscrowAddr, amount) \in [Holders -> Nat]
  BY MoveType DEF TokenTypeOK, safeTransferFrom, mayTransferFrom
<1>2. wallet' \in [Tokens -> [Holders -> Nat]]
  BY <1>1 DEF TokenTypeOK, safeTransferFrom
<1>3. allowance' \in [Tokens -> [Addr -> Nat]] /\ totalSupply' \in [Tokens -> Nat]
  BY DEF TokenTypeOK, safeTransferFrom, mayTransferFrom
<1> QED  BY <1>2, <1>3 DEF TokenTypeOK

LEMMA TransferType ==
  ASSUME TokenTypeOK, NEW t \in Tokens, NEW to \in Holders \cup {ZeroAddr},
         NEW amount \in Nat, safeTransfer(t, to, amount)
  PROVE  TokenTypeOK'
<1>1. to \in Holders
  BY DEF safeTransfer, mayTransfer
<1>2. Move(wallet[t], EscrowAddr, to, amount) \in [Holders -> Nat]
  BY <1>1, MoveType DEF TokenTypeOK, safeTransfer, mayTransfer
<1>3. wallet' \in [Tokens -> [Holders -> Nat]]
  BY <1>2 DEF TokenTypeOK, safeTransfer
<1>4. allowance' \in [Tokens -> [Addr -> Nat]] /\ totalSupply' \in [Tokens -> Nat]
  BY DEF TokenTypeOK, safeTransfer
<1> QED  BY <1>3, <1>4 DEF TokenTypeOK

-----------------------------------------------------------------------------

LEMMA InitIInv == Init => IInv
<1> SUFFICES ASSUME Init PROVE IInv
  OBVIOUS
<1>1. NoEscrow \in Escrow /\ NoRelease \in ReleaseRequest
  BY BoundAssumption
  DEF NoEscrow, NoRelease, Escrow, ReleaseRequest, EscrowState, ReleaseState
<1>2. TypeOK
  BY <1>1, BoundAssumption DEF TypeOK, Init, ContractInit, TokenInit, TokenTypeOK
<1>3. PendingCovered /\ WellFormed
  BY DEF Init, ContractInit, PendingCovered, WellFormed, escrowExists, NoEscrow
<1> QED  BY <1>2, <1>3 DEF IInv

\* Changing one field of an escrow keeps its type.
LEMMA FieldType ==
  ASSUME NEW x \in Escrow
  PROVE  /\ \A n \in Nat : [x EXCEPT !.balance = n] \in Escrow
         /\ \A n \in Nat : [x EXCEPT !.pendingReleaseTotal = n] \in Escrow
         /\ \A s \in EscrowState : [x EXCEPT !.state = s] \in Escrow
         /\ \A k \in 0..(MaxReleases + 1) : [x EXCEPT !.nextReleaseId = k] \in Escrow
<1>1. \A n \in Nat : [x EXCEPT !.balance = n] \in Escrow
  BY DEF Escrow
<1>2. \A n \in Nat : [x EXCEPT !.pendingReleaseTotal = n] \in Escrow
  BY DEF Escrow
<1>3. \A s \in EscrowState : [x EXCEPT !.state = s] \in Escrow
  BY DEF Escrow
<1>4. \A k \in 0..(MaxReleases + 1) : [x EXCEPT !.nextReleaseId = k] \in Escrow
  BY DEF Escrow
<1> QED  BY <1>1, <1>2, <1>3, <1>4

\* One escrow record replaced by another that is well typed and covered.
LEMMA ReplaceEscrow ==
  ASSUME IInv, NEW e \in EscrowIds, NEW rec \in Escrow,
         rec.pendingReleaseTotal <= rec.balance,
         rec.buyer # ZeroAddr => rec.token \in Tokens /\ rec.nextReleaseId >= 1,
         escrows' = [escrows EXCEPT ![e] = rec]
  PROVE  /\ escrows' \in [EscrowIds -> Escrow]
         /\ PendingCovered'
         /\ WellFormed'
BY DEF IInv, TypeOK, PendingCovered, WellFormed, escrowExists

\* One release record replaced by another.
LEMMA ReplaceRelease ==
  ASSUME TypeOK, NEW e \in EscrowIds, NEW r \in ReleaseIds, NEW rel \in ReleaseRequest,
         releases' = [releases EXCEPT ![e][r] = rel]
  PROVE  releases' \in [EscrowIds -> [ReleaseIds -> ReleaseRequest]]
BY DEF TypeOK

LEMMA CreateIInv ==
  ASSUME IInv, NEW terms \in EscrowTerms, createEscrow(terms)
  PROVE  IInv'
<1> DEFINE rec == [buyer |-> terms.buyer, seller |-> terms.seller,
                    arbiter |-> terms.arbiter, token |-> terms.token,
                    timeout |-> terms.timeout, balance |-> 0, pendingReleaseTotal |-> 0,
                    state |-> "Created", nextReleaseId |-> 1]
<1>1. rec \in Escrow
  BY TermsAssumption, BoundAssumption DEF Escrow, EscrowState
<1>2. terms.token \in Tokens
  BY TermsAssumption DEF createEscrow, mayCreateEscrow
<1>3. escrows' = [escrows EXCEPT ![nextEscrowId] = rec] /\ nextEscrowId \in EscrowIds
  BY DEF createEscrow, mayCreateEscrow
<1>4. rec.token = terms.token /\ rec.pendingReleaseTotal <= rec.balance /\ rec.nextReleaseId >= 1
  OBVIOUS
<1> HIDE DEF rec
<1>5. escrows' \in [EscrowIds -> Escrow] /\ PendingCovered' /\ WellFormed'
  BY <1>1, <1>2, <1>3, <1>4, ReplaceEscrow
<1>6. UNCHANGED <<releases, now, epoch, wallet, allowance, totalSupply>>
  BY DEF createEscrow, tokenVars
<1>7. TokenTypeOK'
  BY <1>6 DEF IInv, TypeOK, TokenTypeOK
<1>8. TypeOK'
  BY <1>3, <1>5, <1>6, <1>7, BoundAssumption DEF IInv, TypeOK, createEscrow
<1> QED  BY <1>5, <1>8 DEF IInv

LEMMA DepositIInv ==
  ASSUME IInv, NEW a \in Addr, NEW e \in EscrowIds, NEW n \in Amounts, deposit(a, e, n)
  PROVE  IInv'
<1> DEFINE x == escrows[e]
           st == IF x.state = "Created" THEN "Funded" ELSE x.state
           rec == [x EXCEPT !.balance = @ + n, !.state = st]
<1>1. x \in Escrow /\ n \in Nat /\ x.token \in Tokens /\ x.nextReleaseId >= 1
  BY AmountAssumption DEF IInv, TypeOK, WellFormed, deposit, mayDeposit
<1>2. x.balance + n \in Nat /\ st \in EscrowState
  BY <1>1 DEF Escrow, EscrowState
<1>3. rec \in Escrow
  BY <1>1, <1>2, FieldType
<1>4. /\ rec.balance = x.balance + n
      /\ rec.pendingReleaseTotal = x.pendingReleaseTotal
      /\ rec.token = x.token
      /\ rec.nextReleaseId = x.nextReleaseId
  BY <1>1 DEF Escrow
<1>5. escrows' = [escrows EXCEPT ![e] = rec]
  BY <1>1 DEF IInv, TypeOK, deposit, Escrow
<1>6. x.pendingReleaseTotal <= x.balance + n
  BY <1>1 DEF IInv, PendingCovered, Escrow
<1> HIDE DEF rec, x
<1>7. escrows' \in [EscrowIds -> Escrow] /\ PendingCovered' /\ WellFormed'
  BY <1>1, <1>3, <1>4, <1>5, <1>6, ReplaceEscrow
<1>8. TokenTypeOK'
  BY <1>1, TransferFromType DEF IInv, TypeOK, deposit, x
<1>9. TypeOK'
  BY <1>7, <1>8 DEF IInv, TypeOK, deposit
<1> QED  BY <1>7, <1>9 DEF IInv

LEMMA RequestIInv ==
  ASSUME IInv, NEW a \in Addr, NEW e \in EscrowIds, NEW n \in Amounts,
         NEW to \in Holders \cup {ZeroAddr}, requestRelease(a, e, n, to)
  PROVE  IInv'
<1> DEFINE x == escrows[e]
           rel == [amount |-> n, recipient |-> to, state |-> "Pending"]
           rec == [x EXCEPT !.nextReleaseId = @ + 1, !.pendingReleaseTotal = @ + n]
<1>1. x \in Escrow /\ n \in Nat /\ x.token \in Tokens /\ x.nextReleaseId \in ReleaseIds
  BY AmountAssumption DEF IInv, TypeOK, WellFormed, requestRelease, mayRequestRelease
<1>2. x.pendingReleaseTotal + n \in Nat /\ x.nextReleaseId + 1 \in 1..(MaxReleases + 1)
  BY <1>1, BoundAssumption DEF Escrow
<1>3. rec \in Escrow
  <2>1. [x EXCEPT !.nextReleaseId = @ + 1] \in Escrow
    BY <1>1, <1>2, FieldType, BoundAssumption
  <2>2. rec = [[x EXCEPT !.nextReleaseId = @ + 1]
                 EXCEPT !.pendingReleaseTotal = x.pendingReleaseTotal + n]
    BY <1>1 DEF Escrow
  <2> QED  BY <1>2, <2>1, <2>2, FieldType
<1>4. /\ rec.balance = x.balance
      /\ rec.pendingReleaseTotal = x.pendingReleaseTotal + n
      /\ rec.token = x.token
      /\ rec.nextReleaseId = x.nextReleaseId + 1
  BY <1>1 DEF Escrow
<1>5. escrows' = [escrows EXCEPT ![e] = rec]
  BY <1>1 DEF IInv, TypeOK, requestRelease, Escrow
<1>6. x.pendingReleaseTotal + n <= x.balance
  BY <1>1 DEF IInv, requestRelease, mayRequestRelease, getBalance, Escrow
<1>7. rel \in ReleaseRequest
  BY <1>1 DEF ReleaseRequest, ReleaseState
<1>8. releases' = [releases EXCEPT ![e][x.nextReleaseId] = rel]
  BY DEF requestRelease
<1> HIDE DEF rec, x, rel
<1>9. escrows' \in [EscrowIds -> Escrow] /\ PendingCovered' /\ WellFormed'
  <2>1. rec.pendingReleaseTotal <= rec.balance /\ rec.token \in Tokens /\ rec.nextReleaseId >= 1
    BY <1>1, <1>2, <1>4, <1>6
  <2> QED  BY <1>3, <1>5, <2>1, ReplaceEscrow
<1>10. releases' \in [EscrowIds -> [ReleaseIds -> ReleaseRequest]]
  BY <1>1, <1>7, <1>8, ReplaceRelease DEF IInv
<1>11. UNCHANGED <<nextEscrowId, now, epoch, wallet, allowance, totalSupply>>
  BY DEF requestRelease, tokenVars
<1>12. TypeOK'
  BY <1>9, <1>10, <1>11 DEF IInv, TypeOK, TokenTypeOK
<1> QED  BY <1>9, <1>12 DEF IInv

LEMMA ApproveIInv ==
  ASSUME IInv, NEW a \in Addr, NEW e \in EscrowIds, NEW r \in ReleaseIds,
         approveRelease(a, e, r)
  PROVE  IInv'
<1> DEFINE rel == [releases[e][r] EXCEPT !.state = "Approved"]
<1>1. releases[e][r] \in ReleaseRequest
  BY DEF IInv, TypeOK
<1>2. rel \in ReleaseRequest
  BY <1>1 DEF ReleaseRequest, ReleaseState
<1>3. releases' = [releases EXCEPT ![e][r] = rel]
  BY <1>1 DEF approveRelease, IInv, TypeOK
<1> HIDE DEF rel
<1>4. releases' \in [EscrowIds -> [ReleaseIds -> ReleaseRequest]]
  BY <1>2, <1>3, ReplaceRelease DEF IInv
<1>5. UNCHANGED <<escrows, nextEscrowId, now, epoch, wallet, allowance, totalSupply>>
  BY DEF approveRelease, tokenVars
<1> QED
  BY <1>4, <1>5 DEF IInv, TypeOK, TokenTypeOK, PendingCovered, WellFormed, escrowExists

LEMMA WithdrawIInv ==
  ASSUME IInv, NEW e \in EscrowIds, NEW r \in ReleaseIds, withdraw(e, r)
  PROVE  IInv'
<1> DEFINE x == escrows[e]
           n == releases[e][r].amount
           st == IF x.balance = n THEN "Released" ELSE x.state
           rec == [x EXCEPT !.balance = @ - n, !.pendingReleaseTotal = @ - n, !.state = st]
           rel == [releases[e][r] EXCEPT !.state = "Withdrawn"]
<1>1. /\ x \in Escrow /\ x.token \in Tokens /\ x.nextReleaseId >= 1
      /\ releases[e][r] \in ReleaseRequest
  BY DEF IInv, TypeOK, WellFormed, withdraw, mayWithdraw
<1>2. n \in Nat /\ n <= x.balance /\ n <= x.pendingReleaseTotal
  BY <1>1 DEF ReleaseRequest, withdraw, mayWithdraw
<1>3. x.balance - n \in Nat /\ x.pendingReleaseTotal - n \in Nat /\ st \in EscrowState
  BY <1>1, <1>2 DEF Escrow, EscrowState
<1>4. rec \in Escrow
  BY <1>1, <1>3, FieldType
<1>5. /\ rec.balance = x.balance - n
      /\ rec.pendingReleaseTotal = x.pendingReleaseTotal - n
      /\ rec.token = x.token
      /\ rec.nextReleaseId = x.nextReleaseId
  BY <1>1 DEF Escrow
<1>6. escrows' = [escrows EXCEPT ![e] = rec]
  BY <1>1 DEF IInv, TypeOK, withdraw, Escrow
<1>7. x.pendingReleaseTotal - n <= x.balance - n
  BY <1>1, <1>2 DEF IInv, PendingCovered, Escrow
<1>8. rel \in ReleaseRequest /\ releases[e][r].recipient \in Holders \cup {ZeroAddr}
  BY <1>1 DEF ReleaseRequest, ReleaseState
<1>9. releases' = [releases EXCEPT ![e][r] = rel]
  BY <1>1 DEF withdraw, IInv, TypeOK
<1>10. TokenTypeOK'
  BY <1>1, <1>2, <1>8, TransferType DEF IInv, TypeOK, withdraw
<1> HIDE DEF rec, x, rel, n
<1>11. escrows' \in [EscrowIds -> Escrow] /\ PendingCovered' /\ WellFormed'
  BY <1>1, <1>3, <1>4, <1>5, <1>6, <1>7, ReplaceEscrow
<1>12. releases' \in [EscrowIds -> [ReleaseIds -> ReleaseRequest]]
  BY <1>8, <1>9, ReplaceRelease DEF IInv
<1>13. TypeOK'
  BY <1>10, <1>11, <1>12 DEF IInv, TypeOK, withdraw
<1> QED  BY <1>11, <1>13 DEF IInv

LEMMA RefundIInv ==
  ASSUME IInv, NEW a \in Addr, NEW e \in EscrowIds, claimRefund(a, e)
  PROVE  IInv'
<1> DEFINE x == escrows[e]
           rec == [x EXCEPT !.balance = 0, !.pendingReleaseTotal = 0, !.state = "Refunded"]
<1>1. /\ x \in Escrow /\ x.token \in Tokens /\ x.nextReleaseId >= 1
      /\ x.buyer \in Addr /\ x.balance \in Nat
      /\ x.nextReleaseId \in 0..(MaxReleases + 1)
  BY DEF IInv, TypeOK, WellFormed, claimRefund, mayClaimRefund, escrowExists, Escrow
<1>2. rec \in Escrow
  BY <1>1, FieldType DEF EscrowState
<1>3. /\ rec.balance = 0
      /\ rec.pendingReleaseTotal = 0
      /\ rec.token = x.token
      /\ rec.nextReleaseId = x.nextReleaseId
  BY <1>1 DEF Escrow
<1>4. escrows' = [escrows EXCEPT ![e] = rec]
  BY <1>1 DEF IInv, TypeOK, claimRefund, Escrow
<1>5. TokenTypeOK'
  BY <1>1, TransferType DEF IInv, TypeOK, claimRefund
<1>6. epoch' \in [EscrowIds -> 0..(MaxReleases + 1)]
  BY <1>1 DEF IInv, TypeOK, claimRefund
<1> HIDE DEF rec, x
<1>7. escrows' \in [EscrowIds -> Escrow] /\ PendingCovered' /\ WellFormed'
  <2>1. rec.pendingReleaseTotal <= rec.balance /\ rec.token \in Tokens /\ rec.nextReleaseId >= 1
    BY <1>1, <1>3
  <2> QED  BY <1>2, <1>4, <2>1, ReplaceEscrow
<1>8. TypeOK'
  BY <1>5, <1>6, <1>7 DEF IInv, TypeOK, claimRefund
<1> QED  BY <1>7, <1>8 DEF IInv

LEMMA CallIInv ==
  ASSUME IInv, NEW e \in EscrowIds, AnyCall(e)
  PROVE  IInv'
BY DepositIInv, RequestIInv, ApproveIInv, WithdrawIInv, RefundIInv DEF AnyCall

LEMMA CallTokenIInv == IInv /\ CallToken => IInv'
<1> SUFFICES ASSUME IInv, CallToken PROVE IInv'
  OBVIOUS
<1>1. PICK t \in Tokens, a \in Payers, n \in Amounts : mint(t, a, n) \/ approve(t, a, n)
  BY DEF CallToken
<1>2. a \in Addr /\ n \in Nat
  BY PayersAssumption, AmountAssumption
<1>3. UNCHANGED <<escrows, releases, nextEscrowId, epoch, now>>
  BY DEF CallToken, escrowVars
<1>4. TokenTypeOK'
  <2>1. CASE mint(t, a, n)
    <3>1. wallet' \in [Tokens -> [Holders -> Nat]]
      <4>1. a \in Holders /\ wallet[t] \in [Holders -> Nat]
        BY <1>2 DEF IInv, TypeOK, TokenTypeOK
      <4>2. [wallet[t] EXCEPT ![a] = @ + n] \in [Holders -> Nat]
        BY <1>2, <4>1
      <4>3. wallet' = [wallet EXCEPT ![t] = [wallet[t] EXCEPT ![a] = wallet[t][a] + n]]
        BY <2>1 DEF mint
      <4> QED  BY <4>2, <4>3 DEF IInv, TypeOK, TokenTypeOK
    <3>2. allowance' \in [Tokens -> [Addr -> Nat]] /\ totalSupply' \in [Tokens -> Nat]
      BY <1>2, <2>1 DEF mint, IInv, TypeOK, TokenTypeOK
    <3> QED  BY <3>1, <3>2 DEF TokenTypeOK
  <2>2. CASE approve(t, a, n)
    BY <1>2, <2>2 DEF approve, IInv, TypeOK, TokenTypeOK
  <2> QED  BY <1>1, <2>1, <2>2
<1> QED
  BY <1>3, <1>4 DEF IInv, TypeOK, PendingCovered, WellFormed, escrowExists

LEMMA NextIInv == IInv /\ [Next]_vars => IInv'
<1> SUFFICES ASSUME IInv, [Next]_vars PROVE IInv'
  OBVIOUS
<1>1. CASE CallToken
  BY <1>1, CallTokenIInv
<1>2. CASE \E terms \in EscrowTerms : createEscrow(terms)
  BY <1>2, CreateIInv
<1>3. ASSUME NEW e \in EscrowIds, AnyCall(e) PROVE IInv'
  BY <1>3, CallIInv
<1>4. CASE Tick
  <2>1. UNCHANGED <<escrows, releases, nextEscrowId, epoch, wallet, allowance, totalSupply>>
    BY <1>4 DEF Tick, escrowVars, tokenVars
  <2>2. now' \in Time
    BY <1>4, BoundAssumption DEF Tick, IInv, TypeOK
  <2>3. TypeOK'
    BY <2>1, <2>2 DEF IInv, TypeOK, TokenTypeOK
  <2> QED
    BY <2>1, <2>3 DEF IInv, PendingCovered, WellFormed, escrowExists
<1>5. CASE UNCHANGED vars
  BY <1>5 DEF vars, IInv, TypeOK, TokenTypeOK, PendingCovered, WellFormed, escrowExists
<1> QED  BY <1>1, <1>2, <1>3, <1>4, <1>5, CallIsAnyCall DEF Next

-----------------------------------------------------------------------------

LEMMA SpecIInv == Spec => []IInv
BY InitIInv, NextIInv, PTL DEF Spec

\* Type correctness: no sequence of calls takes a balance, a reservation or a token
\* account below zero or outside its type.
THEOREM TypeCorrect == Spec => []TypeOK
<1>1. IInv => TypeOK
  BY DEF IInv
<1> QED  BY <1>1, SpecIInv, PTL

\* What is reserved for pending releases never exceeds the balance, so getBalance and
\* requestRelease never revert on the subtraction (NeuronEscrow.sol:166,190).
THEOREM ReservedCovered == Spec => []PendingCovered
<1>1. IInv => PendingCovered
  BY DEF IInv
<1> QED  BY <1>1, SpecIInv, PTL


-----------------------------------------------------------------------------

PaysProperly == \A e \in EscrowIds : Paid(e) > 0 => PaidByRelease(e) \/ PaidByRefund(e)

\* A transfer out of the contract credits the recipient with exactly the amount.
LEMMA TransferCredits ==
  ASSUME TokenTypeOK, NEW t \in Tokens, NEW to \in Holders \cup {ZeroAddr},
         NEW amount \in Nat, safeTransfer(t, to, amount)
  PROVE  to = EscrowAddr \/ wallet'[t][to] = wallet[t][to] + amount
BY DEF safeTransfer, mayTransfer, Move, TokenTypeOK

LEMMA WithdrawPays ==
  ASSUME IInv, NEW e \in EscrowIds, NEW r \in ReleaseIds, withdraw(e, r)
  PROVE  PaysProperly
<1> DEFINE n == releases[e][r].amount
<1>1. /\ escrows[e] \in Escrow /\ escrows[e].token \in Tokens
      /\ releases[e][r] \in ReleaseRequest
  BY DEF IInv, TypeOK, WellFormed, withdraw, mayWithdraw
<1>2. n \in Nat /\ releases[e][r].recipient \in Holders \cup {ZeroAddr}
  BY <1>1 DEF ReleaseRequest
<1>3. Paid(e) = n
  BY <1>1, <1>2 DEF Paid, withdraw, IInv, TypeOK, Escrow
<1>4. \A f \in EscrowIds \ {e} : Paid(f) = 0
  <2>1. \A f \in EscrowIds : escrows[f].balance \in Nat
    BY DEF IInv, TypeOK, Escrow
  <2>2. \A f \in EscrowIds \ {e} : escrows'[f] = escrows[f]
    BY DEF withdraw, IInv, TypeOK
  <2> QED  BY <2>1, <2>2 DEF Paid
<1>5. releases[e][r].state = "Approved" /\ releases'[e][r].state = "Withdrawn"
  BY <1>1 DEF withdraw, mayWithdraw, IInv, TypeOK, ReleaseRequest
<1>6. LET t == escrows[e].token
          to == releases[e][r].recipient
      IN to = EscrowAddr \/ wallet'[t][to] = wallet[t][to] + n
  BY <1>1, <1>2, TransferCredits DEF withdraw, IInv, TypeOK
<1>7. PaidByRelease(e)
  BY <1>3, <1>5, <1>6 DEF PaidByRelease
<1> QED  BY <1>4, <1>7 DEF PaysProperly

LEMMA RefundPays ==
  ASSUME IInv, NEW a \in Addr, NEW e \in EscrowIds, claimRefund(a, e)
  PROVE  PaysProperly
<1> DEFINE b == escrows[e].balance
<1>1. /\ escrows[e] \in Escrow /\ escrows[e].token \in Tokens
      /\ escrows[e].buyer \in Addr /\ b \in Nat
  BY DEF IInv, TypeOK, WellFormed, claimRefund, mayClaimRefund, escrowExists, Escrow
<1>2. escrows'[e].balance = 0 /\ Paid(e) = b
  BY <1>1 DEF Paid, claimRefund, IInv, TypeOK, Escrow
<1>3. \A f \in EscrowIds \ {e} : Paid(f) = 0
  BY DEF Paid, claimRefund, IInv, TypeOK, Escrow
<1>4. wallet'[escrows[e].token][escrows[e].buyer]
        = wallet[escrows[e].token][escrows[e].buyer] + b
  BY <1>1, TransferCredits, AddressAssumption DEF claimRefund, IInv, TypeOK
<1>5. PaidByRefund(e)
  BY <1>2, <1>4 DEF PaidByRefund, claimRefund, mayClaimRefund, timeoutElapsed
<1> QED  BY <1>3, <1>5 DEF PaysProperly

\* A slot of the mapping that createEscrow has not issued is empty.
Unissued ==
  \A e \in EscrowIds : e >= nextEscrowId => escrows[e] = NoEscrow

\* A call about an existing escrow changes the record of that escrow only.
LEMMA CallFrame ==
  ASSUME IInv, NEW e \in EscrowIds, AnyCall(e)
  PROVE  /\ escrowExists(e)
         /\ nextEscrowId' = nextEscrowId
         /\ \A f \in EscrowIds \ {e} : escrows'[f] = escrows[f]
<1>1. escrows \in [EscrowIds -> Escrow]
  BY DEF IInv, TypeOK
<1>2. ASSUME NEW a \in Addr, NEW n \in Amounts, deposit(a, e, n)
      PROVE  /\ escrowExists(e) /\ nextEscrowId' = nextEscrowId
             /\ \A f \in EscrowIds \ {e} : escrows'[f] = escrows[f]
  BY <1>1, <1>2 DEF deposit, mayDeposit
<1>3. ASSUME NEW a \in Addr, NEW n \in Amounts, NEW to \in Holders \cup {ZeroAddr},
             requestRelease(a, e, n, to)
      PROVE  /\ escrowExists(e) /\ nextEscrowId' = nextEscrowId
             /\ \A f \in EscrowIds \ {e} : escrows'[f] = escrows[f]
  BY <1>1, <1>3 DEF requestRelease, mayRequestRelease
<1>4. ASSUME NEW a \in Addr, NEW r \in ReleaseIds, approveRelease(a, e, r)
      PROVE  /\ escrowExists(e) /\ nextEscrowId' = nextEscrowId
             /\ \A f \in EscrowIds \ {e} : escrows'[f] = escrows[f]
  BY <1>1, <1>4 DEF approveRelease, mayApproveRelease
<1>5. ASSUME NEW r \in ReleaseIds, withdraw(e, r)
      PROVE  /\ escrowExists(e) /\ nextEscrowId' = nextEscrowId
             /\ \A f \in EscrowIds \ {e} : escrows'[f] = escrows[f]
  BY <1>1, <1>5 DEF withdraw, mayWithdraw
<1>6. ASSUME NEW a \in Addr, claimRefund(a, e)
      PROVE  /\ escrowExists(e) /\ nextEscrowId' = nextEscrowId
             /\ \A f \in EscrowIds \ {e} : escrows'[f] = escrows[f]
  BY <1>1, <1>6 DEF claimRefund, mayClaimRefund
<1> QED  BY <1>2, <1>3, <1>4, <1>5, <1>6 DEF AnyCall

\* The steps that are not calls about an escrow, or that create one.
LEMMA OtherFrame ==
  ASSUME CallToken \/ Tick \/ UNCHANGED vars
  PROVE  UNCHANGED <<escrows, nextEscrowId>>
BY DEF CallToken, Tick, vars, escrowVars

LEMMA CreateFrame ==
  ASSUME IInv, NEW terms \in EscrowTerms, createEscrow(terms)
  PROVE  /\ nextEscrowId \in EscrowIds /\ nextEscrowId' = nextEscrowId + 1
         /\ escrows'[nextEscrowId].balance = 0
         /\ \A f \in EscrowIds \ {nextEscrowId} : escrows'[f] = escrows[f]
BY DEF IInv, TypeOK, createEscrow, mayCreateEscrow

LEMMA NextUnissued == IInv /\ Unissued /\ [Next]_vars => Unissued'
<1> SUFFICES ASSUME IInv, Unissued, [Next]_vars PROVE Unissued'
  OBVIOUS
<1>1. nextEscrowId \in 1..(MaxEscrows + 1)
  BY DEF IInv, TypeOK
<1>2. CASE CallToken \/ Tick \/ UNCHANGED vars
  BY <1>2, OtherFrame DEF Unissued
<1>3. ASSUME NEW terms \in EscrowTerms, createEscrow(terms) PROVE Unissued'
  BY <1>1, <1>3, CreateFrame, BoundAssumption DEF Unissued
<1>4. ASSUME NEW e \in EscrowIds, AnyCall(e) PROVE Unissued'
  BY <1>1, <1>4, CallFrame DEF Unissued, escrowExists, NoEscrow
<1> QED  BY <1>2, <1>3, <1>4, CallIsAnyCall DEF Next

LEMMA CallPays ==
  ASSUME IInv, NEW e \in EscrowIds, AnyCall(e)
  PROVE  PaysProperly
<1>1. escrows[e] \in Escrow
  BY DEF IInv, TypeOK
<1>2. CASE escrows'[e].balance >= escrows[e].balance /\ escrows'[e].balance \in Nat
  <2>1. ~(Paid(e) > 0)
    BY <1>1, <1>2 DEF Paid, Escrow
  <2>2. \A f \in EscrowIds \ {e} : Paid(f) = 0
    <3>1. \A f \in EscrowIds : escrows[f].balance \in Nat
      BY DEF IInv, TypeOK, Escrow
    <3>2. \A f \in EscrowIds \ {e} : escrows'[f] = escrows[f]
      BY CallFrame
    <3> QED  BY <3>1, <3>2 DEF Paid
  <2> QED  BY <2>1, <2>2 DEF PaysProperly
<1>3. ASSUME NEW a \in Addr, NEW n \in Amounts, deposit(a, e, n) PROVE PaysProperly
  <2>1. escrows'[e].balance = escrows[e].balance + n
    BY <1>1, <1>3 DEF deposit, IInv, TypeOK, Escrow
  <2> QED  BY <1>1, <1>2, <2>1, AmountAssumption DEF Escrow
<1>4. ASSUME NEW a \in Addr, NEW n \in Amounts, NEW to \in Holders \cup {ZeroAddr},
             requestRelease(a, e, n, to)
      PROVE  PaysProperly
  <2>1. escrows'[e].balance = escrows[e].balance
    BY <1>1, <1>4 DEF requestRelease, IInv, TypeOK, Escrow
  <2> QED  BY <1>1, <1>2, <2>1 DEF Escrow
<1>5. ASSUME NEW a \in Addr, NEW r \in ReleaseIds, approveRelease(a, e, r)
      PROVE  PaysProperly
  BY <1>1, <1>2, <1>5 DEF approveRelease, Escrow
<1>6. ASSUME NEW r \in ReleaseIds, withdraw(e, r) PROVE PaysProperly
  BY <1>6, WithdrawPays
<1>7. ASSUME NEW a \in Addr, claimRefund(a, e) PROVE PaysProperly
  BY <1>7, RefundPays
<1> QED  BY <1>3, <1>4, <1>5, <1>6, <1>7 DEF AnyCall

LEMMA NextPays == IInv /\ Unissued /\ [Next]_vars => [PaysProperly]_vars
<1> SUFFICES ASSUME IInv, Unissued, Next PROVE PaysProperly
  OBVIOUS
<1>1. escrows \in [EscrowIds -> Escrow]
  BY DEF IInv, TypeOK
<1>2. CASE CallToken \/ Tick
  <2>1. UNCHANGED escrows
    BY <1>2, OtherFrame
  <2>2. \A e \in EscrowIds : Paid(e) = 0
    BY <1>1, <2>1 DEF Paid, Escrow
  <2> QED  BY <2>2 DEF PaysProperly
<1>3. ASSUME NEW terms \in EscrowTerms, createEscrow(terms) PROVE PaysProperly
  <2>1. escrows[nextEscrowId].balance = 0
    BY <1>3, CreateFrame DEF Unissued, IInv, TypeOK, NoEscrow
  <2>2. \A e \in EscrowIds : Paid(e) = 0
    BY <1>1, <1>3, <2>1, CreateFrame DEF Paid, Escrow
  <2> QED  BY <2>2 DEF PaysProperly
<1>4. ASSUME NEW e \in EscrowIds, AnyCall(e) PROVE PaysProperly
  BY <1>4, CallPays
<1> QED  BY <1>2, <1>3, <1>4, CallIsAnyCall DEF Next

\* Money leaves an escrow in two ways only: by the withdrawal of an approved release,
\* paid in full to its recipient, or by the buyer's refund after the timeout.
THEOREM MoneyOut == Spec => OnlyReleaseOrRefundPays
<1>1. Init => Unissued
  BY BoundAssumption DEF Init, ContractInit, Unissued, NoEscrow
<1>2. Spec => [](IInv /\ Unissued)
  BY <1>1, InitIInv, NextIInv, NextUnissued, PTL DEF Spec
<1>3. Spec => [][PaysProperly]_vars
  BY <1>2, NextPays, PTL DEF Spec
<1> QED  BY <1>3 DEF OnlyReleaseOrRefundPays, PaysProperly

-----------------------------------------------------------------------------

LEMMA EscrowsFinite == IsFiniteSet(EscrowIds) /\ IsFiniteSet(ReleaseIds)
BY BoundAssumption, FS_Interval

\* What the contract owes in all of a token, over the escrows that hold it.
Owes(t) == SumFunction(Held(t))

LEMMA OwesOnIds == \A t : Owes(t) = SumFunctionOnSet(Held(t), EscrowIds)
BY DEF Owes, SumFunction, Held

LEMMA HeldNat ==
  ASSUME TypeOK, NEW t
  PROVE  \A e \in EscrowIds : Held(t)[e] \in Nat
BY DEF Held, TypeOK, Escrow

\* The balances that change between two states, of one escrow, change the sum of its token.
LEMMA OwesChange ==
  ASSUME TypeOK, TypeOK', NEW e \in EscrowIds, NEW t \in Tokens,
         \A f \in EscrowIds \ {e} : escrows'[f] = escrows[f]
  PROVE  Owes(t)' = Owes(t) - Held(t)[e] + Held(t)'[e]
<1>1. PICK f : f = Held(t)
  OBVIOUS
<1>2. PICK g : g = Held(t)'
  OBVIOUS
<1>3. \A x \in EscrowIds : f[x] \in Int /\ g[x] \in Int
  <2>1. \A x \in EscrowIds : f[x] \in Int
    BY <1>1, HeldNat
  <2>2. \A x \in EscrowIds : g[x] \in Int
    BY <1>2 DEF Held, TypeOK, Escrow
  <2> QED  BY <2>1, <2>2
<1>4. \A x \in EscrowIds \ {e} : f[x] = g[x]
  BY <1>1, <1>2 DEF Held
<1>5. SumFunctionOnSet(g, EscrowIds) = SumFunctionOnSet(f, EscrowIds) - f[e] + g[e]
  <2> HIDE DEF EscrowIds
  <2> QED  BY ONLY <1>3, <1>4, EscrowsFinite, SumChange, e \in EscrowIds
<1>6. Owes(t) = SumFunctionOnSet(f, EscrowIds) /\ Owes(t)' = SumFunctionOnSet(g, EscrowIds)
  BY <1>1, <1>2 DEF Owes, SumFunction, Held
<1> QED  BY <1>1, <1>2, <1>5, <1>6

\* A step that adds no more to an escrow than to the contract's account keeps it solvent.
LEMMA KeepsSolvent ==
  ASSUME TypeOK, TypeOK', Solvent, NEW e \in EscrowIds, NEW u, NEW d \in Int,
         \A f \in EscrowIds \ {e} : escrows'[f] = escrows[f],
         \/ /\ escrows[e].token = u /\ escrows'[e].token = u
            /\ escrows'[e].balance = escrows[e].balance + d
         \/ d = 0 /\ escrows[e].balance = 0 /\ escrows'[e].balance = 0,
         \A t \in Tokens \ {u} : wallet'[t][EscrowAddr] >= wallet[t][EscrowAddr],
         u \in Tokens => wallet'[u][EscrowAddr] >= wallet[u][EscrowAddr] + d
  PROVE  Solvent'
<1>1. ASSUME NEW t \in Tokens PROVE Owes(t)' <= wallet'[t][EscrowAddr]
  <2> DEFINE owes == Owes(t)
             owed == Owes(t)'
             before == Held(t)[e]
             after == Held(t)'[e]
             own == wallet[t][EscrowAddr]
             owned == wallet'[t][EscrowAddr]
             moved == IF t = u THEN d ELSE 0
  <2>1. before \in Nat
    BY HeldNat
  <2>2. after = before + moved
    <3>1. before = IF escrows[e].token = t THEN escrows[e].balance ELSE 0
      BY DEF Held
    <3>2. after = IF escrows'[e].token = t THEN escrows'[e].balance ELSE 0
      BY DEF Held
    <3>3. escrows[e].balance \in Nat /\ escrows'[e].balance \in Nat
      BY DEF TypeOK, Escrow
    <3> HIDE DEF before, after
    <3> QED  BY <3>1, <3>2, <3>3
  <2>3. own \in Nat /\ owned \in Nat
    BY DEF TypeOK, TokenTypeOK
  <2>4. owes \in Int
    <3>1. PICK f : f = Held(t)
      OBVIOUS
    <3>2. \A x \in EscrowIds : f[x] \in Int
      BY <3>1, HeldNat
    <3>3. owes = SumFunctionOnSet(f, EscrowIds)
      BY <3>1, OwesOnIds
    <3> HIDE DEF EscrowIds, owes
    <3>4. SumFunctionOnSet(f, EscrowIds) \in Int
      BY <3>2, EscrowsFinite, SumInt
    <3> QED  BY <3>3, <3>4
  <2>5. owes <= own
    BY DEF Solvent, Owes
  <2>6. owed = owes - before + after
    BY OwesChange
  <2>7. owned >= own + moved
    BY <2>3
  <2>8. moved \in Int
    OBVIOUS
  <2> HIDE DEF owes, owed, before, after, own, owned, moved
  <2>9. owed <= owned
    BY <2>1, <2>2, <2>3, <2>4, <2>5, <2>6, <2>7, <2>8
  <2> QED  BY <2>9 DEF owed, owned
<1> QED  BY <1>1 DEF Solvent, Owes

LEMMA DepositSolvent ==
  ASSUME IInv, IInv', Solvent, NEW a \in Addr, NEW e \in EscrowIds, NEW n \in Amounts,
         deposit(a, e, n)
  PROVE  Solvent'
<1> DEFINE u == escrows[e].token
<1>1. /\ escrows[e] \in Escrow /\ u \in Tokens /\ n \in Nat
      /\ \A f \in EscrowIds \ {e} : escrows'[f] = escrows[f]
  BY AmountAssumption DEF IInv, TypeOK, WellFormed, deposit, mayDeposit
<1>2. escrows'[e].token = u /\ escrows'[e].balance = escrows[e].balance + n
  BY <1>1 DEF IInv, TypeOK, Escrow, deposit
<1>3. /\ wallet'[u][EscrowAddr] = wallet[u][EscrowAddr] + n
      /\ \A t \in Tokens \ {u} : wallet'[t] = wallet[t]
  <2>1. wallet' = [wallet EXCEPT ![u] = Move(wallet[u], a, EscrowAddr, n)]
    BY DEF deposit, safeTransferFrom
  <2>2. Move(wallet[u], a, EscrowAddr, n)[EscrowAddr] = wallet[u][EscrowAddr] + n
    BY <1>1, AddressAssumption DEF IInv, TypeOK, TokenTypeOK, Move
  <2> QED  BY <1>1, <2>1, <2>2 DEF IInv, TypeOK, TokenTypeOK
<1>4. \A t \in Tokens : wallet[t][EscrowAddr] \in Nat /\ wallet'[t][EscrowAddr] \in Nat
  BY DEF IInv, TypeOK, TokenTypeOK
<1> HIDE DEF u
<1>5. /\ \A t \in Tokens \ {u} : wallet'[t][EscrowAddr] >= wallet[t][EscrowAddr]
      /\ wallet'[u][EscrowAddr] >= wallet[u][EscrowAddr] + n
  BY <1>1, <1>3, <1>4
<1> QED  BY <1>1, <1>2, <1>5, KeepsSolvent DEF IInv, u

\* What the contract pays out has left its account, unless it pays itself.
LEMMA TransferDebits ==
  ASSUME TokenTypeOK, TokenTypeOK', NEW u \in Tokens, NEW to \in Holders \cup {ZeroAddr},
         NEW n \in Nat, safeTransfer(u, to, n)
  PROVE  /\ wallet'[u][EscrowAddr] >= wallet[u][EscrowAddr] + (0 - n)
         /\ \A t \in Tokens \ {u} : wallet'[t][EscrowAddr] >= wallet[t][EscrowAddr]
<1>1. wallet' = [wallet EXCEPT ![u] = Move(wallet[u], EscrowAddr, to, n)]
  BY DEF safeTransfer
<1>2. Move(wallet[u], EscrowAddr, to, n)[EscrowAddr] >= wallet[u][EscrowAddr] + (0 - n)
  BY DEF TokenTypeOK, Move
<1>3. \A t \in Tokens : wallet[t][EscrowAddr] \in Nat /\ wallet'[t][EscrowAddr] \in Nat
  BY DEF TokenTypeOK
<1>4. \A t \in Tokens \ {u} : wallet'[t] = wallet[t]
  BY <1>1 DEF TokenTypeOK
<1>5. wallet'[u] = Move(wallet[u], EscrowAddr, to, n)
  BY <1>1 DEF TokenTypeOK
<1>6. \A t \in Tokens \ {u} : wallet'[t][EscrowAddr] >= wallet[t][EscrowAddr]
  BY <1>3, <1>4
<1> QED  BY <1>2, <1>5, <1>6

LEMMA WithdrawSolvent ==
  ASSUME IInv, IInv', Solvent, NEW e \in EscrowIds, NEW r \in ReleaseIds, withdraw(e, r)
  PROVE  Solvent'
<1> DEFINE n == releases[e][r].amount
           to == releases[e][r].recipient
           u == escrows[e].token
<1>1. /\ escrows[e] \in Escrow /\ u \in Tokens
      /\ releases[e][r] \in ReleaseRequest
      /\ \A f \in EscrowIds \ {e} : escrows'[f] = escrows[f]
  <2>1. escrows \in [EscrowIds -> Escrow] /\ releases[e][r] \in ReleaseRequest
    BY DEF IInv, TypeOK
  <2>2. u \in Tokens
    BY DEF IInv, WellFormed, withdraw, mayWithdraw
  <2>3. \A f \in EscrowIds \ {e} : escrows'[f] = escrows[f]
    BY <2>1 DEF withdraw
  <2> QED  BY <2>1, <2>2, <2>3
<1>2. n \in Nat /\ to \in Holders \cup {ZeroAddr}
  BY <1>1 DEF ReleaseRequest
<1>3. escrows'[e].token = u /\ escrows'[e].balance = escrows[e].balance + (0 - n)
  <2>1. escrows'[e].token = u /\ escrows'[e].balance = escrows[e].balance - n
    BY <1>1 DEF IInv, TypeOK, Escrow, withdraw
  <2>2. escrows[e].balance \in Nat
    BY <1>1 DEF Escrow
  <2> HIDE DEF n
  <2> QED  BY <1>2, <2>1, <2>2
<1>4. /\ wallet'[u][EscrowAddr] >= wallet[u][EscrowAddr] + (0 - n)
      /\ \A t \in Tokens \ {u} : wallet'[t][EscrowAddr] >= wallet[t][EscrowAddr]
  BY <1>1, <1>2, TransferDebits DEF IInv, TypeOK, withdraw
<1> HIDE DEF n, u
<1>5. 0 - n \in Int
  BY <1>2
<1> QED  BY <1>1, <1>3, <1>4, <1>5, KeepsSolvent DEF IInv, u

LEMMA RefundSolvent ==
  ASSUME IInv, IInv', Solvent, NEW a \in Addr, NEW e \in EscrowIds, claimRefund(a, e)
  PROVE  Solvent'
<1> DEFINE n == escrows[e].balance
           to == escrows[e].buyer
           u == escrows[e].token
<1>1. /\ escrows[e] \in Escrow /\ u \in Tokens
      /\ \A f \in EscrowIds \ {e} : escrows'[f] = escrows[f]
  BY DEF IInv, TypeOK, WellFormed, claimRefund, mayClaimRefund
<1>2. n \in Nat /\ to \in Holders \cup {ZeroAddr}
  BY <1>1 DEF Escrow
<1>3. escrows'[e].token = u /\ escrows'[e].balance = 0
  BY <1>1 DEF IInv, TypeOK, Escrow, claimRefund
<1>4. /\ wallet'[u][EscrowAddr] >= wallet[u][EscrowAddr] + (0 - n)
      /\ \A t \in Tokens \ {u} : wallet'[t][EscrowAddr] >= wallet[t][EscrowAddr]
  BY <1>1, <1>2, TransferDebits DEF IInv, TypeOK, claimRefund
<1>5. 0 - n \in Int /\ escrows'[e].balance = escrows[e].balance + (0 - n)
  BY <1>2, <1>3
<1> HIDE DEF n, u
<1> QED  BY <1>1, <1>3, <1>4, <1>5, KeepsSolvent DEF IInv, u

\* A call that moves no token and no balance keeps the contract solvent.
LEMMA UnmovedSolvent ==
  ASSUME IInv, IInv', Solvent, NEW e \in EscrowIds, UNCHANGED wallet,
         \A f \in EscrowIds \ {e} : escrows'[f] = escrows[f],
         \/ escrows'[e].token = escrows[e].token /\ escrows'[e].balance = escrows[e].balance
         \/ escrows[e].balance = 0 /\ escrows'[e].balance = 0
  PROVE  Solvent'
<1> DEFINE u == escrows[e].token
<1>1. escrows[e].balance \in Nat /\ \A t \in Tokens : wallet[t][EscrowAddr] \in Nat
  BY DEF IInv, TypeOK, TokenTypeOK, Escrow
<1>2. /\ \A t \in Tokens \ {u} : wallet'[t][EscrowAddr] >= wallet[t][EscrowAddr]
      /\ u \in Tokens => wallet'[u][EscrowAddr] >= wallet[u][EscrowAddr] + 0
  BY <1>1
<1>3. \/ escrows'[e].token = u /\ escrows'[e].balance = escrows[e].balance + 0
      \/ escrows[e].balance = 0 /\ escrows'[e].balance = 0
  BY <1>1
<1> HIDE DEF u
<1> DEFINE d == 0
<1>4. /\ d \in Int
      /\ \/ /\ escrows[e].token = u /\ escrows'[e].token = u
            /\ escrows'[e].balance = escrows[e].balance + d
         \/ d = 0 /\ escrows[e].balance = 0 /\ escrows'[e].balance = 0
      /\ \A t \in Tokens \ {u} : wallet'[t][EscrowAddr] >= wallet[t][EscrowAddr]
      /\ u \in Tokens => wallet'[u][EscrowAddr] >= wallet[u][EscrowAddr] + d
  BY <1>2, <1>3 DEF u
<1> HIDE DEF d
<1> QED  BY <1>4, KeepsSolvent DEF IInv

LEMMA CallSolvent ==
  ASSUME IInv, IInv', Solvent, NEW e \in EscrowIds, AnyCall(e)
  PROVE  Solvent'
<1>1. escrows[e] \in Escrow /\ \A f \in EscrowIds \ {e} : escrows'[f] = escrows[f]
  BY CallFrame DEF IInv, TypeOK
<1>2. ASSUME NEW a \in Addr, NEW n \in Amounts, NEW to \in Holders \cup {ZeroAddr},
             requestRelease(a, e, n, to)
      PROVE  Solvent'
  <2>1. /\ escrows'[e].token = escrows[e].token /\ escrows'[e].balance = escrows[e].balance
        /\ UNCHANGED wallet
    BY <1>1, <1>2 DEF requestRelease, IInv, TypeOK, Escrow, tokenVars
  <2> QED  BY <1>1, <2>1, UnmovedSolvent
<1>3. ASSUME NEW a \in Addr, NEW r \in ReleaseIds, approveRelease(a, e, r) PROVE Solvent'
  <2>1. UNCHANGED <<escrows, wallet>>
    BY <1>3 DEF approveRelease, tokenVars
  <2> QED  BY <1>1, <2>1, UnmovedSolvent
<1> QED  BY <1>2, <1>3, DepositSolvent, WithdrawSolvent, RefundSolvent DEF AnyCall

LEMMA NextSolvent == IInv /\ IInv' /\ Unissued /\ Solvent /\ [Next]_vars => Solvent'
<1> SUFFICES ASSUME IInv, IInv', Unissued, Solvent, [Next]_vars PROVE Solvent'
  OBVIOUS
<1>1. CASE CallToken
  <2>1. UNCHANGED escrows /\ \A t \in Tokens : wallet'[t][EscrowAddr] = wallet[t][EscrowAddr]
    <3>1. PICK t \in Tokens, a \in Payers, n \in Amounts : mint(t, a, n) \/ approve(t, a, n)
      BY <1>1 DEF CallToken
    <3>2. a # EscrowAddr
      BY PayersAssumption, AddressAssumption
    <3>3. \/ wallet' = [wallet EXCEPT ![t][a] = @ + n]
          \/ wallet' = wallet
      BY <3>1 DEF mint, approve
    <3>4. wallet \in [Tokens -> [Holders -> Nat]] /\ UNCHANGED escrows
      BY <1>1 DEF CallToken, escrowVars, IInv, TypeOK, TokenTypeOK
    <3>5. CASE wallet' = [wallet EXCEPT ![t][a] = @ + n]
      BY <3>2, <3>4, <3>5
    <3>6. CASE wallet' = wallet
      BY <3>4, <3>6
    <3> QED  BY <3>3, <3>5, <3>6
  <2>2. \A t \in Tokens : Owes(t)' = Owes(t)
    BY <2>1 DEF Owes, Held
  <2> QED  BY <2>1, <2>2 DEF Solvent, Owes
<1>2. ASSUME NEW terms \in EscrowTerms, createEscrow(terms) PROVE Solvent'
  <2>1. UNCHANGED wallet
    BY <1>2 DEF createEscrow, tokenVars
  <2>2. /\ nextEscrowId \in EscrowIds
        /\ escrows[nextEscrowId].balance = 0 /\ escrows'[nextEscrowId].balance = 0
        /\ \A f \in EscrowIds \ {nextEscrowId} : escrows'[f] = escrows[f]
    BY <1>2, CreateFrame DEF Unissued, NoEscrow
  <2> QED  BY <2>1, <2>2, UnmovedSolvent
<1>3. ASSUME NEW e \in EscrowIds, AnyCall(e) PROVE Solvent'
  BY <1>3, CallSolvent
<1>4. CASE Tick \/ UNCHANGED vars
  <2>1. UNCHANGED <<escrows, wallet>>
    BY <1>4 DEF Tick, escrowVars, tokenVars, vars
  <2> QED  BY <2>1 DEF Solvent, Held
<1> QED  BY <1>1, <1>2, <1>3, <1>4, CallIsAnyCall DEF Next

LEMMA InitSolvent == ASSUME ContractInit, TokenTypeOK PROVE Solvent
<1> SUFFICES ASSUME NEW t \in Tokens PROVE Owes(t) <= wallet[t][EscrowAddr]
  BY DEF Solvent, Owes
<1>1. PICK f : f = Held(t)
  OBVIOUS
<1>2. \A e \in EscrowIds : f[e] = 0
  BY <1>1 DEF Held, ContractInit, NoEscrow
<1>3. Owes(t) = 0
  BY <1>1, <1>2, EscrowsFinite, SumZero, OwesOnIds
<1> QED  BY <1>3 DEF TokenTypeOK

\* The contract is solvent: of every token it owns at least the sum of its escrows' balances.
THEOREM ContractSolvent == Spec => []Solvent
<1>1. Init => Unissued
  BY BoundAssumption DEF Init, ContractInit, Unissued, NoEscrow
<1>2. Init => Solvent
  BY InitIInv, InitSolvent DEF IInv, TypeOK, Init
<1> QED  BY <1>1, <1>2, InitIInv, NextIInv, NextUnissued, NextSolvent, PTL DEF Spec

-----------------------------------------------------------------------------

\* What the releases of escrow e that are not withdrawn ask for.
Outstanding(e) ==
  [r \in ReleaseIds |-> IF releases[e][r].state = "Withdrawn" THEN 0 ELSE releases[e][r].amount]

Asked(e) == SumFunction(Outstanding(e))

\* The releases of escrow e: none is recorded past the counter, an approved one has an amount,
\* and until a refund what is reserved is what the releases that are not withdrawn ask for.
ClaimsOf(e) ==
  /\ \A r \in ReleaseIds : r >= escrows[e].nextReleaseId => releases[e][r] = NoRelease
  /\ \A r \in ReleaseIds :
       releases[e][r].state = "Approved" => escrowExists(e) /\ releases[e][r].amount # 0
  /\ epoch[e] = 0 => escrows[e].pendingReleaseTotal = Asked(e)

ClaimsKept == \A e \in EscrowIds : ClaimsOf(e)

LEMMA OutstandingNat ==
  ASSUME TypeOK, NEW e \in EscrowIds
  PROVE  \A r \in ReleaseIds : Outstanding(e)[r] \in Nat
BY DEF Outstanding, TypeOK, ReleaseRequest

LEMMA AskedOnIds == \A e : Asked(e) = SumFunctionOnSet(Outstanding(e), ReleaseIds)
BY DEF Asked, SumFunction, Outstanding

LEMMA AskedNat ==
  ASSUME TypeOK, NEW e \in EscrowIds
  PROVE  Asked(e) \in Nat /\ \A r \in ReleaseIds : Outstanding(e)[r] <= Asked(e)
<1>1. PICK f : f = Outstanding(e)
  OBVIOUS
<1>2. \A r \in ReleaseIds : f[r] \in Nat
  BY <1>1, OutstandingNat
<1>3. Asked(e) = SumFunctionOnSet(f, ReleaseIds)
  BY <1>1, AskedOnIds
<1>4. /\ SumFunctionOnSet(f, ReleaseIds) \in Nat
      /\ \A r \in ReleaseIds : f[r] <= SumFunctionOnSet(f, ReleaseIds)
  <2> HIDE DEF ReleaseIds
  <2> QED  BY ONLY <1>2, EscrowsFinite, SumNat, TermAtMostSum
<1> QED  BY <1>1, <1>3, <1>4

LEMMA AskedChange ==
  ASSUME TypeOK, TypeOK', NEW e \in EscrowIds, NEW r \in ReleaseIds,
         \A s \in ReleaseIds \ {r} : releases'[e][s] = releases[e][s]
  PROVE  Asked(e)' = Asked(e) - Outstanding(e)[r] + Outstanding(e)'[r]
<1>1. PICK f : f = Outstanding(e)
  OBVIOUS
<1>2. PICK g : g = Outstanding(e)'
  OBVIOUS
<1>3. \A x \in ReleaseIds : f[x] \in Int /\ g[x] \in Int
  <2>1. \A x \in ReleaseIds : f[x] \in Int
    BY <1>1, OutstandingNat
  <2>2. \A x \in ReleaseIds : g[x] \in Int
    <3>1. releases' \in [EscrowIds -> [ReleaseIds -> ReleaseRequest]]
      BY DEF TypeOK
    <3>2. \A x \in ReleaseIds : releases'[e][x] \in ReleaseRequest
      BY <3>1
    <3> QED  BY <1>2, <3>2 DEF Outstanding, ReleaseRequest
  <2> QED  BY <2>1, <2>2
<1>4. \A x \in ReleaseIds \ {r} : f[x] = g[x]
  BY <1>1, <1>2 DEF Outstanding
<1>5. SumFunctionOnSet(g, ReleaseIds) = SumFunctionOnSet(f, ReleaseIds) - f[r] + g[r]
  <2> HIDE DEF ReleaseIds
  <2> QED  BY ONLY <1>3, <1>4, EscrowsFinite, SumChange, r \in ReleaseIds
<1>6. Asked(e) = SumFunctionOnSet(f, ReleaseIds) /\ Asked(e)' = SumFunctionOnSet(g, ReleaseIds)
  BY <1>1, <1>2 DEF Asked, SumFunction, Outstanding
<1> QED  BY <1>1, <1>2, <1>5, <1>6

\* What leaves the releases of an escrow alone, and its reservation, keeps the claims on it.
LEMMA SameClaims ==
  ASSUME ClaimsKept, NEW e \in EscrowIds,
         UNCHANGED <<releases[e], epoch[e]>>,
         escrowExists(e) => escrows'[e].buyer # ZeroAddr,
         escrows'[e].pendingReleaseTotal = escrows[e].pendingReleaseTotal,
         \/ escrows'[e].nextReleaseId = escrows[e].nextReleaseId
         \/ escrows[e].nextReleaseId = 0 /\ escrows'[e].nextReleaseId = 1
  PROVE  ClaimsOf(e)'
<1>1. Asked(e)' = Asked(e)
  BY DEF Asked, Outstanding
<1>2. ClaimsOf(e)
  BY DEF ClaimsKept
<1> QED  BY <1>1, <1>2 DEF ClaimsOf, escrowExists

LEMMA RequestClaims ==
  ASSUME IInv, IInv', ClaimsKept, NEW a \in Addr, NEW e \in EscrowIds, NEW n \in Amounts,
         NEW to \in Holders \cup {ZeroAddr}, requestRelease(a, e, n, to)
  PROVE  ClaimsOf(e)'
<1> DEFINE r == escrows[e].nextReleaseId
           rel == [amount |-> n, recipient |-> to, state |-> "Pending"]
<1>1. r \in ReleaseIds /\ escrows[e] \in Escrow /\ n \in Nat /\ escrowExists(e)
  BY AmountAssumption DEF requestRelease, mayRequestRelease, IInv, TypeOK
<1>2. /\ escrows'[e].nextReleaseId = r + 1
      /\ escrows'[e].pendingReleaseTotal = escrows[e].pendingReleaseTotal + n
      /\ escrows'[e].buyer = escrows[e].buyer
      /\ epoch' = epoch
  BY <1>1 DEF requestRelease, IInv, TypeOK, Escrow
<1>3. releases'[e][r] = rel /\ \A s \in ReleaseIds \ {r} : releases'[e][s] = releases[e][s]
  BY <1>1 DEF requestRelease, IInv, TypeOK
<1>4. releases[e][r] = NoRelease
  BY <1>1 DEF ClaimsKept, ClaimsOf
<1>5. Outstanding(e)[r] = 0 /\ Outstanding(e)'[r] = n
  BY <1>1, <1>3, <1>4 DEF Outstanding, NoRelease
<1> HIDE DEF r
<1>6. Asked(e)' = Asked(e) - 0 + n
  BY <1>1, <1>3, <1>5, AskedChange DEF IInv
<1>7. Asked(e) \in Nat /\ escrows[e].pendingReleaseTotal \in Nat
  BY <1>1, AskedNat DEF IInv, Escrow
<1>8. epoch[e] = 0 => escrows[e].pendingReleaseTotal = Asked(e)
  BY DEF ClaimsKept, ClaimsOf
<1>9. epoch'[e] = 0 => escrows'[e].pendingReleaseTotal = Asked(e)'
  BY <1>1, <1>2, <1>6, <1>7, <1>8
<1>10. \A s \in ReleaseIds : s >= escrows'[e].nextReleaseId => releases'[e][s] = NoRelease
  <2> SUFFICES ASSUME NEW s \in ReleaseIds, s >= r + 1 PROVE releases'[e][s] = NoRelease
    BY <1>2
  <2>1. s # r /\ s >= r
    BY <1>1
  <2> QED  BY <1>3, <2>1 DEF ClaimsKept, ClaimsOf, r
<1>11. \A s \in ReleaseIds : releases'[e][s].state = "Approved" =>
         escrows'[e].buyer # ZeroAddr /\ releases'[e][s].amount # 0
  BY <1>1, <1>2, <1>3 DEF ClaimsKept, ClaimsOf, escrowExists
<1> QED  BY <1>9, <1>10, <1>11 DEF ClaimsOf, escrowExists

LEMMA ApproveClaims ==
  ASSUME IInv, IInv', ClaimsKept, NEW a \in Addr, NEW e \in EscrowIds, NEW r \in ReleaseIds,
         approveRelease(a, e, r)
  PROVE  ClaimsOf(e)'
<1>1. releases[e][r] \in ReleaseRequest /\ escrowExists(e) /\ releases[e][r].amount # 0
  BY DEF approveRelease, mayApproveRelease, releaseExists, IInv, TypeOK
<1>2. /\ releases'[e][r].state = "Approved" /\ releases'[e][r].amount = releases[e][r].amount
      /\ \A s \in ReleaseIds \ {r} : releases'[e][s] = releases[e][s]
      /\ UNCHANGED <<escrows, epoch>>
  BY <1>1 DEF approveRelease, IInv, TypeOK, ReleaseRequest
<1>3. releases[e][r].state = "Pending"
  BY DEF approveRelease, mayApproveRelease
<1>4. Outstanding(e)' = Outstanding(e)
  BY <1>2, <1>3 DEF Outstanding
<1>5. Asked(e)' = Asked(e)
  BY <1>4 DEF Asked
<1>6. ~(r >= escrows[e].nextReleaseId)
  BY <1>1 DEF ClaimsKept, ClaimsOf, NoRelease
<1> QED  BY <1>1, <1>2, <1>5, <1>6 DEF ClaimsKept, ClaimsOf, escrowExists

LEMMA WithdrawClaims ==
  ASSUME IInv, IInv', ClaimsKept, NEW e \in EscrowIds, NEW r \in ReleaseIds, withdraw(e, r)
  PROVE  ClaimsOf(e)'
<1> DEFINE n == releases[e][r].amount
<1>1. /\ releases[e][r] \in ReleaseRequest /\ escrows[e] \in Escrow
      /\ releases[e][r].state = "Approved" /\ n # 0 /\ escrowExists(e)
  BY DEF withdraw, mayWithdraw, releaseExists, IInv, TypeOK
<1>2. n \in Nat
  BY <1>1 DEF ReleaseRequest
<1>3. /\ releases'[e][r].state = "Withdrawn"
      /\ \A s \in ReleaseIds \ {r} : releases'[e][s] = releases[e][s]
      /\ UNCHANGED epoch
  BY <1>1 DEF withdraw, IInv, TypeOK, ReleaseRequest
<1>4. /\ escrows'[e].pendingReleaseTotal = escrows[e].pendingReleaseTotal - n
      /\ escrows'[e].buyer = escrows[e].buyer
      /\ escrows'[e].nextReleaseId = escrows[e].nextReleaseId
  BY <1>1 DEF withdraw, IInv, TypeOK, Escrow
<1>5. Outstanding(e)[r] = n /\ Outstanding(e)'[r] = 0
  BY <1>1, <1>3 DEF Outstanding
<1>6. ~(r >= escrows[e].nextReleaseId)
  BY <1>1 DEF ClaimsKept, ClaimsOf, NoRelease
<1> HIDE DEF n
<1>7. Asked(e)' = Asked(e) - n + 0
  BY <1>3, <1>5, AskedChange DEF IInv
<1>8. Asked(e) \in Nat /\ escrows[e].pendingReleaseTotal \in Nat
  BY <1>1, AskedNat DEF IInv, Escrow
<1>9. epoch[e] = 0 => escrows[e].pendingReleaseTotal = Asked(e)
  BY DEF ClaimsKept, ClaimsOf
<1>10. epoch'[e] = 0 => escrows'[e].pendingReleaseTotal = Asked(e)'
  BY <1>2, <1>3, <1>4, <1>7, <1>8, <1>9
<1>11. \A s \in ReleaseIds : s >= escrows'[e].nextReleaseId => releases'[e][s] = NoRelease
  BY <1>3, <1>4, <1>6 DEF ClaimsKept, ClaimsOf
<1>12. \A s \in ReleaseIds : releases'[e][s].state = "Approved" =>
         escrows'[e].buyer # ZeroAddr /\ releases'[e][s].amount # 0
  BY <1>1, <1>3, <1>4 DEF ClaimsKept, ClaimsOf, escrowExists
<1> QED  BY <1>10, <1>11, <1>12 DEF ClaimsOf, escrowExists

LEMMA RefundClaims ==
  ASSUME IInv, IInv', ClaimsKept, NEW a \in Addr, NEW e \in EscrowIds, claimRefund(a, e)
  PROVE  ClaimsOf(e)'
<1>1. escrows[e] \in Escrow /\ escrowExists(e) /\ escrows[e].nextReleaseId >= 1
  BY DEF claimRefund, mayClaimRefund, IInv, TypeOK, WellFormed
<1>2. /\ escrows'[e].buyer = escrows[e].buyer
      /\ escrows'[e].nextReleaseId = escrows[e].nextReleaseId
      /\ epoch'[e] = escrows[e].nextReleaseId /\ UNCHANGED releases
  BY <1>1 DEF claimRefund, IInv, TypeOK, Escrow
<1>3. epoch'[e] # 0
  BY <1>1, <1>2 DEF Escrow
<1> QED  BY <1>1, <1>2, <1>3 DEF ClaimsKept, ClaimsOf, escrowExists

LEMMA CallClaims ==
  ASSUME IInv, IInv', ClaimsKept, NEW e \in EscrowIds, AnyCall(e)
  PROVE  ClaimsKept'
<1>1. escrows[e] \in Escrow /\ \A f \in EscrowIds \ {e} : escrows'[f] = escrows[f]
  BY CallFrame DEF IInv, TypeOK
<1>2. \A f \in EscrowIds \ {e} : UNCHANGED <<releases[f], epoch[f]>>
  BY DEF AnyCall, deposit, requestRelease, approveRelease, withdraw, claimRefund, IInv, TypeOK
<1>3. \A f \in EscrowIds \ {e} : ClaimsOf(f)'
  <2> SUFFICES ASSUME NEW f \in EscrowIds \ {e} PROVE ClaimsOf(f)'
    OBVIOUS
  <2>1. UNCHANGED <<escrows[f], releases[f], epoch[f]>>
    BY <1>1, <1>2
  <2> QED  BY <2>1, SameClaims DEF escrowExists
<1>4. ASSUME NEW a \in Addr, NEW n \in Amounts, deposit(a, e, n) PROVE ClaimsOf(e)'
  <2>1. /\ UNCHANGED <<releases, epoch>> /\ escrows'[e].buyer = escrows[e].buyer
        /\ escrows'[e].pendingReleaseTotal = escrows[e].pendingReleaseTotal
        /\ escrows'[e].nextReleaseId = escrows[e].nextReleaseId
    BY <1>1, <1>4 DEF deposit, IInv, TypeOK, Escrow
  <2>2. UNCHANGED <<releases[e], epoch[e]>>
    BY <2>1
  <2> QED  BY <2>1, <2>2, SameClaims DEF escrowExists
<1>5. ClaimsOf(e)'
  BY <1>4, RequestClaims, ApproveClaims, WithdrawClaims, RefundClaims DEF AnyCall
<1> QED  BY <1>3, <1>5 DEF ClaimsKept

LEMMA CreateClaims ==
  ASSUME IInv, Unissued, ClaimsKept, NEW terms \in EscrowTerms, createEscrow(terms)
  PROVE  ClaimsKept'
<1> SUFFICES ASSUME NEW f \in EscrowIds PROVE ClaimsOf(f)'
  BY DEF ClaimsKept
<1>1. UNCHANGED <<releases[f], epoch[f]>>
  BY DEF createEscrow
<1>2. CASE f = nextEscrowId
  <2>1. escrows[f] = NoEscrow
    BY <1>2 DEF Unissued, IInv, TypeOK
  <2>2. escrows'[f].nextReleaseId = 1 /\ escrows'[f].pendingReleaseTotal = 0
    BY <1>2 DEF createEscrow, IInv, TypeOK
  <2> QED  BY <1>1, <2>1, <2>2, SameClaims DEF escrowExists, NoEscrow
<1>3. CASE f # nextEscrowId
  <2>1. UNCHANGED escrows[f]
    BY <1>3, CreateFrame
  <2> QED  BY <1>1, <2>1, SameClaims DEF escrowExists
<1> QED  BY <1>2, <1>3

LEMMA NextClaims == IInv /\ IInv' /\ Unissued /\ ClaimsKept /\ [Next]_vars => ClaimsKept'
<1> SUFFICES ASSUME IInv, IInv', Unissued, ClaimsKept, [Next]_vars PROVE ClaimsKept'
  OBVIOUS
<1>1. CASE CallToken \/ Tick \/ UNCHANGED vars
  <2> SUFFICES ASSUME NEW f \in EscrowIds PROVE ClaimsOf(f)'
    BY DEF ClaimsKept
  <2>1. UNCHANGED <<escrows[f], releases[f], epoch[f]>>
    BY <1>1 DEF CallToken, Tick, vars, escrowVars
  <2> QED  BY <2>1, SameClaims DEF escrowExists
<1>2. ASSUME NEW terms \in EscrowTerms, createEscrow(terms) PROVE ClaimsKept'
  BY <1>2, CreateClaims
<1>3. ASSUME NEW e \in EscrowIds, AnyCall(e) PROVE ClaimsKept'
  BY <1>3, CallClaims
<1> QED  BY <1>1, <1>2, <1>3, CallIsAnyCall DEF Next

LEMMA InitClaims == ASSUME ContractInit PROVE ClaimsKept
<1> SUFFICES ASSUME NEW e \in EscrowIds PROVE ClaimsOf(e)
  BY DEF ClaimsKept
<1>1. PICK f : f = Outstanding(e)
  OBVIOUS
<1>2. \A r \in ReleaseIds : releases[e][r] = NoRelease
  BY DEF ContractInit
<1>3. \A r \in ReleaseIds : f[r] = 0
  BY <1>1, <1>2 DEF Outstanding, NoRelease
<1>4. Asked(e) = 0
  <2>1. Asked(e) = SumFunctionOnSet(f, ReleaseIds)
    BY <1>1, AskedOnIds
  <2>2. SumFunctionOnSet(f, ReleaseIds) = 0
    <3> HIDE DEF ReleaseIds
    <3> QED  BY ONLY <1>3, EscrowsFinite, SumZero
  <2> QED  BY <2>1, <2>2
<1> QED  BY <1>2, <1>4 DEF ClaimsOf, ContractInit, NoEscrow, NoRelease

\* What an escrow holds is in the contract's account of its token.
LEMMA BalanceCovered ==
  ASSUME IInv, Solvent, NEW e \in EscrowIds, escrowExists(e)
  PROVE  escrows[e].balance <= wallet[escrows[e].token][EscrowAddr]
<1> DEFINE t == escrows[e].token
<1>1. t \in Tokens
  BY DEF IInv, WellFormed
<1>2. PICK f : f = Held(t)
  OBVIOUS
<1>3. \A x \in EscrowIds : f[x] \in Nat
  BY <1>2, HeldNat DEF IInv
<1>4. Owes(t) = SumFunctionOnSet(f, EscrowIds)
  BY <1>2, OwesOnIds
<1>5. f[e] <= SumFunctionOnSet(f, EscrowIds) /\ SumFunctionOnSet(f, EscrowIds) \in Nat
  <2> HIDE DEF EscrowIds
  <2> QED  BY ONLY <1>3, EscrowsFinite, TermAtMostSum, SumNat, e \in EscrowIds
<1>6. f[e] = escrows[e].balance
  BY <1>2 DEF Held
<1>7. Owes(t) <= wallet[t][EscrowAddr]
  BY <1>1 DEF Solvent, Owes
<1>8. wallet[t][EscrowAddr] \in Nat /\ f[e] \in Nat
  BY <1>1, <1>3 DEF IInv, TypeOK, TokenTypeOK
<1> HIDE DEF t
<1>9. f[e] <= wallet[t][EscrowAddr]
  BY <1>4, <1>5, <1>7, <1>8
<1> QED  BY <1>6, <1>9 DEF t

LEMMA NeverStuck == IInv /\ Solvent /\ ClaimsKept => FundsNeverStuck
<1> SUFFICES ASSUME IInv, Solvent, ClaimsKept PROVE FundsNeverStuck
  OBVIOUS
<1>1. ASSUME NEW e \in EscrowIds, escrowExists(e), now >= escrows[e].timeout,
             escrows[e].balance > 0
      PROVE  mayClaimRefund(escrows[e].buyer, e)
  <2>1. escrows[e].balance <= wallet[escrows[e].token][EscrowAddr]
    BY <1>1, BalanceCovered
  <2>2. escrows[e].balance \in Nat /\ wallet[escrows[e].token][EscrowAddr] \in Nat
    BY <1>1 DEF IInv, TypeOK, TokenTypeOK, WellFormed, Escrow
  <2>3. escrows[e].balance # 0 /\ wallet[escrows[e].token][EscrowAddr] >= escrows[e].balance
    BY <1>1, <2>1, <2>2
  <2> QED  BY <1>1, <2>3 DEF mayClaimRefund, timeoutElapsed, mayTransfer, escrowExists
<1>2. ASSUME NEW e \in EscrowIds, NEW r \in ReleaseIds, epoch[e] = 0,
             releases[e][r].state = "Approved", releases[e][r].recipient # ZeroAddr
      PROVE  mayWithdraw(e, r)
  <2> DEFINE n == releases[e][r].amount
             own == wallet[escrows[e].token][EscrowAddr]
             reserved == escrows[e].pendingReleaseTotal
             balance == escrows[e].balance
  <2>1. escrowExists(e) /\ n # 0 /\ reserved = Asked(e)
    BY <1>2 DEF ClaimsKept, ClaimsOf
  <2>2. n <= Asked(e)
    <3>1. Outstanding(e)[r] = n
      BY <1>2 DEF Outstanding
    <3> QED  BY <3>1, AskedNat DEF IInv
  <2>3. reserved <= balance /\ balance <= own
    BY <2>1, BalanceCovered DEF IInv, PendingCovered
  <2>4. n \in Nat /\ reserved \in Nat /\ balance \in Nat /\ own \in Nat
    BY <2>1 DEF IInv, TypeOK, TokenTypeOK, WellFormed, Escrow, ReleaseRequest
  <2>5. n <= reserved
    BY <2>1, <2>2
  <2> HIDE DEF n, own, reserved, balance
  <2>6. n <= balance /\ own >= n
    BY <2>3, <2>4, <2>5
  <2> QED
    BY <1>2, <2>1, <2>5, <2>6
    DEF mayWithdraw, mayTransfer, releaseExists, n, own, reserved, balance
<1> QED  BY <1>1, <1>2 DEF FundsNeverStuck, RefundNeverStuck, ApprovedWithdrawable

\* No order of calls locks funds: after the timeout the buyer's refund passes every check of
\* the contract, and until a refund so does the withdrawal of an approved release.
THEOREM NeverLocked == Spec => []FundsNeverStuck
<1>1. Init => Unissued /\ ClaimsKept
  BY BoundAssumption, InitClaims DEF Init, ContractInit, Unissued
<1>2. Spec => [](IInv /\ Unissued /\ ClaimsKept)
  BY <1>1, InitIInv, NextIInv, NextUnissued, NextClaims, PTL DEF Spec
<1> QED  BY <1>2, ContractSolvent, NeverStuck, PTL

-----------------------------------------------------------------------------

\* All that is known of the contract, and what keeps it: the creation of an escrow, a call
\* about one, and what leaves the contract and its accounts alone.
ChainInv == IInv /\ Unissued /\ Solvent /\ ClaimsKept

Quiet ==
  /\ UNCHANGED <<escrows, releases, nextEscrowId, epoch, wallet>>
  /\ now' \in Time /\ now' >= now
  /\ TokenTypeOK'

LEMMA QuietIInv == IInv /\ Quiet => IInv'
BY DEF IInv, Quiet, TypeOK, PendingCovered, WellFormed, escrowExists

LEMMA QuietKept == ASSUME ChainInv, Quiet PROVE ChainInv'
<1>1. IInv'
  BY QuietIInv DEF ChainInv
<1>2. Unissued'
  BY DEF ChainInv, Unissued, Quiet
<1>3. Solvent'
  BY DEF ChainInv, Solvent, Held, Quiet
<1>4. ClaimsKept'
  BY DEF ChainInv, ClaimsKept, ClaimsOf, Asked, Outstanding, escrowExists, Quiet
<1> QED  BY <1>1, <1>2, <1>3, <1>4 DEF ChainInv

LEMMA CreateKept ==
  ASSUME ChainInv, NEW terms \in EscrowTerms, createEscrow(terms)
  PROVE  ChainInv'
<1>1. IInv'
  BY CreateIInv DEF ChainInv
<1>2. Next
  BY DEF Next
<1> QED  BY <1>1, <1>2, NextUnissued, NextSolvent, NextClaims DEF ChainInv

LEMMA CallKept ==
  ASSUME ChainInv, NEW e \in EscrowIds, AnyCall(e)
  PROVE  ChainInv'
<1>1. IInv'
  BY CallIInv DEF ChainInv
<1>2. Unissued'
  BY CallFrame DEF ChainInv, Unissued, escrowExists, NoEscrow
<1> QED  BY <1>1, <1>2, CallSolvent, CallClaims DEF ChainInv

LEMMA InitChain == ASSUME ContractInit, TokenTypeOK PROVE ChainInv
<1>1. NoEscrow \in Escrow /\ NoRelease \in ReleaseRequest
  BY BoundAssumption
  DEF NoEscrow, NoRelease, Escrow, ReleaseRequest, EscrowState, ReleaseState
<1>2. TypeOK
  BY <1>1, BoundAssumption DEF TypeOK, ContractInit
<1>3. PendingCovered /\ WellFormed
  BY DEF ContractInit, PendingCovered, WellFormed, escrowExists, NoEscrow
<1>4. Unissued
  BY DEF ContractInit, Unissued
<1> QED  BY <1>2, <1>3, <1>4, InitSolvent, InitClaims DEF ChainInv, IInv

\* What a step of the chain never undoes.
PaidOnce(e) == epoch[e] > 0 \/ \E r \in ReleaseIds : releases[e][r].state = "Withdrawn"

SameParties(e) ==
  /\ escrows'[e].buyer = escrows[e].buyer /\ escrows'[e].arbiter = escrows[e].arbiter
  /\ escrows'[e].token = escrows[e].token /\ escrows'[e].timeout = escrows[e].timeout

Grows(e) ==
  /\ escrows'[e].nextReleaseId >= escrows[e].nextReleaseId
  /\ \A r \in ReleaseIds :
       releases[e][r].state = "Withdrawn" => releases'[e][r].state = "Withdrawn"
  /\ epoch[e] > 0 => epoch'[e] > 0
  /\ escrowExists(e) => SameParties(e)
  /\ escrowExists(e) /\ escrows[e].balance # 0 => escrows'[e].balance # 0 \/ PaidOnce(e)'

LEMMA SameGrows ==
  ASSUME TypeOK, NEW e \in EscrowIds, UNCHANGED <<escrows[e], releases[e], epoch[e]>>
  PROVE  Grows(e)
BY DEF Grows, SameParties, TypeOK, Escrow

LEMMA CreateGrows ==
  ASSUME ChainInv, NEW terms \in EscrowTerms, createEscrow(terms)
  PROVE  \A e \in EscrowIds : Grows(e)
<1> SUFFICES ASSUME NEW e \in EscrowIds PROVE Grows(e)
  OBVIOUS
<1>1. UNCHANGED <<releases, epoch>> /\ TypeOK
  BY DEF createEscrow, ChainInv, IInv
<1>2. CASE e = nextEscrowId
  <2>1. escrows[e] = NoEscrow
    BY <1>2 DEF ChainInv, Unissued, IInv, TypeOK
  <2>2. escrows'[e].nextReleaseId = 1
    BY <1>1, <1>2 DEF createEscrow, TypeOK
  <2> QED  BY <1>1, <2>1, <2>2 DEF Grows, NoEscrow, escrowExists
<1>3. CASE e # nextEscrowId
  BY <1>1, <1>3, CreateFrame, SameGrows DEF ChainInv
<1> QED  BY <1>2, <1>3

LEMMA CallLeaves ==
  ASSUME ChainInv, NEW e \in EscrowIds, AnyCall(e)
  PROVE  \A f \in EscrowIds \ {e} : UNCHANGED <<escrows[f], releases[f], epoch[f]>>
<1>1. \A f \in EscrowIds \ {e} : UNCHANGED <<releases[f], epoch[f]>>
  BY DEF AnyCall, deposit, requestRelease, approveRelease, withdraw, claimRefund, ChainInv, IInv,
         TypeOK
<1> QED  BY <1>1, CallFrame DEF ChainInv

LEMMA CallGrows ==
  ASSUME ChainInv, NEW e \in EscrowIds, AnyCall(e)
  PROVE  \A f \in EscrowIds : Grows(f)
<1>1. TypeOK /\ escrows[e] \in Escrow /\ releases[e] \in [ReleaseIds -> ReleaseRequest]
  BY DEF ChainInv, IInv, TypeOK
<1>2. \A f \in EscrowIds \ {e} : Grows(f)
  BY <1>1, CallLeaves, SameGrows
<1>3. ASSUME NEW a \in Addr, NEW n \in Amounts, deposit(a, e, n) PROVE Grows(e)
  <2>1. UNCHANGED <<releases, epoch>> /\ n \in Nat /\ n # 0
    BY <1>3, AmountAssumption DEF deposit, mayDeposit
  <2>2. SameParties(e) /\ escrows'[e].nextReleaseId = escrows[e].nextReleaseId
    BY <1>1, <1>3 DEF deposit, SameParties, TypeOK, Escrow
  <2>3. escrows'[e].balance = escrows[e].balance + n
    BY <1>1, <1>3 DEF deposit, TypeOK, Escrow
  <2> QED  BY <1>1, <2>1, <2>2, <2>3 DEF Grows, Escrow
<1>4. ASSUME NEW a \in Addr, NEW n \in Amounts, NEW to \in Holders \cup {ZeroAddr},
             requestRelease(a, e, n, to)
      PROVE  Grows(e)
  <2> DEFINE k == escrows[e].nextReleaseId
  <2>1. UNCHANGED epoch /\ k \in ReleaseIds
    BY <1>4 DEF requestRelease, mayRequestRelease
  <2>2. SameParties(e) /\ escrows'[e].nextReleaseId = k + 1
        /\ escrows'[e].balance = escrows[e].balance
    BY <1>1, <1>4 DEF requestRelease, SameParties, TypeOK, Escrow
  <2>3. releases[e][k] = NoRelease
    BY <2>1 DEF ChainInv, ClaimsKept, ClaimsOf
  <2>4. \A r \in ReleaseIds \ {k} : releases'[e][r] = releases[e][r]
    BY <1>1, <1>4, <2>1 DEF requestRelease, TypeOK
  <2>5. \A r \in ReleaseIds :
          releases[e][r].state = "Withdrawn" => releases'[e][r].state = "Withdrawn"
    BY <2>3, <2>4 DEF NoRelease
  <2> QED  BY <2>1, <2>2, <2>5 DEF Grows
<1>5. ASSUME NEW a \in Addr, NEW r \in ReleaseIds, approveRelease(a, e, r) PROVE Grows(e)
  <2>1. UNCHANGED <<escrows, epoch>> /\ releases[e][r].state = "Pending"
    BY <1>5 DEF approveRelease, mayApproveRelease
  <2>2. \A s \in ReleaseIds \ {r} : releases'[e][s] = releases[e][s]
    BY <1>1, <1>5 DEF approveRelease, TypeOK
  <2> QED  BY <1>1, <2>1, <2>2 DEF Grows, SameParties, Escrow
<1>6. ASSUME NEW r \in ReleaseIds, withdraw(e, r) PROVE Grows(e)
  <2>1. UNCHANGED epoch
    BY <1>6 DEF withdraw
  <2>2. /\ releases'[e][r].state = "Withdrawn"
        /\ \A s \in ReleaseIds \ {r} : releases'[e][s] = releases[e][s]
    BY <1>1, <1>6 DEF withdraw, TypeOK, ReleaseRequest
  <2>3. SameParties(e) /\ escrows'[e].nextReleaseId = escrows[e].nextReleaseId
    BY <1>1, <1>6 DEF withdraw, SameParties, TypeOK, Escrow
  <2> QED  BY <1>1, <2>1, <2>2, <2>3 DEF Grows, PaidOnce, Escrow
<1>7. ASSUME NEW a \in Addr, claimRefund(a, e) PROVE Grows(e)
  <2>1. UNCHANGED releases /\ escrows[e].nextReleaseId >= 1
    BY <1>7 DEF claimRefund, mayClaimRefund, ChainInv, IInv, WellFormed
  <2>2. epoch'[e] = escrows[e].nextReleaseId
    BY <1>1, <1>7 DEF claimRefund, TypeOK
  <2>3. SameParties(e) /\ escrows'[e].nextReleaseId = escrows[e].nextReleaseId
    BY <1>1, <1>7 DEF claimRefund, SameParties, TypeOK, Escrow
  <2>4. epoch'[e] > 0
    BY <1>1, <2>1, <2>2 DEF Escrow
  <2> QED  BY <1>1, <2>1, <2>3, <2>4 DEF Grows, PaidOnce, Escrow
<1>8. Grows(e)
  BY <1>3, <1>4, <1>5, <1>6, <1>7 DEF AnyCall
<1> QED  BY <1>2, <1>8

LEMMA QuietGrows ==
  ASSUME ChainInv, Quiet
  PROVE  \A e \in EscrowIds : Grows(e)
BY SameGrows DEF Quiet, ChainInv, IInv
================================================================================
