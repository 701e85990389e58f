------------------------ MODULE EVMEscrowAdapterProofs ------------------------
(***************************************************************************)
(* Theorems about EVMEscrowAdapter, for every set of callers, accounts,    *)
(* operations and limits.  The ids an operation returns are its own,       *)
(* whoever else uses the contract.  What an operation reports is true      *)
(* under two hypotheses about the deployment: the callers of an account    *)
(* that pays, approves or claims back take turns, and no third party       *)
(* approves releases.  The argument follows a transaction from its         *)
(* estimation to the block it is mined in: with turns, it is the only one  *)
(* of its account in the mempool, and no other account can take away what  *)
(* the estimation saw.                                                     *)
(***************************************************************************)
EXTENDS EVMEscrowAdapter, NeuronEscrowProofs, SequenceTheorems

Exclusive(a) ==
  \/ a \in Serialized
  \/ \A c, d \in Callers : AccountOf[c] = a /\ AccountOf[d] = a => c = d

\* Hypothesis: the accounts that pay, approve and claim back have their callers take turns.
TurnsTaken ==
  \A c \in Callers : OperationsOf[c] \cap {"Deposit", "ApproveRelease", "ClaimRefund"} # {}
                      => Exclusive(AccountOf[c])

\* Hypothesis: no third party can approve a release.
BuyerApproves == \A terms \in EscrowTerms : terms.arbiter \in {ZeroAddr, terms.buyer}

-----------------------------------------------------------------------------

Shape(c) ==
  LET k == call[c] IN
  /\ k.phase # "idle" =>
       /\ k.op \in Operations /\ k.op \in OperationsOf[c]
       /\ k.step <= Len(Script(k.op))
       /\ k.result = "none"
  /\ k.phase = "send" => k.receipt = "none"
  /\ k.result = "ok" => k.receipt # "none" /\ k.op \in OperationsOf[c] /\ k.phase = "idle"
  /\ k.result = "ok" /\ k.op \in {"CreateEscrow", "RequestRelease"} => k.receipt = "success"

\* A transaction in the mempool that a caller waits for is the one its script is at.
Awaited(a, i) ==
  LET tx == mempool[a][i] IN
  tx.by # NoCaller =>
    /\ AccountOf[tx.by] = a
    /\ call[tx.by].phase = "wait" /\ call[tx.by].receipt = "none"
    /\ tx = NextTx(tx.by)
    /\ \A j \in DOMAIN mempool[a] : mempool[a][j].by = tx.by => j = i

Coupled == \A a \in Addr : \A i \in DOMAIN mempool[a] : Awaited(a, i)

Created(c) == call[c].op = "CreateEscrow" /\ call[c].receipt = "success"
Requested(c) == call[c].op = "RequestRelease" /\ call[c].receipt = "success"

IdsIssued ==
  \A c \in Callers :
    /\ Created(c) => call[c].escrow < nextEscrowId
    /\ Requested(c) => call[c].release < escrows[call[c].escrow].nextReleaseId

IdsDiffer ==
  \A c \in Callers : \A d \in Callers \ {c} :
    /\ Created(c) /\ Created(d) => call[c].escrow # call[d].escrow
    /\ Requested(c) /\ Requested(d)
         => call[c].escrow # call[d].escrow \/ call[c].release # call[d].release

\* The callers of an exclusive account take turns.
Turns ==
  \A c \in Callers : \A d \in Callers \ {c} :
    AccountOf[c] = AccountOf[d] /\ Exclusive(AccountOf[c])
      => call[c].phase = "idle" \/ call[d].phase = "idle"

\* The transaction a caller of an exclusive account waits for is the account's last one.
LastIsOwn(c) ==
  LET pool == mempool[AccountOf[c]]
      k == call[c]
  IN Exclusive(AccountOf[c]) =>
     /\ k.phase = "wait" /\ k.receipt # "none" => pool = <<>>
     /\ k.phase = "send" /\ k.step = 2 => pool = <<>>
     /\ k.phase = "wait" /\ k.receipt = "none" => pool # <<>> /\ pool[Len(pool)].by = c
     /\ k.phase = "wait" /\ k.receipt = "none" /\ k.step = 2 => Len(pool) = 1

DepositHolds(c) ==
  LET k == call[c] IN
  k.op = "Deposit" /\ Exclusive(AccountOf[c]) =>
    /\ k.phase = "wait" /\ k.step = 2 =>
         \/ k.receipt = "success"
         \/ k.receipt = "none" /\ mayDeposit(AccountOf[c], k.escrow, k.amount)
    /\ k.result = "ok" => k.receipt = "success"

Withdrawn(e, r) == releases[e][r].state = "Withdrawn"

ReleaseHolds(c) ==
  LET k == call[c] IN
  k.op = "ApproveRelease" =>
    /\ k.phase = "wait" \/ (k.phase = "send" /\ k.step = 2)
         => escrows[k.escrow].buyer = AccountOf[c]
    /\ k.phase = "wait" /\ k.step = 2 =>
         \/ Withdrawn(k.escrow, k.release)
         \/ k.receipt = "none" /\ mayWithdraw(k.escrow, k.release)
    /\ k.result = "ok" => Withdrawn(k.escrow, k.release)

RefundHolds(c) ==
  LET k == call[c] IN
  k.op = "ClaimRefund" =>
    /\ k.phase = "wait" /\ k.receipt # "none" => PaidOut(k.escrow)
    /\ k.result = "ok" => PaidOut(k.escrow)

\* What was estimated of the transactions in the mempool and still holds.
Promising(a, tx) ==
  /\ tx.kind = "withdraw" => escrows[tx.escrow].buyer = a
  /\ tx.kind = "claimRefund" =>
       /\ escrows[tx.escrow].buyer = a
       /\ now >= escrows[tx.escrow].timeout
       /\ escrows[tx.escrow].balance # 0 \/ PaidOut(tx.escrow)

MempoolPromising == \A a \in Addr : \A i \in DOMAIN mempool[a] : Promising(a, mempool[a][i])

NoThirdParty == \A e \in EscrowIds : escrows[e].arbiter \in {ZeroAddr, escrows[e].buyer}

Typed ==
  /\ call \in [Callers -> Call]
  /\ mempool \in [Addr -> Seq(Transaction)]

USE CallerAssumption, OperationAssumption

-----------------------------------------------------------------------------

\* The fields of a call that a step leaves as they are.
SameArguments(c) ==
  /\ call'[c].op = call[c].op /\ call'[c].escrow = call[c].escrow
  /\ call'[c].amount = call[c].amount /\ call'[c].release = call[c].release

Others(c) == \A d \in Callers \ {c} : call'[d] = call[d]

\* Writing the record of one caller.
LEMMA PutCall ==
  ASSUME call \in [Callers -> Call], NEW c \in Callers, NEW k \in Call,
         call' = [call EXCEPT ![c] = k]
  PROVE  call'[c] = k /\ Others(c) /\ call' \in [Callers -> Call]
<1>1. call'[c] = k
  OBVIOUS
<1>2. Others(c)
  BY DEF Others
<1> QED  BY <1>1, <1>2

Began(c, op, e, n, r) ==
  /\ call'[c].op = op /\ call'[c].escrow = e /\ call'[c].amount = n /\ call'[c].release = r
  /\ call'[c].phase = "send" /\ call'[c].step = 1
  /\ call'[c].receipt = "none" /\ call'[c].result = "none"
  /\ Others(c)

LEMMA BeginDoes ==
  ASSUME Typed, NEW c \in Callers, NEW op \in Operations, NEW e \in EscrowIds,
         NEW n \in Amounts, NEW r \in ReleaseIds, Begin(c, op, e, n, r)
  PROVE  Typed' /\ Began(c, op, e, n, r) /\ UNCHANGED <<vars, mempool>>
<1> DEFINE k == [NoCall EXCEPT !.op = op, !.phase = "send", !.escrow = e, !.amount = n,
                               !.release = r]
<1>1. /\ k.op = op /\ k.escrow = e /\ k.amount = n /\ k.release = r
      /\ k.phase = "send" /\ k.step = 1 /\ k.receipt = "none" /\ k.result = "none"
  BY DEF NoCall
<1>2. k \in Call
  <2>0. 1 \in EscrowIds /\ 1 \in ReleaseIds
    BY BoundAssumption DEF EscrowIds, ReleaseIds
  <2>1. NoCall \in Call
    BY <2>0 DEF NoCall, Call, Phase, Receipt, Result
  <2>2. PICK z : z = NoCall
    OBVIOUS
  <2>3. [z EXCEPT !.op = op, !.phase = "send", !.escrow = e, !.amount = n, !.release = r] \in Call
    BY <2>1, <2>2 DEF Call, Phase
  <2> QED  BY <2>2, <2>3
<1>3. call' = [call EXCEPT ![c] = k] /\ UNCHANGED <<vars, mempool>>
  BY DEF Begin
<1> HIDE DEF k
<1>4. call'[c] = k /\ Others(c) /\ call' \in [Callers -> Call]
  BY <1>2, <1>3, PutCall DEF Typed
<1> QED  BY <1>1, <1>3, <1>4 DEF Typed, Began

Sent(c) ==
  /\ SameArguments(c) /\ call'[c].step = call[c].step /\ call'[c].result = call[c].result
  /\ call'[c].phase = "wait" /\ call'[c].receipt = "none"
  /\ Others(c)

\* The script of an operation has one or two steps.
LEMMA ScriptLength ==
  ASSUME NEW op \in Operations
  PROVE  /\ Script(op) \in Seq(Kind) /\ Len(Script(op)) \in {1, 2}
         /\ \A i \in 1..Len(Script(op)) : Script(op)[i] \in Kind
         /\ op \in {"CreateEscrow", "RequestRelease", "ClaimRefund"} => Len(Script(op)) = 1
         /\ op \in {"Deposit", "ApproveRelease"} => Len(Script(op)) = 2
         /\ op = "CreateEscrow" => Script(op)[1] = "createEscrow"
         /\ op = "RequestRelease" => Script(op)[1] = "requestRelease"
         /\ op = "ClaimRefund" => Script(op)[1] = "claimRefund"
         /\ op = "Deposit" => Script(op)[1] = "approve" /\ Script(op)[2] = "deposit"
         /\ op = "ApproveRelease" => Script(op)[1] = "approveRelease" /\ Script(op)[2] = "withdraw"
<1> DEFINE one(k) == <<k>>
           two(k, j) == <<k, j>>
<1>1. ASSUME NEW k \in Kind PROVE one(k) \in Seq(Kind) /\ Len(one(k)) = 1 /\ one(k)[1] = k
  OBVIOUS
<1>2. ASSUME NEW k \in Kind, NEW j \in Kind
      PROVE  two(k, j) \in Seq(Kind) /\ Len(two(k, j)) = 2 /\ two(k, j)[1] = k /\ two(k, j)[2] = j
  OBVIOUS
<1>3. /\ "createEscrow" \in Kind /\ "approve" \in Kind /\ "deposit" \in Kind
      /\ "requestRelease" \in Kind /\ "approveRelease" \in Kind /\ "withdraw" \in Kind
      /\ "claimRefund" \in Kind
  BY DEF Kind
<1>4. /\ op = "CreateEscrow" => Script(op) = one("createEscrow")
      /\ op = "Deposit" => Script(op) = two("approve", "deposit")
      /\ op = "RequestRelease" => Script(op) = one("requestRelease")
      /\ op = "ApproveRelease" => Script(op) = two("approveRelease", "withdraw")
      /\ op = "ClaimRefund" => Script(op) = one("claimRefund")
  BY DEF Script
<1> HIDE DEF one, two
<1>5. \A i \in 1..1 : i = 1
  OBVIOUS
<1>6. \A i \in 1..2 : i = 1 \/ i = 2
  OBVIOUS
<1>7. CASE op = "CreateEscrow"
  BY <1>1, <1>3, <1>4, <1>5, <1>7
<1>8. CASE op = "Deposit"
  <2>1. Script(op) = two("approve", "deposit")
    BY <1>4, <1>8
  <2>2. /\ Script(op) \in Seq(Kind) /\ Len(Script(op)) = 2
        /\ Script(op)[1] = "approve" /\ Script(op)[2] = "deposit"
    BY <1>2, <1>3, <2>1
  <2>3. \A i \in 1..Len(Script(op)) : Script(op)[i] \in Kind
    BY <1>3, <1>6, <2>2
  <2> QED  BY <1>8, <2>2, <2>3
<1>9. CASE op = "RequestRelease"
  BY <1>1, <1>3, <1>4, <1>5, <1>9
<1>10. CASE op = "ApproveRelease"
  <2>1. Script(op) = two("approveRelease", "withdraw")
    BY <1>4, <1>10
  <2>2. /\ Script(op) \in Seq(Kind) /\ Len(Script(op)) = 2
        /\ Script(op)[1] = "approveRelease" /\ Script(op)[2] = "withdraw"
    BY <1>2, <1>3, <2>1
  <2>3. \A i \in 1..Len(Script(op)) : Script(op)[i] \in Kind
    BY <1>3, <1>6, <2>2
  <2> QED  BY <1>10, <2>2, <2>3
<1>11. CASE op = "ClaimRefund"
  BY <1>1, <1>3, <1>4, <1>5, <1>11
<1> QED  BY <1>7, <1>8, <1>9, <1>10, <1>11 DEF Operations

LEMMA NextTxType ==
  ASSUME Typed, NEW c \in Callers, call[c].phase # "idle", Shape(c)
  PROVE  NextTx(c) \in Transaction
<1>1. call[c] \in Call /\ call[c].op \in Operations /\ call[c].step <= Len(Script(call[c].op))
  BY DEF Typed, Shape
<1>2. call[c].step \in 1..Len(Script(call[c].op))
  BY <1>1, ScriptLength DEF Call
<1>3. Script(call[c].op)[call[c].step] \in Kind
  BY <1>1, <1>2, ScriptLength
<1> QED  BY <1>1, <1>3 DEF NextTx, Transaction, Call

LEMMA SendDoes ==
  ASSUME Typed, NEW c \in Callers, Shape(c), Send(c)
  PROVE  /\ Typed' /\ Sent(c) /\ UNCHANGED vars
         /\ mempool' = [mempool EXCEPT ![AccountOf[c]] = Append(mempool[AccountOf[c]], NextTx(c))]
<1> DEFINE k == [call[c] EXCEPT !.phase = "wait", !.receipt = "none"]
<1>1. call[c] \in Call /\ call[c].phase = "send"
  BY DEF Typed, Send
<1>2. /\ k \in Call /\ k.phase = "wait" /\ k.receipt = "none" /\ k.step = call[c].step
      /\ k.op = call[c].op /\ k.escrow = call[c].escrow /\ k.amount = call[c].amount
      /\ k.release = call[c].release /\ k.result = call[c].result
  BY <1>1 DEF Call, Phase, Receipt
<1>3. call' = [call EXCEPT ![c] = k] /\ UNCHANGED vars
  BY <1>1 DEF Send, Typed, Call
<1>4. mempool' = [mempool EXCEPT ![AccountOf[c]] = Append(mempool[AccountOf[c]], NextTx(c))]
  BY DEF Send
<1>5. NextTx(c) \in Transaction
  BY <1>1, NextTxType
<1>6. mempool' \in [Addr -> Seq(Transaction)]
  <2>1. Append(mempool[AccountOf[c]], NextTx(c)) \in Seq(Transaction)
    BY <1>5, AppendProperties DEF Typed
  <2> QED  BY <1>4, <2>1 DEF Typed
<1> HIDE DEF k
<1>7. call'[c] = k /\ Others(c) /\ call' \in [Callers -> Call]
  BY <1>2, <1>3, PutCall DEF Typed
<1> QED  BY <1>2, <1>3, <1>4, <1>6, <1>7 DEF Typed, Sent, SameArguments

\* The operation is over, with a result.
Ended(c, result) ==
  /\ SameArguments(c) /\ call'[c].step = call[c].step /\ call'[c].receipt = call[c].receipt
  /\ call'[c].phase = "idle" /\ call'[c].result = result
  /\ Others(c)

LEMMA EndDoes ==
  ASSUME Typed, NEW c \in Callers, NEW res \in Result,
         call' = [call EXCEPT ![c].phase = "idle", ![c].result = res]
  PROVE  call' \in [Callers -> Call] /\ Ended(c, res)
<1> DEFINE k == [call[c] EXCEPT !.phase = "idle", !.result = res]
<1>1. call[c] \in Call
  BY DEF Typed
<1>2. /\ k \in Call /\ k.phase = "idle" /\ k.receipt = call[c].receipt /\ k.step = call[c].step
      /\ k.op = call[c].op /\ k.escrow = call[c].escrow /\ k.amount = call[c].amount
      /\ k.release = call[c].release /\ k.result = res
  BY <1>1 DEF Call, Phase
<1>3. call' = [call EXCEPT ![c] = k]
  BY <1>1 DEF Typed, Call
<1> HIDE DEF k
<1>4. call'[c] = k /\ Others(c) /\ call' \in [Callers -> Call]
  BY <1>2, <1>3, PutCall DEF Typed
<1> QED  BY <1>2, <1>4 DEF Ended, SameArguments

LEMMA SendRevertsDoes ==
  ASSUME Typed, NEW c \in Callers, SendReverts(c)
  PROVE  Typed' /\ Ended(c, "reverted") /\ UNCHANGED <<vars, mempool>>
BY EndDoes DEF SendReverts, Result, Typed

LEMMA ReturnDoes ==
  ASSUME Typed, NEW c \in Callers, Return(c)
  PROVE  Typed' /\ Ended(c, ResultOf(c)) /\ UNCHANGED <<vars, mempool>>
<1>1. ResultOf(c) \in Result
  BY DEF ResultOf, Result
<1> QED  BY <1>1, EndDoes DEF Return, Typed

Continued(c) ==
  /\ SameArguments(c) /\ call'[c].step = call[c].step + 1 /\ call'[c].result = call[c].result
  /\ call'[c].phase = "send" /\ call'[c].receipt = "none"
  /\ Others(c)

LEMMA ContinueDoes ==
  ASSUME Typed, NEW c \in Callers, Shape(c), Continue(c)
  PROVE  Typed' /\ Continued(c) /\ UNCHANGED <<vars, mempool>>
<1> DEFINE k == [call[c] EXCEPT !.phase = "send", !.step = call[c].step + 1, !.receipt = "none"]
<1>1. call[c] \in Call /\ call[c].op \in Operations
  BY DEF Typed, Shape, Continue
<1>2. call[c].step + 1 \in 1..2
  <2>1. call[c].step \in 1..2 /\ call[c].step < Len(Script(call[c].op))
    BY <1>1 DEF Continue, Call
  <2>2. Len(Script(call[c].op)) = 1 \/ Len(Script(call[c].op)) = 2
    BY <1>1, ScriptLength
  <2>3. ASSUME NEW l, NEW i \in 1..2, i < l, l = 1 \/ l = 2 PROVE i + 1 \in 1..2
    BY <2>3
  <2> QED  BY <2>1, <2>2, <2>3
<1>3. /\ k \in Call /\ k.phase = "send" /\ k.receipt = "none" /\ k.step = call[c].step + 1
      /\ k.op = call[c].op /\ k.escrow = call[c].escrow /\ k.amount = call[c].amount
      /\ k.release = call[c].release /\ k.result = call[c].result
  BY <1>1, <1>2 DEF Call, Phase, Receipt
<1>4. call' = [call EXCEPT ![c] = k] /\ UNCHANGED <<vars, mempool>>
  BY <1>1 DEF Continue, Typed, Call
<1> HIDE DEF k
<1>5. call'[c] = k /\ Others(c) /\ call' \in [Callers -> Call]
  BY <1>3, <1>4, PutCall DEF Typed
<1> QED  BY <1>3, <1>4, <1>5 DEF Typed, Continued, SameArguments

\* The transactions of c stay in the mempool, and nobody waits for them.
Orphaned(c) ==
  \A a \in Addr :
    /\ Len(mempool'[a]) = Len(mempool[a])
    /\ DOMAIN mempool'[a] = DOMAIN mempool[a]
    /\ \A i \in DOMAIN mempool[a] :
         /\ mempool[a][i].by # c => mempool'[a][i] = mempool[a][i]
         /\ mempool[a][i].by = c => mempool'[a][i].by = NoCaller
         /\ mempool'[a][i].kind = mempool[a][i].kind
         /\ mempool'[a][i].escrow = mempool[a][i].escrow

LEMMA GiveUpDoes ==
  ASSUME Typed, NEW c \in Callers, GiveUp(c)
  PROVE  Typed' /\ Ended(c, "unknown") /\ Orphaned(c) /\ UNCHANGED vars
<1> DEFINE orphan(tx) == IF tx.by = c THEN [tx EXCEPT !.by = NoCaller] ELSE tx
           pool(a) == [i \in DOMAIN mempool[a] |-> orphan(mempool[a][i])]
<1>1. call' \in [Callers -> Call] /\ Ended(c, "unknown")
  BY EndDoes DEF GiveUp, Result
<1>2. mempool' = [a \in Addr |-> pool(a)] /\ UNCHANGED vars
  BY DEF GiveUp
<1>3. ASSUME NEW tx \in Transaction
      PROVE  /\ orphan(tx) \in Transaction
             /\ tx.by # c => orphan(tx) = tx
             /\ tx.by = c => orphan(tx).by = NoCaller
             /\ orphan(tx).kind = tx.kind /\ orphan(tx).escrow = tx.escrow
  BY DEF Transaction
<1> HIDE DEF orphan
<1>4. ASSUME NEW a \in Addr
      PROVE  /\ pool(a) \in Seq(Transaction)
             /\ Len(pool(a)) = Len(mempool[a]) /\ DOMAIN pool(a) = DOMAIN mempool[a]
             /\ \A i \in DOMAIN mempool[a] : pool(a)[i] = orphan(mempool[a][i])
  <2>1. /\ mempool[a] \in Seq(Transaction) /\ DOMAIN mempool[a] = 1..Len(mempool[a])
        /\ Len(mempool[a]) \in Nat
    BY DEF Typed
  <2>2. \A i \in DOMAIN mempool[a] : orphan(mempool[a][i]) \in Transaction
    BY <1>3, <2>1
  <2>3. pool(a) \in Seq(Transaction)
    BY <2>1, <2>2
  <2>4. DOMAIN pool(a) = 1..Len(mempool[a])
    BY <2>1
  <2> QED  BY <2>1, <2>3, <2>4
<1>5. \A a \in Addr : \A i \in DOMAIN mempool[a] : mempool[a][i] \in Transaction
  BY DEF Typed
<1> HIDE DEF pool
<1>6. mempool' \in [Addr -> Seq(Transaction)] /\ \A a \in Addr : mempool'[a] = pool(a)
  BY <1>2, <1>4
<1>7. Orphaned(c)
  BY <1>3, <1>4, <1>5, <1>6 DEF Orphaned
<1> QED  BY <1>1, <1>2, <1>6, <1>7 DEF Typed

-----------------------------------------------------------------------------

\* The first transaction of account a leaves the mempool.
Popped(a) ==
  /\ \A b \in Addr \ {a} : mempool'[b] = mempool[b]
  /\ Len(mempool[a]) > 0 /\ Len(mempool'[a]) = Len(mempool[a]) - 1
  /\ \A i \in DOMAIN mempool'[a] :
       i + 1 \in DOMAIN mempool[a] /\ mempool'[a][i] = mempool[a][i + 1]

\* The caller that waits for tx gets its receipt.
Receives(tx, status) ==
  LET c == tx.by IN
  /\ call'[c].op = call[c].op /\ call'[c].phase = call[c].phase /\ call'[c].step = call[c].step
  /\ call'[c].amount = call[c].amount /\ call'[c].result = call[c].result
  /\ call'[c].receipt = status
  /\ call'[c].escrow = IF status = "success" /\ tx.kind = "createEscrow"
                       THEN nextEscrowId ELSE call[c].escrow
  /\ call'[c].release = IF status = "success" /\ tx.kind = "requestRelease"
                        THEN escrows[tx.escrow].nextReleaseId ELSE call[c].release

Delivered(tx, status) ==
  IF tx.by = NoCaller THEN call' = call
  ELSE tx.by \in Callers /\ Receives(tx, status) /\ Others(tx.by)

\* The ids in a receipt are ids.
LEMMA ReceiptIds ==
  ASSUME NEW a \in Addr, NEW tx \in Transaction, Accepted(a, tx)
  PROVE  /\ tx.kind = "createEscrow" => nextEscrowId \in EscrowIds
         /\ tx.kind = "requestRelease" => escrows[tx.escrow].nextReleaseId \in ReleaseIds
BY DEF Accepted, mayCreateEscrow, mayRequestRelease

LEMMA PopDoes ==
  ASSUME Typed, NEW a \in Addr, mempool[a] # <<>>,
         mempool' = [mempool EXCEPT ![a] = Tail(mempool[a])]
  PROVE  /\ mempool' \in [Addr -> Seq(Transaction)] /\ Popped(a)
         /\ Head(mempool[a]) = mempool[a][1] /\ 1 \in DOMAIN mempool[a]
         /\ mempool[a][1] \in Transaction
<1>1. mempool[a] \in Seq(Transaction)
  BY DEF Typed
<1>2. /\ Tail(mempool[a]) \in Seq(Transaction) /\ Len(mempool[a]) > 0
      /\ Len(Tail(mempool[a])) = Len(mempool[a]) - 1
      /\ \A i \in DOMAIN Tail(mempool[a]) : i + 1 \in DOMAIN mempool[a]
                                            /\ Tail(mempool[a])[i] = mempool[a][i + 1]
  BY <1>1, EmptySeq, HeadTailProperties
<1>3. mempool' \in [Addr -> Seq(Transaction)] /\ mempool'[a] = Tail(mempool[a])
      /\ \A b \in Addr \ {a} : mempool'[b] = mempool[b]
  BY <1>2 DEF Typed
<1>4. Head(mempool[a]) = mempool[a][1] /\ 1 \in DOMAIN mempool[a] /\ mempool[a][1] \in Transaction
  BY <1>1, <1>2
<1> QED  BY <1>2, <1>3, <1>4 DEF Popped

LEMMA MineDoes ==
  ASSUME Typed, NEW a \in Addr, Mine(a),
         NEW tx, tx = mempool[a][1]
  PROVE  /\ Typed' /\ Popped(a) /\ tx \in Transaction /\ 1 \in DOMAIN mempool[a]
         /\ \/ Accepted(a, tx) /\ Execute(a, tx) /\ Delivered(tx, "success")
            \/ ~Accepted(a, tx) /\ UNCHANGED vars /\ Delivered(tx, "reverted")
<1>1. /\ mempool' \in [Addr -> Seq(Transaction)] /\ Popped(a) /\ 1 \in DOMAIN mempool[a]
      /\ tx \in Transaction /\ Head(mempool[a]) = tx
  BY PopDoes DEF Mine
<1>2. /\ Accepted(a, tx) => Execute(a, tx)
      /\ ~Accepted(a, tx) => UNCHANGED vars
      /\ tx.by = NoCaller => call' = call
      /\ tx.by # NoCaller =>
           call' = Mined(tx, IF Accepted(a, tx) THEN "success" ELSE "reverted")
  BY <1>1 DEF Mine
<1>3. ASSUME NEW status \in {"success", "reverted"}, status = "success" <=> Accepted(a, tx),
             tx.by # NoCaller, call' = Mined(tx, status)
      PROVE  call' \in [Callers -> Call] /\ Delivered(tx, status)
  <2> DEFINE c == tx.by
             id == IF status = "success" /\ tx.kind = "createEscrow"
                   THEN nextEscrowId ELSE call[c].escrow
             rid == IF status = "success" /\ tx.kind = "requestRelease"
                    THEN escrows[tx.escrow].nextReleaseId ELSE call[c].release
             k == [call[c] EXCEPT !.receipt = status, !.escrow = id, !.release = rid]
  <2>1. c \in Callers /\ call[c] \in Call
    BY <1>1, <1>3 DEF Transaction, Typed
  <2>2. id \in EscrowIds /\ rid \in ReleaseIds
    BY <1>1, <1>3, <2>1, ReceiptIds DEF Call
  <2>3. call' = [call EXCEPT ![c] = k]
    BY <1>3, <2>1 DEF Mined, Typed, Call
  <2>4. /\ k \in Call /\ k.op = call[c].op /\ k.phase = call[c].phase /\ k.step = call[c].step
        /\ k.amount = call[c].amount /\ k.result = call[c].result
        /\ k.receipt = status /\ k.escrow = id /\ k.release = rid
    <3> HIDE DEF id, rid, c
    <3> QED  BY <1>3, <2>1, <2>2 DEF Call, Receipt
  <2> HIDE DEF k
  <2>5. call'[c] = k /\ Others(c) /\ call' \in [Callers -> Call]
    BY <2>1, <2>3, <2>4, PutCall DEF Typed
  <2> QED  BY <1>3, <2>1, <2>4, <2>5 DEF Delivered, Receives
<1>4. CASE tx.by = NoCaller
  BY <1>1, <1>2, <1>4 DEF Typed, Delivered
<1>5. CASE tx.by # NoCaller /\ Accepted(a, tx)
  BY <1>1, <1>2, <1>3, <1>5 DEF Typed
<1>6. CASE tx.by # NoCaller /\ ~Accepted(a, tx)
  BY <1>1, <1>2, <1>3, <1>6 DEF Typed
<1> QED  BY <1>4, <1>5, <1>6

-----------------------------------------------------------------------------

\* A step of the adapter is, on the chain, a call of the contract or a quiet one.
LEMMA ExecuteIsCall ==
  ASSUME ChainInv, NEW a \in Addr, NEW tx \in Transaction, Execute(a, tx)
  PROVE  \/ \E terms \in EscrowTerms : createEscrow(terms)
         \/ AnyCall(tx.escrow)
         \/ Quiet
<1>1. tx.escrow \in EscrowIds /\ tx.release \in ReleaseIds /\ tx.amount \in Amounts \cup {0}
  BY DEF Transaction
<1>2. CASE tx.kind = "approve" /\ approve(Token, a, tx.amount) /\ UNCHANGED <<escrowVars, now>>
  <2>1. now \in Time /\ TokenTypeOK
    BY DEF ChainInv, IInv, TypeOK
  <2>0. tx.amount \in Nat
    <3>1. \A n \in Amounts \cup {0} : n \in Nat
      BY AmountAssumption
    <3> QED  BY <1>1, <3>1
  <2>2. allowance' \in [Tokens -> [Addr -> Nat]]
    <3>1. allowance \in [Tokens -> [Addr -> Nat]]
      BY <2>1 DEF TokenTypeOK
    <3>2. allowance' = [allowance EXCEPT ![Token][a] = tx.amount]
      BY <1>2 DEF approve
    <3>3. [allowance[Token] EXCEPT ![a] = tx.amount] \in [Addr -> Nat]
      BY <2>0, <3>1
    <3> QED  BY <3>1, <3>2, <3>3
  <2>3. TokenTypeOK'
    BY <1>2, <2>1, <2>2 DEF TokenTypeOK, approve
  <2> QED  BY <1>2, <2>1, <2>3 DEF Quiet, approve, escrowVars, Time
<1>3. CASE deposit(a, tx.escrow, tx.amount)
  BY <1>1, <1>3 DEF AnyCall, deposit, mayDeposit
<1>4. CASE requestRelease(a, tx.escrow, tx.amount, a)
  BY <1>1, <1>4 DEF AnyCall, requestRelease, mayRequestRelease, Holders
<1>5. CASE approveRelease(a, tx.escrow, tx.release)
  BY <1>1, <1>5 DEF AnyCall
<1>6. CASE withdraw(tx.escrow, tx.release)
  BY <1>1, <1>6 DEF AnyCall
<1>7. CASE claimRefund(a, tx.escrow)
  BY <1>1, <1>7 DEF AnyCall
<1> QED  BY <1>2, <1>3, <1>4, <1>5, <1>6, <1>7 DEF Execute

\* What every step leaves behind on the chain.
Onward ==
  /\ ChainInv'
  /\ \A e \in EscrowIds : Grows(e)
  /\ nextEscrowId' >= nextEscrowId
  /\ now' >= now

LEMMA QuietOnward == ASSUME ChainInv, Quiet PROVE Onward
<1>1. nextEscrowId \in Nat
  BY BoundAssumption DEF ChainInv, IInv, TypeOK
<1> QED  BY <1>1, QuietKept, QuietGrows DEF Quiet, Onward

LEMMA SameOnward == ASSUME ChainInv, UNCHANGED vars PROVE Onward
<1>1. now \in Time /\ TokenTypeOK /\ now \in Nat
  BY BoundAssumption DEF ChainInv, IInv, TypeOK, Time
<1>2. Quiet
  BY <1>1 DEF Quiet, vars, TokenTypeOK
<1> QED  BY <1>2, QuietOnward

LEMMA ExecuteOnward ==
  ASSUME ChainInv, NEW a \in Addr, NEW tx \in Transaction, Execute(a, tx)
  PROVE  Onward
<1>1. nextEscrowId \in Nat /\ now \in Nat /\ tx.escrow \in EscrowIds
  BY BoundAssumption DEF ChainInv, IInv, TypeOK, Transaction, Time
<1>2. ASSUME NEW terms \in EscrowTerms, createEscrow(terms) PROVE Onward
  <2>1. nextEscrowId' = nextEscrowId + 1 /\ now' = now
    BY <1>2 DEF createEscrow
  <2>2. ChainInv' /\ \A e \in EscrowIds : Grows(e)
    BY <1>2, CreateKept, CreateGrows
  <2> QED  BY <1>1, <2>1, <2>2 DEF Onward
<1>3. CASE AnyCall(tx.escrow)
  <2>1. nextEscrowId' = nextEscrowId
    BY <1>1, <1>3, CallFrame DEF ChainInv
  <2>2. now' = now
    BY <1>3 DEF AnyCall, deposit, requestRelease, approveRelease, withdraw, claimRefund
  <2> QED  BY <1>1, <1>3, <2>1, <2>2, CallKept, CallGrows DEF Onward
<1> QED  BY <1>2, <1>3, QuietOnward, ExecuteIsCall

-----------------------------------------------------------------------------

Shaped == \A c \in Callers : Shape(c)

\* What the ids rest on.
IdInv == Typed /\ ChainInv /\ Shaped /\ Coupled /\ IdsIssued /\ IdsDiffer

\* The steps, by what they do.
BeginStep(c, op, e, n, r) ==
  /\ Begin(c, op, e, n, r) /\ Began(c, op, e, n, r)
  /\ UNCHANGED <<vars, mempool>>
SendStep(c) ==
  /\ Send(c) /\ Sent(c) /\ UNCHANGED vars
  /\ mempool' = [mempool EXCEPT ![AccountOf[c]] = Append(mempool[AccountOf[c]], NextTx(c))]
EndStep(c) ==
  /\ \/ SendReverts(c) /\ Ended(c, "reverted")
     \/ Return(c) /\ Ended(c, ResultOf(c))
  /\ UNCHANGED <<vars, mempool>>
ContinueStep(c) == Continue(c) /\ Continued(c) /\ UNCHANGED <<vars, mempool>>
GiveUpStep(c) == GiveUp(c) /\ Ended(c, "unknown") /\ Orphaned(c) /\ UNCHANGED vars
MineStep(a, tx) ==
  /\ Popped(a) /\ tx \in Transaction /\ 1 \in DOMAIN mempool[a] /\ tx = mempool[a][1]
  /\ \/ Accepted(a, tx) /\ Execute(a, tx) /\ Delivered(tx, "success")
     \/ ~Accepted(a, tx) /\ UNCHANGED vars /\ Delivered(tx, "reverted")
IdleStep == UNCHANGED <<call, mempool, allowance>> /\ Quiet

Step ==
  \/ \E c \in Callers, op \in Operations, e \in EscrowIds, n \in Amounts, r \in ReleaseIds :
       BeginStep(c, op, e, n, r)
  \/ \E c \in Callers :
       SendStep(c) \/ EndStep(c) \/ ContinueStep(c) \/ GiveUpStep(c)
  \/ \E a \in Addr, tx \in Transaction : MineStep(a, tx)
  \/ IdleStep

\* Every step of the adapter is one of these, and the chain goes on.
LEMMA NextIsStep ==
  ASSUME Typed, ChainInv, Shaped, [AdapterNext]_adapterVars
  PROVE  Step /\ Typed' /\ Onward
<1>1. ASSUME NEW c \in Callers, NEW op \in Operations, NEW e \in EscrowIds, NEW n \in Amounts,
             NEW r \in ReleaseIds, Begin(c, op, e, n, r)
      PROVE  Step /\ Typed' /\ Onward
  <2>1. BeginStep(c, op, e, n, r) /\ Typed'
    BY <1>1, BeginDoes DEF BeginStep
  <2>2. Onward
    BY <2>1, SameOnward DEF BeginStep
  <2> QED  BY <2>1, <2>2 DEF Step
<1>2. ASSUME NEW c \in Callers, Send(c) PROVE Step /\ Typed' /\ Onward
  <2>1. SendStep(c) /\ Typed'
    BY <1>2, SendDoes DEF SendStep, Shaped
  <2>2. Onward
    BY <2>1, SameOnward DEF SendStep
  <2> QED  BY <2>1, <2>2 DEF Step
<1>3. ASSUME NEW c \in Callers, SendReverts(c) \/ Return(c) PROVE Step /\ Typed' /\ Onward
  <2>1. EndStep(c) /\ Typed'
    BY <1>3, SendRevertsDoes, ReturnDoes DEF EndStep
  <2>2. Onward
    BY <2>1, SameOnward DEF EndStep
  <2> QED  BY <2>1, <2>2 DEF Step
<1>4. ASSUME NEW c \in Callers, Continue(c) PROVE Step /\ Typed' /\ Onward
  <2>1. ContinueStep(c) /\ Typed'
    BY <1>4, ContinueDoes DEF ContinueStep, Shaped
  <2>2. Onward
    BY <2>1, SameOnward DEF ContinueStep
  <2> QED  BY <2>1, <2>2 DEF Step
<1>5. ASSUME NEW c \in Callers, GiveUp(c) PROVE Step /\ Typed' /\ Onward
  <2>1. GiveUpStep(c) /\ Typed'
    BY <1>5, GiveUpDoes DEF GiveUpStep
  <2>2. Onward
    BY <2>1, SameOnward DEF GiveUpStep
  <2> QED  BY <2>1, <2>2 DEF Step
<1>6. ASSUME NEW a \in Addr, Mine(a) PROVE Step /\ Typed' /\ Onward
  <2>1. PICK tx : tx = mempool[a][1]
    OBVIOUS
  <2>2. MineStep(a, tx) /\ Typed'
    BY <1>6, <2>1, MineDoes DEF MineStep
  <2>3. Onward
    BY <2>2, SameOnward, ExecuteOnward DEF MineStep
  <2> QED  BY <2>2, <2>3 DEF Step, MineStep
<1>7. ASSUME Tick, UNCHANGED <<call, calls, mempool>> PROVE Step /\ Typed' /\ Onward
  <2>1. now \in Time /\ TokenTypeOK /\ now < MaxTime /\ now' = now + 1
    BY <1>7 DEF ChainInv, IInv, TypeOK, Tick
  <2>2. now' \in Time /\ now' >= now
    BY <2>1, BoundAssumption DEF Time
  <2>3. Quiet
    BY <1>7, <2>1, <2>2 DEF Quiet, Tick, escrowVars, tokenVars, TokenTypeOK
  <2>4. Typed'
    BY <1>7 DEF Typed
  <2>5. UNCHANGED <<call, mempool, allowance>>
    BY <1>7 DEF Tick, tokenVars
  <2> QED  BY <2>3, <2>4, <2>5, QuietOnward DEF Step, IdleStep
<1>8. CASE UNCHANGED adapterVars
  <2>1. UNCHANGED vars /\ UNCHANGED <<call, mempool, allowance>>
    BY <1>8 DEF adapterVars, vars
  <2>2. now \in Time /\ TokenTypeOK /\ now \in Nat
    BY BoundAssumption DEF ChainInv, IInv, TypeOK, Time
  <2>3. Quiet /\ Typed'
    BY <2>1, <2>2 DEF Quiet, vars, TokenTypeOK, Typed
  <2> QED  BY <2>1, <2>3, SameOnward DEF Step, IdleStep
<1> QED  BY <1>1, <1>2, <1>3, <1>4, <1>5, <1>6, <1>7, <1>8
         DEF AdapterNext, CallerStep, BlockTime

-----------------------------------------------------------------------------

\* Nobody but a caller that waits without a receipt has a transaction in the mempool.
Unawaited(c) == \A a \in Addr : \A i \in DOMAIN mempool[a] : mempool[a][i].by # c

LEMMA NoneAwaited ==
  ASSUME Typed, Coupled, NEW c \in Callers, call[c].phase # "wait" \/ call[c].receipt # "none"
  PROVE  Unawaited(c)
BY DEF Coupled, Awaited, Unawaited

LEMMA InPool ==
  ASSUME Typed, NEW a \in Addr, NEW i \in DOMAIN mempool[a]
  PROVE  /\ mempool[a][i] \in Transaction
         /\ mempool[a][i].by # NoCaller => mempool[a][i].by \in Callers
<1>1. mempool[a] \in Seq(Transaction)
  BY DEF Typed
<1>2. mempool[a][i] \in Transaction
  BY <1>1
<1> QED  BY <1>2 DEF Transaction

LEMMA SameShape ==
  ASSUME NEW c \in Callers, call'[c] = call[c], Shape(c)
  PROVE  Shape(c)'
BY DEF Shape

LEMMA ShapeNext ==
  ASSUME Typed, Shaped, Coupled, Step
  PROVE  Shaped'
<1>1. ASSUME NEW c \in Callers, Others(c), Shape(c)' PROVE Shaped'
  BY <1>1, SameShape DEF Others, Shaped
<1>2. ASSUME NEW c \in Callers, NEW op \in Operations, NEW e \in EscrowIds, NEW n \in Amounts,
             NEW r \in ReleaseIds, BeginStep(c, op, e, n, r)
      PROVE  Shape(c)' /\ Others(c)
  <2>1. op \in OperationsOf[c] /\ Began(c, op, e, n, r)
    BY <1>2 DEF BeginStep, Begin
  <2>2. 1 <= Len(Script(op))
    <3>1. Len(Script(op)) = 1 \/ Len(Script(op)) = 2
      BY ScriptLength
    <3> QED  BY <3>1
  <2> QED  BY <2>1, <2>2 DEF Shape, Began
<1>3. ASSUME NEW c \in Callers, SendStep(c) PROVE Shape(c)' /\ Others(c)
  BY <1>3 DEF SendStep, Send, Sent, SameArguments, Shape, Shaped
<1>4. ASSUME NEW c \in Callers, EndStep(c) PROVE Shape(c)' /\ Others(c)
  BY <1>4 DEF EndStep, Return, SendReverts, Ended, ResultOf, SameArguments, Shape, Shaped, Typed,
              Call, Receipt
<1>5. ASSUME NEW c \in Callers, ContinueStep(c) PROVE Shape(c)' /\ Others(c)
  <2>1. /\ Shape(c) /\ Continued(c) /\ call[c].phase = "wait"
        /\ call[c].step < Len(Script(call[c].op))
    BY <1>5 DEF ContinueStep, Continue, Shaped
  <2>2. call[c].op \in Operations /\ call[c].step \in 1..2
    BY <2>1 DEF Shape, Typed, Call
  <2>3. call[c].step + 1 <= Len(Script(call[c].op))
    BY <2>1, <2>2, ScriptLength
  <2> QED  BY <2>1, <2>3 DEF Continued, SameArguments, Shape
<1>6. ASSUME NEW c \in Callers, GiveUpStep(c) PROVE Shape(c)' /\ Others(c)
  BY <1>6 DEF GiveUpStep, Ended, SameArguments, Shape, Shaped
<1>7. ASSUME NEW a \in Addr, NEW tx \in Transaction, MineStep(a, tx), tx.by # NoCaller
      PROVE  tx.by \in Callers /\ Shape(tx.by)' /\ Others(tx.by)
  <2>1. /\ tx.by \in Callers /\ Others(tx.by)
        /\ Receives(tx, "success") \/ Receives(tx, "reverted")
    BY <1>7 DEF MineStep, Delivered
  <2>2. call[tx.by].phase = "wait"
    BY <1>7 DEF MineStep, Coupled, Awaited
  <2> QED  BY <2>1, <2>2 DEF Receives, Shape, Shaped
<1>8. ASSUME UNCHANGED call PROVE Shaped'
  BY <1>8, SameShape DEF Shaped
<1>9. ASSUME NEW a \in Addr, NEW tx \in Transaction, MineStep(a, tx) PROVE Shaped'
  BY <1>1, <1>7, <1>8, <1>9 DEF MineStep, Delivered
<1> QED  BY <1>1, <1>2, <1>3, <1>4, <1>5, <1>6, <1>8, <1>9 DEF Step, IdleStep

-----------------------------------------------------------------------------

LEMMA CoupledSame ==
  ASSUME Typed, Coupled, NEW c \in Callers, UNCHANGED mempool, Others(c), Unawaited(c)
  PROVE  Coupled'
<1> SUFFICES ASSUME NEW a \in Addr, NEW i \in DOMAIN mempool[a], mempool[a][i].by # NoCaller
             PROVE  Awaited(a, i)'
  BY DEF Coupled, Awaited
<1>1. mempool[a][i].by \in Callers /\ mempool[a][i].by # c
  BY InPool DEF Unawaited
<1>2. call'[mempool[a][i].by] = call[mempool[a][i].by]
  BY <1>1 DEF Others
<1>3. Awaited(a, i)
  BY DEF Coupled
<1> QED  BY <1>2, <1>3 DEF Awaited, NextTx

LEMMA SendCoupled ==
  ASSUME Typed, Shaped, Coupled, NEW c \in Callers, SendStep(c)
  PROVE  Coupled'
<1> DEFINE b == AccountOf[c]
<1>1. b \in Addr /\ mempool[b] \in Seq(Transaction) /\ Len(mempool[b]) \in Nat
  BY DEF Typed
<1>2. call[c].phase = "send" /\ Sent(c)
  BY DEF SendStep, Send
<1>3. Unawaited(c)
  BY <1>2, NoneAwaited
<1>4. NextTx(c) \in Transaction
  BY <1>2, NextTxType DEF Shaped
<1>5. /\ DOMAIN mempool'[b] = 1..(Len(mempool[b]) + 1)
      /\ \A i \in DOMAIN mempool[b] : mempool'[b][i] = mempool[b][i]
      /\ DOMAIN mempool[b] = 1..Len(mempool[b])
      /\ mempool'[b][Len(mempool[b]) + 1] = NextTx(c)
      /\ \A a \in Addr \ {b} : mempool'[a] = mempool[a]
  BY <1>1, <1>4, AppendProperties DEF SendStep, Typed
<1>6. NextTx(c).by = c /\ NextTx(c)' = NextTx(c)
  BY <1>2 DEF NextTx, Sent, SameArguments
<1> SUFFICES ASSUME NEW a \in Addr, NEW i \in DOMAIN mempool'[a], mempool'[a][i].by # NoCaller
             PROVE  Awaited(a, i)'
  BY DEF Coupled, Awaited
<1>7. CASE i \in DOMAIN mempool[a]
  <2>1. mempool'[a][i] = mempool[a][i]
    BY <1>5, <1>7
  <2>2. mempool[a][i].by \in Callers /\ mempool[a][i].by # c
    BY <1>3, <1>7, <2>1, InPool DEF Unawaited
  <2>3. call'[mempool[a][i].by] = call[mempool[a][i].by]
    BY <1>2, <2>2 DEF Sent, Others
  <2>4. Awaited(a, i)
    BY <1>7 DEF Coupled
  <2>5. ASSUME NEW j \in DOMAIN mempool'[a], mempool'[a][j].by = mempool[a][i].by PROVE j = i
    <3>1. j \in DOMAIN mempool[a] /\ mempool'[a][j] = mempool[a][j]
      <4>1. CASE a = b
        <5>1. j # Len(mempool[b]) + 1
          BY <1>5, <1>6, <2>2, <2>5, <4>1
        <5>2. j \in 1..Len(mempool[b])
          BY <1>1, <1>5, <4>1, <5>1
        <5> QED  BY <1>5, <4>1, <5>2
      <4> QED  BY <1>5, <4>1
    <3> QED  BY <2>1, <2>2, <2>4, <2>5, <3>1, CallerAssumption DEF Awaited
  <2> QED  BY <2>1, <2>2, <2>3, <2>4, <2>5 DEF Awaited, NextTx
<1>8. CASE i \notin DOMAIN mempool[a]
  <2>1. a = b /\ i = Len(mempool[b]) + 1
    BY <1>1, <1>5, <1>8
  <2>2. mempool'[a][i] = NextTx(c)
    BY <1>5, <2>1
  <2>3. ASSUME NEW j \in DOMAIN mempool'[a], mempool'[a][j].by = c PROVE j = i
    <3>1. j \notin DOMAIN mempool[b]
      BY <1>1, <1>3, <1>5, <2>1, <2>3 DEF Unawaited
    <3>2. j \in 1..(Len(mempool[b]) + 1)
      BY <1>5, <2>1
    <3> QED  BY <1>1, <1>5, <2>1, <3>1, <3>2
  <2> QED  BY <1>2, <1>6, <2>1, <2>2, <2>3 DEF Awaited, Sent
<1> QED  BY <1>7, <1>8

LEMMA GiveUpCoupled ==
  ASSUME Typed, Coupled, NEW c \in Callers, GiveUpStep(c)
  PROVE  Coupled'
<1> SUFFICES ASSUME NEW a \in Addr, NEW i \in DOMAIN mempool'[a], mempool'[a][i].by # NoCaller
             PROVE  Awaited(a, i)'
  BY DEF Coupled, Awaited
<1>1. i \in DOMAIN mempool[a] /\ mempool'[a][i] = mempool[a][i] /\ mempool[a][i].by # c
  BY DEF GiveUpStep, Orphaned
<1>2. mempool[a][i].by \in Callers
  BY <1>1, InPool
<1>3. call'[mempool[a][i].by] = call[mempool[a][i].by]
  BY <1>1, <1>2 DEF GiveUpStep, Ended, Others
<1>4. Awaited(a, i)
  BY <1>1 DEF Coupled
<1>5. ASSUME NEW j \in DOMAIN mempool'[a], mempool'[a][j].by = mempool[a][i].by PROVE j = i
  <2>1. j \in DOMAIN mempool[a] /\ mempool'[a][j] = mempool[a][j]
    BY <1>1, <1>5 DEF GiveUpStep, Orphaned
  <2> QED  BY <1>1, <1>2, <1>4, <1>5, <2>1 DEF Awaited
<1> QED  BY <1>1, <1>2, <1>3, <1>4, <1>5 DEF Awaited, NextTx

\* Where a transaction that stays was before the first one of a was mined.
LEMMA PoppedFrom ==
  ASSUME Typed, NEW a \in Addr, Popped(a), NEW b \in Addr, NEW i \in DOMAIN mempool'[b]
  PROVE  \E j \in DOMAIN mempool[b] :
           /\ mempool'[b][i] = mempool[b][j]
           /\ b = a => j = i + 1
           /\ b # a => j = i
BY DEF Popped

LEMMA MineCoupled ==
  ASSUME Typed, Typed', Coupled, NEW a \in Addr, NEW tx \in Transaction, MineStep(a, tx)
  PROVE  Coupled'
<1> SUFFICES ASSUME NEW b \in Addr, NEW i \in DOMAIN mempool'[b], mempool'[b][i].by # NoCaller
             PROVE  Awaited(b, i)'
  BY DEF Coupled, Awaited
<1>1. Popped(a) /\ tx = mempool[a][1] /\ 1 \in DOMAIN mempool[a]
  BY DEF MineStep
<1>2. i \in Nat /\ i >= 1 /\ \A j \in DOMAIN mempool'[b] : j \in Nat
  BY DEF Typed
<1>3. PICK k \in DOMAIN mempool[b] : /\ mempool'[b][i] = mempool[b][k]
                                     /\ b = a => k = i + 1
                                     /\ b # a => k = i
  BY <1>1, PoppedFrom
<1>4. mempool[b][k].by \in Callers /\ Awaited(b, k)
  BY <1>3, InPool DEF Coupled
<1>5. mempool[b][k].by # tx.by
  <2>1. SUFFICES ASSUME mempool[b][k].by = tx.by PROVE FALSE
    OBVIOUS
  <2>2. Awaited(a, 1)
    BY <1>1 DEF Coupled
  <2>3. b = a
    BY <1>1, <1>4, <2>1, <2>2, CallerAssumption DEF Awaited
  <2> QED  BY <1>1, <1>2, <1>3, <1>4, <2>1, <2>2, <2>3, CallerAssumption DEF Awaited
<1>6. call'[mempool[b][k].by] = call[mempool[b][k].by]
  BY <1>4, <1>5 DEF MineStep, Delivered, Others
<1>7. ASSUME NEW j \in DOMAIN mempool'[b], mempool'[b][j].by = mempool[b][k].by PROVE j = i
  <2>1. PICK l \in DOMAIN mempool[b] : /\ mempool'[b][j] = mempool[b][l]
                                       /\ b = a => l = j + 1
                                       /\ b # a => l = j
    BY <1>1, PoppedFrom
  <2>2. l = k
    BY <1>4, <1>7, <2>1, CallerAssumption DEF Awaited
  <2> QED  BY <1>2, <1>3, <2>1, <2>2
<1> QED  BY <1>3, <1>4, <1>6, <1>7, CallerAssumption DEF Awaited, NextTx

LEMMA CoupledNext ==
  ASSUME Typed, Typed', Shaped, Coupled, Step
  PROVE  Coupled'
<1>1. ASSUME NEW c \in Callers, NEW op \in Operations, NEW e \in EscrowIds, NEW n \in Amounts,
             NEW r \in ReleaseIds, BeginStep(c, op, e, n, r)
      PROVE  Coupled'
  BY <1>1, NoneAwaited, CoupledSame DEF BeginStep, Begin, Began
<1>2. ASSUME NEW c \in Callers, EndStep(c) PROVE Coupled'
  BY <1>2, NoneAwaited, CoupledSame DEF EndStep, SendReverts, Return, Ended
<1>3. ASSUME NEW c \in Callers, ContinueStep(c) PROVE Coupled'
  BY <1>3, NoneAwaited, CoupledSame DEF ContinueStep, Continue, Continued
<1>4. CASE IdleStep
  <2>1. UNCHANGED <<call, mempool>>
    BY <1>4 DEF IdleStep
  <2>2. ASSUME NEW a \in Addr, NEW i \in DOMAIN mempool[a] PROVE Awaited(a, i)'
    <3>1. Awaited(a, i)
      BY DEF Coupled
    <3> QED  BY <2>1, <3>1 DEF Awaited, NextTx
  <2> QED  BY <2>1, <2>2 DEF Coupled
<1> QED  BY <1>1, <1>2, <1>3, <1>4, SendCoupled, GiveUpCoupled, MineCoupled DEF Step

-----------------------------------------------------------------------------

\* A step that gives c no new id.
KeepsIds(c) ==
  /\ Created(c)' => Created(c) /\ call'[c].escrow = call[c].escrow
  /\ Requested(c)' => Requested(c) /\ call'[c].escrow = call[c].escrow
                      /\ call'[c].release = call[c].release

LEMMA CountersGrow ==
  ASSUME ChainInv, Onward
  PROVE  /\ nextEscrowId \in Nat /\ nextEscrowId' \in Nat /\ nextEscrowId' >= nextEscrowId
         /\ \A e \in EscrowIds :
              /\ escrows[e].nextReleaseId \in Nat /\ escrows'[e].nextReleaseId \in Nat
              /\ escrows'[e].nextReleaseId >= escrows[e].nextReleaseId
<1>1. nextEscrowId \in Nat /\ nextEscrowId' \in Nat
  BY BoundAssumption DEF Onward, ChainInv, IInv, TypeOK
<1>2. ASSUME NEW e \in EscrowIds
      PROVE  escrows[e].nextReleaseId \in Nat /\ escrows'[e].nextReleaseId \in Nat
  <2>1. escrows[e] \in Escrow /\ escrows'[e] \in Escrow
    BY DEF Onward, ChainInv, IInv, TypeOK
  <2> QED  BY <2>1, BoundAssumption DEF Escrow
<1> QED  BY <1>1, <1>2 DEF Onward, Grows

LEMMA IdTypes ==
  ASSUME Typed, NEW c \in Callers
  PROVE  /\ call[c].escrow \in EscrowIds /\ call[c].release \in ReleaseIds
         /\ call[c].escrow \in Nat /\ call[c].release \in Nat
BY BoundAssumption DEF Typed, Call, EscrowIds, ReleaseIds

LEMMA IdsKept ==
  ASSUME Typed, Typed', ChainInv, Onward, IdsIssued, IdsDiffer, \A c \in Callers : KeepsIds(c)
  PROVE  IdsIssued' /\ IdsDiffer'
<1>1. ASSUME NEW c \in Callers
      PROVE  /\ Created(c)' => call'[c].escrow < nextEscrowId'
             /\ Requested(c)' => call'[c].release < escrows'[call'[c].escrow].nextReleaseId
  BY IdTypes, CountersGrow DEF KeepsIds, IdsIssued
<1>2. ASSUME NEW c \in Callers, NEW d \in Callers \ {c}
      PROVE  /\ Created(c)' /\ Created(d)' => call'[c].escrow # call'[d].escrow
             /\ Requested(c)' /\ Requested(d)'
                  => call'[c].escrow # call'[d].escrow \/ call'[c].release # call'[d].release
  BY DEF KeepsIds, IdsDiffer
<1> QED  BY <1>1, <1>2 DEF IdsIssued, IdsDiffer

LEMMA OthersKeepIds ==
  ASSUME NEW c \in Callers, Others(c)
  PROVE  \A d \in Callers \ {c} : KeepsIds(d)
BY DEF Others, KeepsIds, Created, Requested

\* The kind of the transaction an operation that returns an id waits for.
LEMMA AwaitedKind ==
  ASSUME Typed, Shaped, Coupled, NEW a \in Addr, NEW tx \in Transaction, MineStep(a, tx),
         tx.by # NoCaller
  PROVE  /\ tx.by \in Callers /\ AccountOf[tx.by] = a
         /\ call[tx.by].phase = "wait" /\ call[tx.by].receipt = "none"
         /\ call[tx.by].op \in Operations /\ call[tx.by].op \in OperationsOf[tx.by]
         /\ call[tx.by].step \in 1..Len(Script(call[tx.by].op))
         /\ tx.kind = Script(call[tx.by].op)[call[tx.by].step]
         /\ tx.escrow = call[tx.by].escrow /\ tx.release = call[tx.by].release
         /\ tx.amount = call[tx.by].amount
<1>1. tx = mempool[a][1] /\ 1 \in DOMAIN mempool[a] /\ tx.by \in Callers
  BY DEF MineStep, Transaction
<1>2. Awaited(a, 1)
  BY <1>1 DEF Coupled
<1>3. /\ AccountOf[tx.by] = a /\ call[tx.by].phase = "wait" /\ call[tx.by].receipt = "none"
      /\ tx = NextTx(tx.by)
  BY <1>1, <1>2 DEF Awaited
<1>4. /\ tx.kind = Script(call[tx.by].op)[call[tx.by].step]
      /\ tx.escrow = call[tx.by].escrow /\ tx.release = call[tx.by].release
      /\ tx.amount = call[tx.by].amount
  <2>1. PICK c : c = tx.by
    OBVIOUS
  <2> QED  BY <1>3, <2>1 DEF NextTx
<1>5. /\ call[tx.by].op \in Operations /\ call[tx.by].op \in OperationsOf[tx.by]
      /\ call[tx.by].step <= Len(Script(call[tx.by].op)) /\ call[tx.by].step \in 1..2
  BY <1>1, <1>3 DEF Shaped, Shape, Typed, Call
<1>6. call[tx.by].step \in 1..Len(Script(call[tx.by].op))
  <2>1. Len(Script(call[tx.by].op)) = 1 \/ Len(Script(call[tx.by].op)) = 2
    BY <1>5, ScriptLength
  <2>2. ASSUME NEW i \in 1..2, NEW l, l = 1 \/ l = 2, i <= l PROVE i \in 1..l
    BY <2>2
  <2> QED  BY <1>5, <2>1, <2>2
<1> QED  BY <1>1, <1>3, <1>4, <1>5, <1>6

LEMMA SingleStep ==
  ASSUME NEW op \in {"CreateEscrow", "RequestRelease", "ClaimRefund"}, NEW i \in 1..Len(Script(op))
  PROVE  /\ i = 1
         /\ op = "CreateEscrow" => Script(op)[i] = "createEscrow"
         /\ op = "RequestRelease" => Script(op)[i] = "requestRelease"
         /\ op = "ClaimRefund" => Script(op)[i] = "claimRefund"
<1>1. op \in Operations
  BY DEF Operations
<1>2. Len(Script(op)) = 1
  BY <1>1, ScriptLength
<1>3. i = 1
  BY <1>2
<1> QED  BY <1>1, <1>3, ScriptLength

LEMMA CreatedIds ==
  ASSUME Typed, Typed', ChainInv, Shaped, Coupled, IdsIssued, IdsDiffer, Onward,
         NEW a \in Addr, NEW tx \in Transaction, MineStep(a, tx), tx.by # NoCaller,
         Accepted(a, tx), call[tx.by].op = "CreateEscrow"
  PROVE  IdsIssued' /\ IdsDiffer'
<1> DEFINE c == tx.by
<1>1. c \in Callers /\ tx.kind = "createEscrow"
  BY AwaitedKind, SingleStep
<1>2. Execute(a, tx) /\ Delivered(tx, "success")
  BY DEF MineStep
<1>3. Receives(tx, "success") /\ Others(c)
  BY <1>2 DEF Delivered
<1>4. nextEscrowId' = nextEscrowId + 1
  BY <1>1, <1>2 DEF Execute, createEscrow
<1>5. call'[c].escrow = nextEscrowId /\ call'[c].op = "CreateEscrow"
  BY <1>1, <1>3 DEF Receives
<1>6. \A d \in Callers \ {c} : KeepsIds(d)
  BY <1>1, <1>3, OthersKeepIds
<1> HIDE DEF c
<1>7. ~Requested(c)'
  BY <1>5 DEF Requested
<1>8. \A d \in Callers \ {c} : Created(d)' => call'[d].escrow < nextEscrowId
  BY <1>6 DEF KeepsIds, IdsIssued
<1>9. ASSUME NEW d \in Callers
      PROVE  /\ Created(d)' => call'[d].escrow < nextEscrowId'
             /\ Requested(d)' => call'[d].release < escrows'[call'[d].escrow].nextReleaseId
  <2>1. CASE d = c
    BY <1>4, <1>5, <1>7, <2>1, CountersGrow
  <2>2. CASE d # c
    BY <1>6, <2>2, IdTypes, CountersGrow DEF KeepsIds, IdsIssued
  <2> QED  BY <2>1, <2>2
<1>10. ASSUME NEW d \in Callers, NEW b \in Callers \ {d}
       PROVE  /\ Created(d)' /\ Created(b)' => call'[d].escrow # call'[b].escrow
              /\ Requested(d)' /\ Requested(b)'
                   => call'[d].escrow # call'[b].escrow \/ call'[d].release # call'[b].release
  <2>1. CASE d = c
    BY <1>5, <1>7, <1>8, <2>1, CountersGrow
  <2>2. CASE b = c
    BY <1>5, <1>7, <1>8, <2>2, CountersGrow
  <2>3. CASE d # c /\ b # c
    BY <1>6, <2>3 DEF KeepsIds, IdsDiffer
  <2> QED  BY <2>1, <2>2, <2>3
<1> QED  BY <1>9, <1>10 DEF IdsIssued, IdsDiffer

LEMMA RequestedIds ==
  ASSUME Typed, Typed', ChainInv, Shaped, Coupled, IdsIssued, IdsDiffer, Onward,
         NEW a \in Addr, NEW tx \in Transaction, MineStep(a, tx), tx.by # NoCaller,
         Accepted(a, tx), call[tx.by].op = "RequestRelease"
  PROVE  IdsIssued' /\ IdsDiffer'
<1> DEFINE c == tx.by
           e == tx.escrow
           r == escrows[e].nextReleaseId
<1>1. c \in Callers /\ tx.kind = "requestRelease" /\ e = call[c].escrow /\ e \in EscrowIds
  BY AwaitedKind, SingleStep DEF Transaction
<1>2. Execute(a, tx) /\ Delivered(tx, "success")
  BY DEF MineStep
<1>3. Receives(tx, "success") /\ Others(c)
  BY <1>2 DEF Delivered
<1>4. escrows'[e].nextReleaseId = r + 1
  <2>1. escrows \in [EscrowIds -> Escrow] /\ requestRelease(a, e, tx.amount, a)
    BY <1>1, <1>2 DEF Execute, ChainInv, IInv, TypeOK
  <2> QED  BY <1>1, <2>1 DEF requestRelease, Escrow
<1>5. call'[c].escrow = e /\ call'[c].release = r /\ call'[c].op = "RequestRelease"
  BY <1>1, <1>3 DEF Receives
<1>6. \A d \in Callers \ {c} : KeepsIds(d)
  BY <1>1, <1>3, OthersKeepIds
<1>7. r \in Nat
  BY <1>1, CountersGrow
<1> HIDE DEF c, r, e
<1>8. ~Created(c)'
  BY <1>5 DEF Created
<1>9. \A d \in Callers \ {c} : Requested(d)' => call'[d].escrow # e \/ call'[d].release < r
  BY <1>6 DEF KeepsIds, IdsIssued, r
<1>10. ASSUME NEW d \in Callers
       PROVE  /\ Created(d)' => call'[d].escrow < nextEscrowId'
              /\ Requested(d)' => call'[d].release < escrows'[call'[d].escrow].nextReleaseId
  <2>1. CASE d = c
    BY <1>4, <1>5, <1>7, <1>8, <2>1
  <2>2. CASE d # c
    BY <1>6, <2>2, IdTypes, CountersGrow DEF KeepsIds, IdsIssued
  <2> QED  BY <2>1, <2>2
<1>11. ASSUME NEW d \in Callers, NEW b \in Callers \ {d}
       PROVE  /\ Created(d)' /\ Created(b)' => call'[d].escrow # call'[b].escrow
              /\ Requested(d)' /\ Requested(b)'
                   => call'[d].escrow # call'[b].escrow \/ call'[d].release # call'[b].release
  <2>1. CASE d = c
    BY <1>5, <1>7, <1>8, <1>9, <2>1
  <2>2. CASE b = c
    BY <1>5, <1>7, <1>8, <1>9, <2>2
  <2>3. CASE d # c /\ b # c
    BY <1>6, <2>3 DEF KeepsIds, IdsDiffer
  <2> QED  BY <2>1, <2>2, <2>3
<1> QED  BY <1>10, <1>11 DEF IdsIssued, IdsDiffer

LEMMA MineIds ==
  ASSUME Typed, Typed', ChainInv, Shaped, Coupled, IdsIssued, IdsDiffer, Onward,
         NEW a \in Addr, NEW tx \in Transaction, MineStep(a, tx)
  PROVE  IdsIssued' /\ IdsDiffer'
<1>1. CASE tx.by = NoCaller
  <2>1. call' = call
    BY <1>1 DEF MineStep, Delivered
  <2>2. \A c \in Callers : KeepsIds(c)
    BY <2>1 DEF KeepsIds, Created, Requested
  <2> QED  BY <2>2, IdsKept
<1>2. CASE tx.by # NoCaller /\ (~Accepted(a, tx) \/ call[tx.by].op \notin {"CreateEscrow", "RequestRelease"})
  <2> DEFINE c == tx.by
  <2>1. c \in Callers /\ Others(c) /\ \/ Receives(tx, "reverted")
                                      \/ Receives(tx, "success") /\ Accepted(a, tx)
    BY <1>2 DEF MineStep, Delivered
  <2>2. KeepsIds(c)
    BY <1>2, <2>1 DEF KeepsIds, Created, Requested, Receives
  <2> HIDE DEF c
  <2>3. \A d \in Callers : KeepsIds(d)
    BY <2>1, <2>2, OthersKeepIds
  <2> QED  BY <2>3, IdsKept
<1> QED  BY <1>1, <1>2, CreatedIds, RequestedIds

LEMMA IdsNext ==
  ASSUME Typed, Typed', ChainInv, Shaped, Coupled, IdsIssued, IdsDiffer, Onward, Step
  PROVE  IdsIssued' /\ IdsDiffer'
<1>1. ASSUME NEW c \in Callers, Others(c), KeepsIds(c) PROVE IdsIssued' /\ IdsDiffer'
  BY <1>1, OthersKeepIds, IdsKept
<1>2. ASSUME NEW c \in Callers, NEW op \in Operations, NEW e \in EscrowIds, NEW n \in Amounts,
             NEW r \in ReleaseIds, BeginStep(c, op, e, n, r)
      PROVE  IdsIssued' /\ IdsDiffer'
  BY <1>1, <1>2 DEF BeginStep, Began, KeepsIds, Created, Requested
<1>3. ASSUME NEW c \in Callers, SendStep(c) PROVE IdsIssued' /\ IdsDiffer'
  BY <1>1, <1>3 DEF SendStep, Sent, KeepsIds, Created, Requested
<1>4. ASSUME NEW c \in Callers, EndStep(c) \/ GiveUpStep(c) PROVE IdsIssued' /\ IdsDiffer'
  BY <1>1, <1>4 DEF EndStep, GiveUpStep, Ended, SameArguments, KeepsIds, Created, Requested
<1>5. ASSUME NEW c \in Callers, ContinueStep(c) PROVE IdsIssued' /\ IdsDiffer'
  BY <1>1, <1>5 DEF ContinueStep, Continued, KeepsIds, Created, Requested
<1>6. ASSUME IdleStep PROVE IdsIssued' /\ IdsDiffer'
  <2>1. \A c \in Callers : KeepsIds(c)
    BY <1>6 DEF IdleStep, KeepsIds, Created, Requested
  <2> QED  BY <2>1, IdsKept
<1> QED  BY <1>2, <1>3, <1>4, <1>5, <1>6, MineIds DEF Step

LEMMA IdInvNext == IdInv /\ [AdapterNext]_adapterVars => IdInv'
<1> SUFFICES ASSUME IdInv, [AdapterNext]_adapterVars PROVE IdInv'
  OBVIOUS
<1>1. Step /\ Typed' /\ Onward
  BY NextIsStep DEF IdInv
<1>2. Shaped' /\ Coupled'
  BY <1>1, ShapeNext, CoupledNext DEF IdInv
<1>3. IdsIssued' /\ IdsDiffer'
  BY <1>1, IdsNext DEF IdInv
<1> QED  BY <1>1, <1>2, <1>3 DEF IdInv, Onward

LEMMA InitCalls ==
  ASSUME AdapterInit
  PROVE  /\ ContractInit /\ TokenTypeOK
         /\ \A c \in Callers : call[c] = NoCall
         /\ \A a \in Addr : mempool[a] = <<>>
<1>1. wallet \in [Tokens -> [Holders -> Nat]] /\ allowance \in [Tokens -> [Addr -> Nat]]
  BY SupplyAssumption DEF AdapterInit
<1>2. MaxSupply * Cardinality(Payers) \in Nat
  BY SupplyAssumption, FS_CardinalityType
<1>3. totalSupply \in [Tokens -> Nat]
  BY <1>2 DEF AdapterInit
<1> QED  BY <1>1, <1>3 DEF AdapterInit, TokenTypeOK

LEMMA InitIds == AdapterInit => IdInv
<1> SUFFICES ASSUME AdapterInit PROVE IdInv
  OBVIOUS
<1>1. ChainInv
  BY InitCalls, InitChain
<1>2. Typed
  <2>1. 1 \in EscrowIds /\ 1 \in ReleaseIds
    BY BoundAssumption, IdAssumption DEF EscrowIds, ReleaseIds
  <2>2. NoCall \in Call
    BY <2>1 DEF NoCall, Call, Phase, Receipt, Result
  <2>3. <<>> \in Seq(Transaction)
    OBVIOUS
  <2> QED  BY <2>2, <2>3 DEF Typed, AdapterInit
<1>3. \A c \in Callers : call[c] = NoCall
  BY InitCalls
<1>4. Shaped
  BY <1>3 DEF NoCall, Shaped, Shape
<1>5. Coupled
  BY InitCalls DEF Coupled
<1>6. IdsIssued /\ IdsDiffer
  BY <1>3 DEF NoCall, IdsIssued, IdsDiffer, Created, Requested
<1> QED  BY <1>1, <1>2, <1>4, <1>5, <1>6 DEF IdInv

LEMMA SpecIdInv == AdapterSpec => []IdInv
BY InitIds, IdInvNext, PTL DEF AdapterSpec

\* The id an operation returns without an error is that of its own escrow or release request,
\* for any callers, accounts and orders of mining (CreateEscrow and RequestRelease read it
\* from the event of their own receipt).
THEOREM IdsOwn == AdapterSpec => []IdsAreOwn
<1>1. IdInv => IdsAreOwn
  BY DEF IdInv, IdsAreOwn, IdsDiffer, Shaped, Shape, Succeeded, Created, Requested
<1> QED  BY <1>1, SpecIdInv, PTL

\* The calls a caller may still begin stay natural numbers.
CallsCounted(limit) ==
  /\ calls \in [Callers -> Nat]
  /\ limit \in CallLimits
  /\ \A c \in Callers : calls[c] <= limit[c]

LEMMA CallsNext ==
  ASSUME NEW limit, CallsCounted(limit), [AdapterNext]_adapterVars
  PROVE  CallsCounted(limit)'
<1>1. \A c \in Callers : limit[c] \in Nat
  BY DEF CallsCounted
<1>2. ASSUME NEW c \in Callers, NEW op \in Operations, NEW e \in EscrowIds, NEW n \in Amounts,
             NEW r \in ReleaseIds, Begin(c, op, e, n, r)
      PROVE  CallsCounted(limit)'
  <2>1. calls' = [calls EXCEPT ![c] = calls[c] - 1] /\ calls[c] > 0
    BY <1>2 DEF Begin
  <2>2. calls[c] - 1 \in Nat /\ calls[c] - 1 <= limit[c]
    BY <1>1, <2>1 DEF CallsCounted
  <2> QED  BY <2>1, <2>2 DEF CallsCounted
<1>3. ASSUME UNCHANGED calls PROVE CallsCounted(limit)'
  BY <1>3 DEF CallsCounted
<1> QED  BY <1>2, <1>3 DEF AdapterNext, CallerStep, BlockTime, Send, SendReverts, Continue, Return,
                           GiveUp, Mine, adapterVars

\* The adapter keeps its types, and those of the contract and the token under it: the ids in
\* its receipts are ids, its scripts have the transactions it sends.  A call waits for one
\* transaction at most, in the pool of its own account (escrow_evm.go).
THEOREM AdapterTypeCorrect == AdapterSpec => []AdapterTypeOK
<1> DEFINE Counted == \E limit : CallsCounted(limit)
<1>1. AdapterInit => Counted
  BY DEF AdapterInit, CallsCounted
<1>2. Counted /\ [AdapterNext]_adapterVars => Counted'
  BY CallsNext
<1>3. Counted /\ IdInv => AdapterTypeOK
  <2> SUFFICES ASSUME Counted, IdInv PROVE AdapterTypeOK
    OBVIOUS
  <2>1. \A a \in Addr : \A i, j \in DOMAIN mempool[a] :
          LET c == mempool[a][i].by IN
          c # NoCaller => AccountOf[c] = a /\ (mempool[a][j].by = c => i = j)
    BY DEF IdInv, Coupled, Awaited
  <2> QED  BY <2>1 DEF CallsCounted, IdInv, Typed, ChainInv, IInv, AdapterTypeOK
<1> HIDE DEF Counted
<1> QED  BY <1>1, <1>2, <1>3, SpecIdInv, PTL DEF AdapterSpec

-----------------------------------------------------------------------------

LastOwn == \A c \in Callers : LastIsOwn(c)

LEMMA TurnsNext ==
  ASSUME Typed, Shaped, Coupled, Turns, Step
  PROVE  Turns'
<1>1. ASSUME \A c \in Callers : call[c].phase = "idle" => call'[c].phase = "idle"
      PROVE  Turns'
  BY <1>1 DEF Turns
<1>2. ASSUME NEW c \in Callers, Others(c), call[c].phase # "idle" PROVE Turns'
  BY <1>1, <1>2 DEF Others
<1>3. ASSUME NEW c \in Callers, NEW op \in Operations, NEW e \in EscrowIds, NEW n \in Amounts,
             NEW r \in ReleaseIds, BeginStep(c, op, e, n, r)
      PROVE  Turns'
  <2> SUFFICES ASSUME NEW b \in Callers, NEW d \in Callers \ {b}, AccountOf[b] = AccountOf[d],
                      Exclusive(AccountOf[b])
               PROVE  call'[b].phase = "idle" \/ call'[d].phase = "idle"
    BY DEF Turns
  <2>1. AccountOf[b] \in Serialized
    BY DEF Exclusive
  <2>2. \A f \in Callers \ {c} : call'[f] = call[f]
    BY <1>3 DEF BeginStep, Began, Others
  <2>3. AccountOf[c] = AccountOf[b] => \A f \in Callers : AccountOf[f] = AccountOf[c] => call[f].phase = "idle"
    BY <1>3, <2>1 DEF BeginStep, Begin, Busy
  <2>4. CASE b # c /\ d # c
    BY <2>2, <2>4 DEF Turns
  <2>5. CASE b = c \/ d = c
    BY <2>2, <2>3, <2>5
  <2> QED  BY <2>4, <2>5
<1>4. ASSUME NEW c \in Callers, SendStep(c) \/ EndStep(c) \/ ContinueStep(c) \/ GiveUpStep(c)
      PROVE  Turns'
  BY <1>2, <1>4 DEF SendStep, Send, Sent, EndStep, SendReverts, Return, Ended, ContinueStep, Continue,
                    Continued, GiveUpStep, GiveUp
<1>5. ASSUME NEW a \in Addr, NEW tx \in Transaction, MineStep(a, tx) PROVE Turns'
  <2>1. CASE tx.by = NoCaller
    BY <1>1, <1>5, <2>1 DEF MineStep, Delivered
  <2>2. CASE tx.by # NoCaller
    BY <1>2, <1>5, <2>2, AwaitedKind DEF MineStep, Delivered
  <2> QED  BY <2>1, <2>2
<1>6. CASE IdleStep
  BY <1>1, <1>6 DEF IdleStep
<1> QED  BY <1>3, <1>4, <1>5, <1>6 DEF Step

LEMMA LastSame ==
  ASSUME NEW c \in Callers, call'[c] = call[c], LastIsOwn(c),
         mempool'[AccountOf[c]] = mempool[AccountOf[c]]
  PROVE  LastIsOwn(c)'
BY DEF LastIsOwn

LEMMA LastIdle ==
  ASSUME NEW c \in Callers, call'[c].phase = "idle"
  PROVE  LastIsOwn(c)'
BY DEF LastIsOwn

LEMMA LastNotExclusive ==
  ASSUME NEW c \in Callers, ~Exclusive(AccountOf[c])
  PROVE  LastIsOwn(c)'
BY DEF LastIsOwn

\* A caller that shares an exclusive account with one that is busy is idle.
LEMMA OneIsIdle ==
  ASSUME Turns, NEW c \in Callers, NEW d \in Callers \ {c}, AccountOf[d] = AccountOf[c],
         Exclusive(AccountOf[d]), call[c].phase # "idle"
  PROVE  call[d].phase = "idle"
BY DEF Turns

LEMMA LastSend ==
  ASSUME Typed, Shaped, Coupled, Turns, LastOwn, NEW c \in Callers, SendStep(c)
  PROVE  LastOwn'
<1> SUFFICES ASSUME NEW d \in Callers, Exclusive(AccountOf[d]) PROVE LastIsOwn(d)'
  BY LastNotExclusive DEF LastOwn
<1>1. call[c].phase = "send" /\ Sent(c) /\ LastIsOwn(c)
  BY DEF SendStep, Send, LastOwn
<1>2. CASE d # c
  <2>1. call'[d] = call[d] /\ LastIsOwn(d)
    BY <1>1, <1>2 DEF Sent, Others, LastOwn
  <2>2. CASE AccountOf[d] = AccountOf[c]
    BY <1>1, <1>2, <2>1, <2>2, OneIsIdle, LastIdle
  <2>3. CASE AccountOf[d] # AccountOf[c]
    <3>1. mempool'[AccountOf[d]] = mempool[AccountOf[d]]
      BY <2>3 DEF SendStep, Typed
    <3> QED  BY <2>1, <3>1, LastSame
  <2> QED  BY <2>2, <2>3
<1>3. CASE d = c
  <2> DEFINE pool == mempool[AccountOf[c]]
  <2>1. pool \in Seq(Transaction) /\ NextTx(c) \in Transaction
    BY <1>1, NextTxType DEF Typed, Shaped
  <2>2. mempool'[AccountOf[c]] = Append(pool, NextTx(c))
    BY DEF SendStep, Typed
  <2>3. /\ mempool'[AccountOf[c]] # <<>>
        /\ Len(mempool'[AccountOf[c]]) = Len(pool) + 1
        /\ mempool'[AccountOf[c]][Len(pool) + 1] = NextTx(c)
    BY <2>1, <2>2, AppendProperties
  <2>4. NextTx(c).by = c
    BY DEF NextTx
  <2>5. call[c].step = 2 => Len(pool) = 0
    BY <1>1, <1>3, <2>1, EmptySeq DEF LastIsOwn
  <2> HIDE DEF pool
  <2> QED  BY <1>1, <1>3, <2>3, <2>4, <2>5 DEF LastIsOwn, Sent
<1> QED  BY <1>2, <1>3

LEMMA LastGiveUp ==
  ASSUME Typed, Typed', Shaped, Coupled, Turns, LastOwn, NEW c \in Callers, GiveUpStep(c)
  PROVE  LastOwn'
<1> SUFFICES ASSUME NEW d \in Callers, Exclusive(AccountOf[d]) PROVE LastIsOwn(d)'
  BY LastNotExclusive DEF LastOwn
<1>1. call[c].phase # "idle" /\ Ended(c, "unknown") /\ Orphaned(c)
  BY DEF GiveUpStep, GiveUp
<1>2. CASE d = c
  BY <1>1, <1>2, LastIdle DEF Ended
<1>3. CASE d # c
  <2>1. call'[d] = call[d] /\ LastIsOwn(d)
    BY <1>1, <1>3 DEF Ended, Others, LastOwn
  <2>2. CASE AccountOf[d] = AccountOf[c]
    BY <1>1, <1>3, <2>1, <2>2, OneIsIdle, LastIdle
  <2>3. CASE AccountOf[d] # AccountOf[c]
    <3> DEFINE b == AccountOf[d]
    <3>1. b \in Addr /\ mempool[b] \in Seq(Transaction) /\ mempool'[b] \in Seq(Transaction)
      BY DEF Typed
    <3>2. \A i \in DOMAIN mempool[b] : mempool[b][i].by # c
      BY <2>3, CallerAssumption DEF Coupled, Awaited
    <3>3. /\ Len(mempool'[b]) = Len(mempool[b])
          /\ \A i \in DOMAIN mempool[b] : mempool'[b][i] = mempool[b][i]
      BY <1>1, <3>1, <3>2 DEF Orphaned
    <3> HIDE DEF b
    <3>4. mempool'[b] = mempool[b]
      BY <3>1, <3>3
    <3> QED  BY <2>1, <3>4, LastSame DEF b
  <2> QED  BY <2>2, <2>3
<1> QED  BY <1>2, <1>3

LEMMA LastMine ==
  ASSUME Typed, Typed', Shaped, Coupled, Turns, LastOwn, NEW a \in Addr, NEW tx \in Transaction,
         MineStep(a, tx)
  PROVE  LastOwn'
<1> SUFFICES ASSUME NEW d \in Callers, Exclusive(AccountOf[d]) PROVE LastIsOwn(d)'
  BY LastNotExclusive DEF LastOwn
<1>1. Popped(a) /\ LastIsOwn(d) /\ tx = mempool[a][1] /\ 1 \in DOMAIN mempool[a]
  BY DEF MineStep, LastOwn
<1>2. d # tx.by => call'[d] = call[d]
  BY DEF MineStep, Delivered, Others
<1>3. CASE AccountOf[d] # a
  <2>1. d # tx.by
    BY <1>3, AwaitedKind, CallerAssumption
  <2>2. mempool'[AccountOf[d]] = mempool[AccountOf[d]]
    BY <1>1, <1>3 DEF Popped
  <2> QED  BY <1>1, <1>2, <2>1, <2>2, LastSame
<1>4. CASE AccountOf[d] = a
  <2>1. /\ mempool[a] \in Seq(Transaction) /\ mempool'[a] \in Seq(Transaction)
        /\ Len(mempool[a]) \in Nat /\ Len(mempool[a]) > 0 /\ mempool[a] # <<>>
        /\ Len(mempool'[a]) = Len(mempool[a]) - 1
        /\ \A i \in 1..Len(mempool'[a]) : mempool'[a][i] = mempool[a][i + 1]
    BY <1>1, EmptySeq DEF Typed, Popped
  <2>2. CASE d = tx.by
    <3>1. /\ call[d].phase = "wait" /\ call[d].receipt = "none" /\ d \in Callers
          /\ call'[d].phase = "wait" /\ call'[d].receipt \in {"success", "reverted"}
      BY <2>2, AwaitedKind, CallerAssumption DEF MineStep, Delivered, Receives
    <3>2. mempool[a][Len(mempool[a])].by = d /\ Len(mempool[a]) \in DOMAIN mempool[a]
      BY <1>1, <1>4, <2>1, <3>1 DEF LastIsOwn
    <3>3. Awaited(a, 1)
      BY <1>1 DEF Coupled
    <3>4. Len(mempool[a]) = 1
      BY <1>1, <2>2, <3>2, <3>3, CallerAssumption DEF Awaited
    <3>5. mempool'[a] = <<>>
      BY <2>1, <3>4, EmptySeq
    <3> QED  BY <1>4, <3>1, <3>5 DEF LastIsOwn
  <2>3. CASE d # tx.by /\ call[d].phase = "wait" /\ call[d].receipt = "none"
    <3>1. mempool[a][Len(mempool[a])].by = d /\ (call[d].step = 2 => Len(mempool[a]) = 1)
      BY <1>1, <1>4, <2>3 DEF LastIsOwn
    <3>2. Len(mempool[a]) # 1
      BY <1>1, <2>3, <3>1
    <3>3. Len(mempool'[a]) \in 1..Len(mempool'[a]) /\ mempool'[a] # <<>>
      <4>1. Len(mempool'[a]) \in Nat /\ Len(mempool'[a]) >= 1
        <5>1. ASSUME NEW n \in Nat, n > 0, n # 1, NEW m, m = n - 1 PROVE m \in Nat /\ m >= 1
          BY <5>1
        <5> QED  BY <2>1, <3>2, <5>1
      <4> QED  BY <2>1, <4>1, EmptySeq
    <3>4. mempool'[a][Len(mempool'[a])] = mempool[a][Len(mempool[a])]
      BY <2>1, <3>3
    <3> QED  BY <1>2, <1>4, <2>3, <3>1, <3>2, <3>3, <3>4 DEF LastIsOwn
  <2>4. CASE d # tx.by /\ ~(call[d].phase = "wait" /\ call[d].receipt = "none")
    BY <1>1, <1>2, <1>4, <2>1, <2>4 DEF LastIsOwn
  <2> QED  BY <2>2, <2>3, <2>4
<1> QED  BY <1>3, <1>4

LEMMA LastNext ==
  ASSUME Typed, Typed', Shaped, Coupled, Turns, LastOwn, Step
  PROVE  LastOwn'
<1>1. ASSUME NEW c \in Callers, Others(c), UNCHANGED mempool, LastIsOwn(c)' PROVE LastOwn'
  BY <1>1, LastSame DEF LastOwn, Others
<1>2. ASSUME NEW c \in Callers, NEW op \in Operations, NEW e \in EscrowIds, NEW n \in Amounts,
             NEW r \in ReleaseIds, BeginStep(c, op, e, n, r)
      PROVE  LastOwn'
  <2>1. LastIsOwn(c)'
    BY <1>2 DEF BeginStep, Began, LastIsOwn
  <2> QED  BY <1>1, <1>2, <2>1 DEF BeginStep, Began
<1>3. ASSUME NEW c \in Callers, EndStep(c) PROVE LastOwn'
  BY <1>1, <1>3, LastIdle DEF EndStep, Ended
<1>4. ASSUME NEW c \in Callers, ContinueStep(c) PROVE LastOwn'
  <2>1. LastIsOwn(c)'
    BY <1>4 DEF ContinueStep, Continue, Continued, LastIsOwn, LastOwn
  <2> QED  BY <1>1, <1>4, <2>1 DEF ContinueStep, Continued
<1>5. CASE IdleStep
  BY <1>5, LastSame DEF IdleStep, LastOwn
<1> QED  BY <1>2, <1>3, <1>4, <1>5, LastSend, LastGiveUp, LastMine DEF Step

-----------------------------------------------------------------------------

\* A transfer takes from its sender only.
LEMMA MoveLeaves ==
  ASSUME NEW b \in [Holders -> Nat], NEW from \in Holders, NEW to \in Holders, NEW n \in Nat,
         NEW a \in Holders, a # from
  PROVE  Move(b, from, to, n)[a] >= b[a]
<1>1. CASE a = to
  BY <1>1 DEF Move
<1>2. CASE a # to
  BY <1>2 DEF Move
<1> QED  BY <1>1, <1>2

\* A transaction of another account takes nothing from account a, neither tokens nor allowance.
LEMMA OthersPay ==
  ASSUME ChainInv, Onward, NEW a \in Addr, NEW b \in Addr, a # b, NEW tx \in Transaction,
         Execute(b, tx), NEW t \in Tokens
  PROVE  wallet'[t][a] >= wallet[t][a] /\ allowance'[t][a] >= allowance[t][a]
<1> DEFINE e == tx.escrow
           r == tx.release
<1>1. e \in EscrowIds /\ r \in ReleaseIds /\ tx.amount \in Nat
  <2>1. \A n \in Amounts \cup {0} : n \in Nat
    BY AmountAssumption
  <2> QED  BY <2>1 DEF Transaction
<1>2. /\ wallet \in [Tokens -> [Holders -> Nat]] /\ allowance \in [Tokens -> [Addr -> Nat]]
      /\ wallet[t][a] \in Nat /\ allowance[t][a] \in Nat
      /\ a \in Holders /\ b \in Holders /\ EscrowAddr \in Holders
      /\ a # EscrowAddr
  <2>1. wallet \in [Tokens -> [Holders -> Nat]] /\ allowance \in [Tokens -> [Addr -> Nat]]
    BY DEF ChainInv, IInv, TypeOK, TokenTypeOK
  <2>2. a \in Holders /\ b \in Holders /\ EscrowAddr \in Holders /\ a # EscrowAddr
    BY AddressAssumption DEF Holders
  <2> QED  BY <2>1, <2>2
<1>3. escrowExists(e) => escrows[e].token \in Tokens
  BY <1>1 DEF ChainInv, IInv, WellFormed
<1>4. /\ releases[e][r].recipient \in Holders \cup {ZeroAddr} /\ releases[e][r].amount \in Nat
      /\ escrows[e].buyer \in Addr \cup {ZeroAddr} /\ escrows[e].balance \in Nat
  <2>1. escrows[e] \in Escrow /\ releases[e][r] \in ReleaseRequest
    BY <1>1 DEF ChainInv, IInv, TypeOK
  <2> QED  BY <2>1 DEF Escrow, ReleaseRequest
<1> HIDE DEF e, r
<1>5. CASE UNCHANGED tokenVars
  BY <1>2, <1>5 DEF tokenVars
<1>6. CASE approve(Token, b, tx.amount)
  <2>1. wallet' = wallet /\ allowance' = [allowance EXCEPT ![Token][b] = tx.amount]
    BY <1>6 DEF approve
  <2> QED  BY <1>2, <2>1
<1>7. CASE deposit(b, e, tx.amount)
  <2> DEFINE u == escrows[e].token
  <2>1. /\ u \in Tokens
        /\ wallet' = [wallet EXCEPT ![u] = Move(wallet[u], b, EscrowAddr, tx.amount)]
        /\ allowance' = [allowance EXCEPT ![u][b] = @ - tx.amount]
    BY <1>3, <1>7 DEF deposit, mayDeposit, safeTransferFrom
  <2> HIDE DEF u
  <2>2. CASE t = u
    <3>1. wallet'[t] = Move(wallet[t], b, EscrowAddr, tx.amount) /\ wallet[t] \in [Holders -> Nat]
      BY <1>2, <2>1, <2>2
    <3>2. wallet'[t][a] >= wallet[t][a]
      BY <1>1, <1>2, <3>1, MoveLeaves
    <3>3. allowance'[t][a] = allowance[t][a]
      BY <1>2, <2>1
    <3> QED  BY <1>2, <3>2, <3>3
  <2>3. CASE t # u
    BY <1>2, <2>1, <2>3
  <2> QED  BY <2>2, <2>3
<1>8. ASSUME NEW to \in Holders, NEW n \in Nat, safeTransfer(escrows[e].token, to, n), escrowExists(e)
      PROVE  wallet'[t][a] >= wallet[t][a] /\ allowance'[t][a] >= allowance[t][a]
  <2> DEFINE u == escrows[e].token
  <2>1. /\ u \in Tokens
        /\ wallet' = [wallet EXCEPT ![u] = Move(wallet[u], EscrowAddr, to, n)]
        /\ allowance' = allowance
    BY <1>3, <1>8 DEF safeTransfer
  <2> HIDE DEF u
  <2>2. CASE t = u
    <3>1. wallet'[t] = Move(wallet[t], EscrowAddr, to, n) /\ wallet[t] \in [Holders -> Nat]
      BY <1>2, <2>1, <2>2
    <3>2. wallet'[t][a] >= wallet[t][a]
      BY <1>2, <1>8, <3>1, MoveLeaves
    <3> QED  BY <1>2, <2>1, <3>2
  <2>3. CASE t # u
    BY <1>2, <2>1, <2>3
  <2> QED  BY <2>2, <2>3
<1>9. CASE withdraw(e, r)
  BY <1>4, <1>8, <1>9 DEF withdraw, mayWithdraw, mayTransfer
<1>10. CASE claimRefund(b, e)
  BY <1>4, <1>8, <1>10 DEF claimRefund, mayClaimRefund, mayTransfer, Holders
<1> QED  BY <1>5, <1>6, <1>7, <1>9, <1>10
         DEF Execute, createEscrow, requestRelease, approveRelease, e, r

BalancesCovered ==
  \A e \in EscrowIds : escrowExists(e) => escrows[e].balance <= wallet[escrows[e].token][EscrowAddr]

LEMMA AllCovered == IInv /\ Solvent => BalancesCovered
BY BalanceCovered DEF BalancesCovered

LEMMA CoveredAfter == IInv' /\ Solvent' => BalancesCovered'
BY AllCovered, PTL

\* An account that only withdraws from and refunds escrows of its own cannot take an approved
\* release from another buyer.
LEMMA OthersLeaveRelease ==
  ASSUME ChainInv, Onward, NEW a \in Addr, NEW b \in Addr, a # b, NEW tx \in Transaction,
         Execute(b, tx), Promising(b, tx), NEW e \in EscrowIds, NEW r \in ReleaseIds,
         mayWithdraw(e, r), escrows[e].buyer = a
  PROVE  mayWithdraw(e, r)'
<1> DEFINE f == tx.escrow
           q == tx.release
<1>1. /\ f \in EscrowIds /\ q \in ReleaseIds
      /\ escrows \in [EscrowIds -> Escrow] /\ releases \in [EscrowIds -> [ReleaseIds -> ReleaseRequest]]
      /\ escrows[e] \in Escrow /\ escrows'[e] \in Escrow /\ releases[e][r] \in ReleaseRequest
      /\ IInv' /\ Solvent' /\ escrowExists(e) /\ SameParties(e)
  BY DEF ChainInv, Onward, IInv, TypeOK, Transaction, mayWithdraw, Grows
<1>2. /\ releases[e][r].amount \in Nat /\ releases[e][r].amount # 0
      /\ releases[e][r].state = "Approved" /\ releases[e][r].recipient # ZeroAddr
      /\ releases[e][r].amount <= escrows[e].balance
      /\ releases[e][r].amount <= escrows[e].pendingReleaseTotal
  BY <1>1 DEF mayWithdraw, mayTransfer, releaseExists, ReleaseRequest
<1>3. /\ escrows[e].balance \in Nat /\ escrows'[e].balance \in Nat
      /\ escrows[e].pendingReleaseTotal \in Nat /\ escrows'[e].pendingReleaseTotal \in Nat
  BY <1>1 DEF Escrow
<1>4. /\ releases'[e][r] = releases[e][r]
      /\ escrows'[e].balance >= escrows[e].balance
      /\ escrows'[e].pendingReleaseTotal >= escrows[e].pendingReleaseTotal
  <2>1. ASSUME UNCHANGED <<escrows[e], releases[e]>>
        PROVE  /\ releases'[e][r] = releases[e][r]
               /\ escrows'[e].balance >= escrows[e].balance
               /\ escrows'[e].pendingReleaseTotal >= escrows[e].pendingReleaseTotal
    BY <1>3, <2>1
  <2>2. ASSUME NEW terms \in EscrowTerms, createEscrow(terms) PROVE UNCHANGED <<escrows[e], releases[e]>>
    <3>1. e # nextEscrowId
      BY <1>1 DEF ChainInv, Unissued, escrowExists, NoEscrow, IInv, TypeOK
    <3> QED  BY <2>2, <3>1, CreateFrame DEF createEscrow, ChainInv, IInv, TypeOK
  <2>3. ASSUME AnyCall(f), f # e PROVE UNCHANGED <<escrows[e], releases[e]>>
    BY <1>1, <2>3, CallLeaves
  <2>4. CASE deposit(b, f, tx.amount) /\ f = e
    <3>1. tx.amount \in Nat
      <4>1. \A n \in Amounts \cup {0} : n \in Nat
        BY AmountAssumption
      <4> QED  BY <4>1 DEF Transaction
    <3>2. /\ releases' = releases /\ escrows'[e].balance = escrows[e].balance + tx.amount
          /\ escrows'[e].pendingReleaseTotal = escrows[e].pendingReleaseTotal
      BY <1>1, <2>4 DEF deposit, Escrow
    <3> QED  BY <1>3, <3>1, <3>2
  <2>5. CASE requestRelease(b, f, tx.amount, b) /\ f = e
    <3> DEFINE s == escrows[e].nextReleaseId
    <3>1. tx.amount \in Nat
      <4>1. \A n \in Amounts \cup {0} : n \in Nat
        BY AmountAssumption
      <4> QED  BY <4>1 DEF Transaction
    <3>2. /\ s \in ReleaseIds
          /\ releases' = [releases EXCEPT ![e][s] =
                            [amount |-> tx.amount, recipient |-> b, state |-> "Pending"]]
          /\ escrows'[e].balance = escrows[e].balance
          /\ escrows'[e].pendingReleaseTotal = escrows[e].pendingReleaseTotal + tx.amount
      BY <1>1, <2>5 DEF requestRelease, mayRequestRelease, Escrow
    <3>3. s # r
      <4>1. \A p \in ReleaseIds : p >= s => releases[e][p] = NoRelease
        BY DEF ChainInv, ClaimsKept, ClaimsOf
      <4>2. ~(r >= s)
        BY <1>2, <4>1 DEF NoRelease
      <4> QED  BY <3>2, <4>2 DEF ReleaseIds
    <3> HIDE DEF s
    <3> QED  BY <1>1, <1>3, <3>1, <3>2, <3>3
  <2>6. CASE approveRelease(b, f, q) /\ f = e
    <3>1. q # r
      BY <1>2, <2>6 DEF approveRelease, mayApproveRelease
    <3> QED  BY <1>1, <1>3, <2>6, <3>1 DEF approveRelease
  <2>7. CASE Quiet
    BY <2>1, <2>7 DEF Quiet
  <2>8. ASSUME f = e PROVE ~(tx.kind = "withdraw") /\ ~(tx.kind = "claimRefund")
    BY <2>8 DEF Promising
  <2>9. CASE f = e
    BY <2>1, <2>2, <2>4, <2>5, <2>6, <2>7, <2>8, <2>9, ExecuteIsCall DEF Execute, approve, Quiet, createEscrow,
       escrowVars
  <2>10. CASE f # e
    BY <2>1, <2>2, <2>3, <2>7, <2>10, ExecuteIsCall
  <2> QED  BY <2>9, <2>10
<1>5. /\ escrowExists(e)' /\ escrows'[e].token = escrows[e].token
  BY <1>1 DEF SameParties, escrowExists
<1>6. escrows'[e].balance <= wallet'[escrows'[e].token][EscrowAddr]
  BY <1>1, <1>5, CoveredAfter DEF BalancesCovered
<1>7. /\ escrows'[e].token \in Tokens /\ wallet'[escrows'[e].token][EscrowAddr] \in Nat
  BY <1>1, <1>5 DEF IInv, WellFormed, TypeOK, TokenTypeOK, Holders
<1>8. /\ releases[e][r].amount <= escrows'[e].balance
      /\ releases[e][r].amount <= escrows'[e].pendingReleaseTotal
      /\ releases[e][r].amount <= wallet'[escrows'[e].token][EscrowAddr]
  BY <1>2, <1>3, <1>4, <1>6, <1>7
<1> QED  BY <1>2, <1>4, <1>5, <1>7, <1>8 DEF mayWithdraw, mayTransfer, releaseExists

-----------------------------------------------------------------------------

\* The contract's records as they were.
Stable == UNCHANGED <<escrows, releases, epoch, wallet, allowance>>

LEMMA OthersStable ==
  ASSUME Step
  PROVE  Stable \/ \E a \in Addr, tx \in Transaction : MineStep(a, tx) /\ Accepted(a, tx)
BY DEF Step, BeginStep, SendStep, EndStep, ContinueStep, GiveUpStep, MineStep, IdleStep, Quiet, Stable,
       vars

\* What the chain never takes back.
LEMMA Lasting ==
  ASSUME ChainInv, Onward, NEW e \in EscrowIds
  PROVE  /\ PaidOut(e) => PaidOut(e)'
         /\ \A r \in ReleaseIds : Withdrawn(e, r) => Withdrawn(e, r)'
         /\ \A a \in Addr : escrows[e].buyer = a =>
              escrows'[e].buyer = a /\ escrowExists(e) /\ escrowExists(e)' /\ SameParties(e)
<1>1. Grows(e)
  BY DEF Onward
<1>2. /\ PaidOut(e) => PaidOut(e)'
      /\ \A r \in ReleaseIds : Withdrawn(e, r) => Withdrawn(e, r)'
  BY <1>1 DEF Grows, PaidOut, Withdrawn
<1>3. ASSUME NEW a \in Addr, escrows[e].buyer = a
      PROVE  escrows'[e].buyer = a /\ escrowExists(e) /\ escrowExists(e)' /\ SameParties(e)
  BY <1>1, <1>3, AddressAssumption DEF Grows, SameParties, escrowExists
<1> QED  BY <1>2, <1>3

LEMMA PromisingKept ==
  ASSUME ChainInv, Onward, NEW a \in Addr, NEW tx \in Transaction, Promising(a, tx)
  PROVE  Promising(a, tx)'
<1> DEFINE e == tx.escrow
<1>1. e \in EscrowIds
  BY DEF Transaction
<1>2. CASE tx.kind = "withdraw"
  BY <1>1, <1>2, Lasting DEF Promising
<1>3. CASE tx.kind = "claimRefund"
  <2>1. /\ escrows[e].buyer = a /\ now >= escrows[e].timeout
        /\ escrows[e].balance # 0 \/ PaidOut(e)
    BY <1>3 DEF Promising
  <2>2. escrows'[e].buyer = a /\ escrows'[e].timeout = escrows[e].timeout /\ escrowExists(e)
    BY <1>1, <2>1, Lasting DEF SameParties
  <2>3. now \in Nat /\ now' \in Nat /\ escrows[e].timeout \in Nat /\ now' >= now
    <3>1. now \in Time /\ now' \in Time /\ escrows[e] \in Escrow
      BY <1>1 DEF Onward, ChainInv, IInv, TypeOK
    <3> QED  BY <3>1, BoundAssumption DEF Time, Escrow, Onward
  <2>4. escrows'[e].balance # 0 \/ PaidOut(e)'
    <3>1. PaidOut(e)' \/ (escrows[e].balance # 0 /\ Grows(e))
      BY <1>1, <2>1, Lasting DEF Onward
    <3>2. PaidOnce(e)' => PaidOut(e)'
      BY DEF PaidOnce, PaidOut
    <3> QED  BY <2>2, <3>1, <3>2 DEF Grows
  <2>5. now' >= escrows'[e].timeout
    BY <2>1, <2>2, <2>3
  <2> QED  BY <1>3, <2>2, <2>4, <2>5 DEF Promising
<1>4. CASE tx.kind \notin {"withdraw", "claimRefund"}
  BY <1>4 DEF Promising
<1> QED  BY <1>2, <1>3, <1>4

\* Which operation sends a transaction of a kind, and at which step.
LEMMA KindOf ==
  ASSUME NEW op \in Operations, NEW i \in 1..Len(Script(op))
  PROVE  /\ i = 1 \/ i = 2
         /\ Script(op)[i] = "withdraw" => op = "ApproveRelease" /\ i = 2
         /\ op = "ApproveRelease" =>
              Script(op)[1] = "approveRelease" /\ Script(op)[2] = "withdraw" /\ Len(Script(op)) = 2
         /\ op = "Deposit" =>
              Script(op)[1] = "approve" /\ Script(op)[2] = "deposit" /\ Len(Script(op)) = 2
         /\ op = "ClaimRefund" => Script(op)[i] = "claimRefund"
<1>1. i = 1 \/ i = 2
  BY ScriptLength
<1>2. CASE op \in {"CreateEscrow", "RequestRelease", "ClaimRefund"}
  BY <1>1, <1>2, SingleStep
<1>3. CASE op = "Deposit"
  BY <1>1, <1>3, ScriptLength
<1>4. CASE op = "ApproveRelease"
  BY <1>1, <1>4, ScriptLength
<1> QED  BY <1>1, <1>2, <1>3, <1>4 DEF Operations

\* What the estimation of a transaction that is sent has seen.
LEMMA SendSees ==
  ASSUME Typed, Shaped, NEW c \in Callers, SendStep(c)
  PROVE  /\ call[c].op \in Operations /\ call[c].phase = "send"
         /\ call[c].step \in 1..Len(Script(call[c].op)) /\ call[c].step \in {1, 2}
         /\ NextTx(c).kind = Script(call[c].op)[call[c].step]
         /\ NextTx(c).escrow = call[c].escrow /\ NextTx(c).release = call[c].release
         /\ NextTx(c).amount = call[c].amount
         /\ Accepted(AccountOf[c], NextTx(c))
<1>1. call[c].phase = "send" /\ Accepted(AccountOf[c], NextTx(c))
  BY DEF SendStep, Send, Estimated
<1>2. /\ call[c].op \in Operations /\ call[c].step <= Len(Script(call[c].op))
      /\ call[c].step \in 1..2
  BY <1>1 DEF Shaped, Shape, Typed, Call
<1>3. call[c].step \in 1..Len(Script(call[c].op))
  <2>1. Len(Script(call[c].op)) = 1 \/ Len(Script(call[c].op)) = 2
    BY <1>2, ScriptLength
  <2>2. ASSUME NEW i \in 1..2, NEW l, l = 1 \/ l = 2, i <= l PROVE i \in 1..l
    BY <2>2
  <2> QED  BY <1>2, <2>1, <2>2
<1>4. call[c].step \in {1, 2}
  BY <1>2
<1> QED  BY <1>1, <1>2, <1>3, <1>4 DEF NextTx

LEMMA SendPromising ==
  ASSUME Typed, Shaped, NEW c \in Callers, SendStep(c), ReleaseHolds(c)
  PROVE  Promising(AccountOf[c], NextTx(c))
<1>1. CASE NextTx(c).kind = "withdraw"
  <2>1. call[c].op = "ApproveRelease" /\ call[c].step = 2 /\ call[c].phase = "send"
    BY <1>1, SendSees, KindOf
  <2> QED  BY <1>1, <2>1, SendSees DEF ReleaseHolds, Promising
<1>2. CASE NextTx(c).kind = "claimRefund"
  <2>1. mayClaimRefund(AccountOf[c], NextTx(c).escrow)
    BY <1>2, SendSees DEF Accepted
  <2> QED  BY <1>2, <2>1 DEF mayClaimRefund, timeoutElapsed, Promising
<1>3. CASE NextTx(c).kind \notin {"withdraw", "claimRefund"}
  BY <1>3 DEF Promising
<1> QED  BY <1>1, <1>2, <1>3

PromisingAt(a, i) == Promising(a, mempool[a][i])

LEMMA MempoolPromisingNext ==
  ASSUME Typed, Typed', ChainInv, Onward, Shaped, MempoolPromising, Step,
         \A c \in Callers : ReleaseHolds(c)
  PROVE  MempoolPromising'
<1> SUFFICES ASSUME NEW a \in Addr, NEW i \in DOMAIN mempool'[a]
             PROVE  PromisingAt(a, i)'
  BY DEF MempoolPromising, PromisingAt
<1>1. ASSUME NEW j \in DOMAIN mempool[a], mempool'[a][i].kind = mempool[a][j].kind,
             mempool'[a][i].escrow = mempool[a][j].escrow
      PROVE  PromisingAt(a, i)'
  <2>1. PICK tx \in Transaction : tx = mempool[a][j]
    BY InPool
  <2>2. Promising(a, tx)'
    BY <2>1, PromisingKept DEF MempoolPromising
  <2> QED  BY <1>1, <2>1, <2>2 DEF Promising, PromisingAt
<1>2. ASSUME UNCHANGED mempool PROVE PromisingAt(a, i)'
  BY <1>1, <1>2
<1>3. ASSUME NEW c \in Callers, SendStep(c) PROVE PromisingAt(a, i)'
  <2>1. NextTx(c) \in Transaction /\ AccountOf[c] \in Addr
    BY <1>3, NextTxType DEF SendStep, Send, Shaped
  <2>2. \/ i \in DOMAIN mempool[a] /\ mempool'[a][i] = mempool[a][i]
        \/ a = AccountOf[c] /\ mempool'[a][i] = NextTx(c)
    <3>1. mempool[AccountOf[c]] \in Seq(Transaction)
      BY <2>1 DEF Typed
    <3>2. CASE a # AccountOf[c]
      BY <1>3, <3>2 DEF SendStep, Typed
    <3>3. CASE a = AccountOf[c]
      <4>1. mempool'[a] = Append(mempool[a], NextTx(c))
        BY <1>3, <3>3 DEF SendStep, Typed
      <4> HIDE DEF NextTx
      <4>2. i \in DOMAIN mempool[a] \/ i = Len(mempool[a]) + 1
        BY <2>1, <3>1, <3>3, <4>1, AppendProperties
      <4> QED  BY <2>1, <3>1, <3>3, <4>1, <4>2, AppendProperties
    <3> QED  BY <3>2, <3>3
  <2>3. PICK tx \in Transaction : tx = NextTx(c)
    BY <2>1
  <2>4. Promising(AccountOf[c], tx)'
    BY <1>3, <2>1, <2>3, SendPromising, PromisingKept
  <2>5. CASE a = AccountOf[c] /\ mempool'[a][i] = NextTx(c)
    BY <2>3, <2>4, <2>5 DEF Promising, PromisingAt
  <2> QED  BY <1>1, <2>2, <2>5
<1>4. ASSUME NEW c \in Callers, GiveUpStep(c) PROVE PromisingAt(a, i)'
  BY <1>1, <1>4 DEF GiveUpStep, Orphaned
<1>5. ASSUME NEW b \in Addr, NEW tx \in Transaction, MineStep(b, tx)
      PROVE  PromisingAt(a, i)'
  BY <1>1, <1>5, PoppedFrom DEF MineStep
<1> QED  BY <1>2, <1>3, <1>4, <1>5 DEF Step, BeginStep, EndStep, ContinueStep, IdleStep

LEMMA NoThirdPartyNext ==
  ASSUME Typed, ChainInv, Onward, NoThirdParty, Step, BuyerApproves
  PROVE  NoThirdParty'
<1>1. ASSUME Stable PROVE NoThirdParty'
  BY <1>1 DEF Stable, NoThirdParty
<1>2. ASSUME NEW terms \in EscrowTerms, createEscrow(terms) PROVE NoThirdParty'
  <2>1. escrows \in [EscrowIds -> Escrow]
    BY DEF ChainInv, IInv, TypeOK
  <2>2. /\ \A f \in EscrowIds \ {nextEscrowId} : escrows'[f] = escrows[f]
        /\ nextEscrowId \in EscrowIds => /\ escrows'[nextEscrowId].arbiter = terms.arbiter
                                         /\ escrows'[nextEscrowId].buyer = terms.buyer
    BY <1>2, <2>1 DEF createEscrow
  <2>3. terms.arbiter \in {ZeroAddr, terms.buyer}
    BY DEF BuyerApproves
  <2> QED  BY <2>2, <2>3 DEF NoThirdParty
<1>3. ASSUME NEW e \in EscrowIds, AnyCall(e) PROVE NoThirdParty'
  <2>1. \A f \in EscrowIds \ {e} : escrows'[f] = escrows[f]
    BY <1>3, CallFrame DEF ChainInv
  <2>2. SameParties(e)
    BY <1>3, CallFrame DEF Onward, Grows, ChainInv
  <2> QED  BY <2>1, <2>2 DEF NoThirdParty, SameParties
<1>4. ASSUME Quiet PROVE NoThirdParty'
  BY <1>4 DEF Quiet, NoThirdParty
<1>5. ASSUME NEW a \in Addr, NEW tx \in Transaction, MineStep(a, tx), Accepted(a, tx)
      PROVE  NoThirdParty'
  BY <1>2, <1>3, <1>4, <1>5, ExecuteIsCall DEF MineStep, Transaction
<1> QED  BY <1>1, <1>5, OthersStable

-----------------------------------------------------------------------------

Holds(c) == DepositHolds(c) /\ ReleaseHolds(c) /\ RefundHolds(c)

LEMMA HoldsSame ==
  ASSUME NEW c \in Callers, Stable, call'[c] = call[c], Holds(c)
  PROVE  Holds(c)'
<1>1. DepositHolds(c)'
  BY DEF Holds, DepositHolds, Stable, mayDeposit, mayTransferFrom, escrowExists
<1>2. ReleaseHolds(c)'
  BY DEF Holds, ReleaseHolds, Withdrawn, Stable, mayWithdraw, mayTransfer, escrowExists, releaseExists
<1>3. RefundHolds(c)'
  BY DEF Holds, RefundHolds, PaidOut, Stable
<1> QED  BY <1>1, <1>2, <1>3 DEF Holds

\* The caller's own steps.
LEMMA BeginHolds ==
  ASSUME NEW c \in Callers, NEW op \in Operations, NEW e \in EscrowIds, NEW n \in Amounts,
         NEW r \in ReleaseIds, BeginStep(c, op, e, n, r)
  PROVE  Holds(c)'
BY DEF BeginStep, Began, Holds, DepositHolds, ReleaseHolds, RefundHolds

LEMMA SendHolds ==
  ASSUME Typed, ChainInv, Shaped, NoThirdParty, NEW c \in Callers, SendStep(c), Holds(c)
  PROVE  Holds(c)'
<1> DEFINE k == call[c]
           a == AccountOf[c]
<1>1. /\ Sent(c) /\ Stable /\ k.phase = "send" /\ k.result = "none" /\ Accepted(a, NextTx(c))
      /\ k.op \in Operations /\ k.step \in 1..Len(Script(k.op)) /\ k.step \in {1, 2}
      /\ NextTx(c).kind = Script(k.op)[k.step] /\ NextTx(c).escrow = k.escrow
      /\ NextTx(c).release = k.release /\ NextTx(c).amount = k.amount
  BY SendSees DEF SendStep, Stable, vars, Shaped, Shape
<1>2. DepositHolds(c)'
  <2>1. k.op = "Deposit" /\ k.step = 2 => mayDeposit(a, k.escrow, k.amount)
    BY <1>1, KindOf DEF Accepted
  <2> QED  BY <1>1, <2>1 DEF DepositHolds, Sent, SameArguments, Stable, mayDeposit, mayTransferFrom,
                             escrowExists
<1>3. ReleaseHolds(c)'
  <2>1. ASSUME k.op = "ApproveRelease", k.step = 1 PROVE escrows[k.escrow].buyer = a
    <3>1. mayApproveRelease(a, k.escrow, k.release)
      BY <1>1, <2>1, KindOf DEF Accepted
    <3>2. k.escrow \in EscrowIds /\ a \in Addr
      BY DEF Typed, Call
    <3> QED  BY <3>1, <3>2, AddressAssumption DEF mayApproveRelease, NoThirdParty
  <2>2. ASSUME k.op = "ApproveRelease", k.step = 2
        PROVE  escrows[k.escrow].buyer = a /\ mayWithdraw(k.escrow, k.release)
    BY <1>1, <2>2, KindOf DEF Accepted, Holds, ReleaseHolds
  <2> QED  BY <1>1, <2>1, <2>2 DEF ReleaseHolds, Sent, SameArguments, Stable, mayWithdraw, mayTransfer,
                                   escrowExists, releaseExists, Withdrawn
<1>4. RefundHolds(c)'
  BY <1>1 DEF RefundHolds, Sent
<1> QED  BY <1>2, <1>3, <1>4 DEF Holds

LEMMA EndHolds ==
  ASSUME Typed, Shaped, NEW c \in Callers, EndStep(c) \/ GiveUpStep(c), Holds(c)
  PROVE  Holds(c)'
<1>1. ASSUME NEW res \in {"reverted", "unknown"}, Ended(c, res) PROVE Holds(c)'
  BY <1>1 DEF Ended, Holds, DepositHolds, ReleaseHolds, RefundHolds
<1>2. ASSUME Return(c), Ended(c, ResultOf(c)), Stable PROVE Holds(c)'
  <2> DEFINE k == call[c]
  <2>1. /\ k.phase = "wait" /\ k.receipt # "none" /\ k.step = Len(Script(k.op))
        /\ k.op \in Operations
    BY <1>2 DEF Return, Shaped, Shape
  <2>2. k.op \in {"Deposit", "ApproveRelease"} => k.step = 2
    BY <2>1, ScriptLength
  <2>3. DepositHolds(c)'
    BY <1>2, <2>1, <2>2 DEF Ended, SameArguments, Holds, DepositHolds
  <2>4. ReleaseHolds(c)'
    BY <1>2, <2>1, <2>2 DEF Ended, SameArguments, Holds, ReleaseHolds, Withdrawn, Stable
  <2>5. RefundHolds(c)'
    BY <1>2, <2>1 DEF Ended, SameArguments, Holds, RefundHolds, PaidOut, Stable
  <2> QED  BY <2>3, <2>4, <2>5 DEF Holds
<1> QED  BY <1>1, <1>2 DEF EndStep, GiveUpStep, Stable, vars

LEMMA ContinueHolds ==
  ASSUME Shaped, NEW c \in Callers, ContinueStep(c), Holds(c)
  PROVE  Holds(c)'
BY DEF ContinueStep, Continue, Continued, SameArguments, vars, Shaped, Shape,
       Holds, DepositHolds, ReleaseHolds, RefundHolds

\* The transaction a caller waits for is mined.
LEMMA MineOwnHolds ==
  ASSUME Typed, ChainInv, Onward, Shaped, Coupled, MempoolPromising, NEW a \in Addr,
         NEW tx \in Transaction, MineStep(a, tx), tx.by # NoCaller, Holds(tx.by)
  PROVE  Holds(tx.by)'
<1> DEFINE c == tx.by
           k == call[c]
<1>1. /\ c \in Callers /\ AccountOf[c] = a /\ k.phase = "wait" /\ k.receipt = "none"
      /\ k.op \in Operations /\ k.step \in 1..Len(Script(k.op))
      /\ tx.kind = Script(k.op)[k.step] /\ tx.escrow = k.escrow /\ tx.release = k.release
      /\ tx.amount = k.amount /\ k.escrow \in EscrowIds /\ k.release \in ReleaseIds
      /\ k.result = "none"
  BY AwaitedKind, IdTypes DEF Shaped, Shape
<1>2. Promising(a, tx)
  BY DEF MineStep, MempoolPromising
<1>3. \/ Accepted(a, tx) /\ Execute(a, tx) /\ Receives(tx, "success")
      \/ ~Accepted(a, tx) /\ Receives(tx, "reverted")
  BY DEF MineStep, Delivered
<1>4. /\ call'[c].op = k.op /\ call'[c].phase = k.phase /\ call'[c].step = k.step
      /\ call'[c].result = "none"
      /\ Accepted(a, tx) => call'[c].receipt = "success"
      /\ tx.kind # "createEscrow" => call'[c].escrow = k.escrow
      /\ tx.kind # "requestRelease" => call'[c].release = k.release
  BY <1>1, <1>3 DEF Receives
<1>5. DepositHolds(c)'
  <2>1. ASSUME k.op = "Deposit", k.step = 2, Exclusive(a) PROVE call'[c].receipt = "success"
    <3>1. mayDeposit(a, tx.escrow, tx.amount) /\ tx.kind = "deposit"
      BY <1>1, <2>1, KindOf DEF Holds, DepositHolds
    <3> QED  BY <1>4, <3>1 DEF Accepted
  <2> QED  BY <1>1, <1>4, <2>1 DEF DepositHolds
<1>6. ReleaseHolds(c)'
  <2>1. SUFFICES ASSUME k.op = "ApproveRelease" PROVE ReleaseHolds(c)'
    BY <1>4 DEF ReleaseHolds
  <2>2. call'[c].escrow = k.escrow /\ call'[c].release = k.release
    <3>1. tx.kind = "approveRelease" \/ tx.kind = "withdraw"
      BY <1>1, <2>1, KindOf
    <3> QED  BY <1>4, <3>1
  <2>0. PICK e \in EscrowIds, r \in ReleaseIds : e = k.escrow /\ r = k.release
    BY <1>1
  <2>3. escrows'[k.escrow].buyer = a
    BY <1>1, <2>1, Lasting DEF Holds, ReleaseHolds
  <2>4. ASSUME k.step = 2 PROVE Withdrawn(e, r)'
    <3>1. tx.kind = "withdraw"
      BY <1>1, <2>1, <2>4, KindOf
    <3>2. CASE Withdrawn(e, r)
      BY <3>2, Lasting
    <3>3. CASE mayWithdraw(e, r)
      <4>1. withdraw(e, r)
        BY <1>1, <1>3, <2>0, <3>1, <3>3 DEF Accepted, Execute
      <4>2. releases \in [EscrowIds -> [ReleaseIds -> ReleaseRequest]]
        BY DEF ChainInv, IInv, TypeOK
      <4>3. releases[e][r] \in ReleaseRequest
        BY <4>2
      <4>4. releases'[e][r] = [releases[e][r] EXCEPT !.state = "Withdrawn"]
        BY <4>1, <4>2 DEF withdraw
      <4> QED  BY <4>3, <4>4 DEF Withdrawn, ReleaseRequest
    <3> QED  BY <1>1, <2>0, <2>1, <2>4, <3>2, <3>3 DEF Holds, ReleaseHolds
  <2> QED  BY <1>1, <1>4, <2>0, <2>2, <2>3, <2>4 DEF ReleaseHolds, Withdrawn
<1>7. RefundHolds(c)'
  <2>1. SUFFICES ASSUME k.op = "ClaimRefund" PROVE RefundHolds(c)'
    BY <1>4 DEF RefundHolds
  <2>2. tx.kind = "claimRefund" /\ call'[c].escrow = k.escrow
    BY <1>1, <1>4, <2>1, KindOf
  <2>3. /\ escrows[k.escrow].buyer = a /\ now >= escrows[k.escrow].timeout
        /\ escrows[k.escrow].balance # 0 \/ PaidOut(k.escrow)
    BY <1>1, <1>2, <2>2 DEF Promising
  <2>4. CASE PaidOut(k.escrow)
    <3>0. PICK e \in EscrowIds : e = k.escrow
      BY <1>1
    <3>1. PaidOut(e)'
      BY <2>4, <3>0, Lasting
    <3> QED  BY <1>4, <2>2, <3>0, <3>1 DEF RefundHolds, PaidOut
  <2>5. CASE escrows[k.escrow].balance # 0
    <3> DEFINE e == k.escrow
    <3>1. escrowExists(e) /\ escrows[e] \in Escrow
      BY <1>1, <2>3, AddressAssumption DEF escrowExists, ChainInv, IInv, TypeOK
    <3>2. escrows[e].balance <= wallet[escrows[e].token][EscrowAddr]
      BY <1>1, <3>1, BalanceCovered DEF ChainInv
    <3>3. escrows[e].token \in Tokens /\ wallet[escrows[e].token][EscrowAddr] \in Nat
      <4>1. escrows[e].token \in Tokens
        BY <1>1, <3>1 DEF ChainInv, IInv, WellFormed
      <4>2. wallet \in [Tokens -> [Holders -> Nat]] /\ EscrowAddr \in Holders
        BY DEF ChainInv, IInv, TypeOK, TokenTypeOK, Holders
      <4> QED  BY <4>1, <4>2
    <3>4. wallet[escrows[e].token][EscrowAddr] >= escrows[e].balance
      BY <3>1, <3>2, <3>3 DEF Escrow
    <3>5. mayClaimRefund(a, e)
      BY <2>3, <2>5, <3>1, <3>4 DEF mayClaimRefund, mayTransfer, timeoutElapsed, escrowExists
    <3>6. claimRefund(a, tx.escrow)
      BY <1>1, <1>3, <2>2, <3>5 DEF Accepted, Execute
    <3>7. epoch'[e] = escrows[e].nextReleaseId /\ escrows[e].nextReleaseId >= 1
      BY <1>1, <3>1, <3>6 DEF claimRefund, ChainInv, IInv, WellFormed, TypeOK
    <3>8. escrows[e].nextReleaseId \in Nat
      BY <3>1, BoundAssumption DEF Escrow
    <3>9. epoch'[e] > 0
      BY <3>7, <3>8
    <3> QED  BY <1>4, <2>2, <3>9 DEF RefundHolds, PaidOut
  <2> QED  BY <2>3, <2>4, <2>5
<1> QED  BY <1>5, <1>6, <1>7 DEF Holds

\* A transaction of somebody else is mined.
LEMMA MineOtherHolds ==
  ASSUME Typed, ChainInv, Onward, Shaped, Coupled, MempoolPromising, Turns, LastOwn, TurnsTaken,
         NEW a \in Addr, NEW tx \in Transaction, MineStep(a, tx), Accepted(a, tx),
         NEW c \in Callers, c # tx.by, Holds(c)
  PROVE  Holds(c)'
<1> DEFINE k == call[c]
           b == AccountOf[c]
<1>1. /\ call'[c] = k /\ Execute(a, tx) /\ Promising(a, tx)
      /\ k.escrow \in EscrowIds /\ k.release \in ReleaseIds /\ b \in Addr /\ k \in Call
  BY IdTypes DEF MineStep, Delivered, Others, MempoolPromising, Typed
<1>2. ASSUME Exclusive(b), k.phase = "wait", k.receipt = "none", k.step = 2 PROVE b # a
  <2>1. SUFFICES ASSUME b = a PROVE FALSE
    OBVIOUS
  <2>2. Len(mempool[a]) = 1 /\ mempool[a][1].by = c
    BY <1>2, <2>1 DEF LastOwn, LastIsOwn
  <2> QED  BY <2>2 DEF MineStep
<1>3. DepositHolds(c)'
  <2>1. ASSUME Exclusive(b), k.phase = "wait", k.receipt = "none", k.step = 2,
               mayDeposit(b, k.escrow, k.amount)
        PROVE  mayDeposit(b, k.escrow, k.amount)'
    <3> DEFINE e == k.escrow
               t == escrows[e].token
    <3>1. /\ escrowExists(e) /\ k.amount # 0 /\ wallet[t][b] >= k.amount /\ allowance[t][b] >= k.amount
      BY <2>1 DEF mayDeposit, mayTransferFrom
    <3>2. escrowExists(e)' /\ escrows'[e].token = t
      BY <1>1, <3>1 DEF Onward, Grows, SameParties, escrowExists
    <3>3. t \in Tokens
      BY <1>1, <3>1 DEF ChainInv, IInv, WellFormed
    <3>4. wallet'[t][b] >= wallet[t][b] /\ allowance'[t][b] >= allowance[t][b]
      BY <1>1, <1>2, <2>1, <3>3, OthersPay
    <3>5. /\ wallet[t][b] \in Nat /\ wallet'[t][b] \in Nat
          /\ allowance[t][b] \in Nat /\ allowance'[t][b] \in Nat
      <4>1. /\ wallet \in [Tokens -> [Holders -> Nat]] /\ wallet' \in [Tokens -> [Holders -> Nat]]
            /\ allowance \in [Tokens -> [Addr -> Nat]] /\ allowance' \in [Tokens -> [Addr -> Nat]]
        BY DEF Onward, ChainInv, IInv, TypeOK, TokenTypeOK
      <4>2. b \in Holders /\ b \in Addr
        BY <1>1 DEF Holders
      <4> HIDE DEF t
      <4> QED  BY <3>3, <4>1, <4>2
    <3>6. k.amount \in Nat
      <4>1. \A n \in Amounts \cup {0} : n \in Nat
        BY AmountAssumption
      <4> QED  BY <1>1, <4>1 DEF Call
    <3>7. wallet'[t][b] >= k.amount /\ allowance'[t][b] >= k.amount
      <4>1. ASSUME NEW x \in Nat, NEW y \in Nat, NEW n \in Nat, y >= x, x >= n PROVE y >= n
        BY <4>1
      <4> HIDE DEF t
      <4> QED  BY <3>1, <3>4, <3>5, <3>6, <4>1
    <3> QED  BY <1>1, <3>1, <3>2, <3>7 DEF mayDeposit, mayTransferFrom
  <2> QED  BY <1>1, <2>1 DEF Holds, DepositHolds, mayDeposit, mayTransferFrom, escrowExists
<1>4. ReleaseHolds(c)'
  <2>1. SUFFICES ASSUME k.op = "ApproveRelease" PROVE ReleaseHolds(c)'
    BY <1>1 DEF ReleaseHolds
  <2> DEFINE e == k.escrow
             r == k.release
  <2>2. escrows[e].buyer = b => escrows'[e].buyer = b
    BY <1>1, Lasting
  <2>3. Withdrawn(e, r) => releases'[e][r].state = "Withdrawn"
    BY <1>1, Lasting DEF Withdrawn
  <2>4. ASSUME k.phase = "wait", k.receipt = "none", k.step = 2, mayWithdraw(e, r)
        PROVE  mayWithdraw(call[c].escrow, call[c].release)'
    <3>1. "ApproveRelease" \in OperationsOf[c] /\ escrows[e].buyer = b
      BY <2>1, <2>4 DEF Shaped, Shape, Holds, ReleaseHolds
    <3>2. Exclusive(b)
      BY <3>1 DEF TurnsTaken
    <3>3. b # a
      BY <1>2, <2>4, <3>2
    <3>4. PICK f \in EscrowIds, q \in ReleaseIds : f = e /\ q = r
      BY <1>1
    <3>5. mayWithdraw(f, q)'
      BY <1>1, <2>4, <3>1, <3>3, <3>4, OthersLeaveRelease
    <3> QED  BY <1>1, <3>4, <3>5 DEF mayWithdraw, mayTransfer, escrowExists, releaseExists
  <2> QED  BY <1>1, <2>1, <2>2, <2>3, <2>4 DEF Holds, ReleaseHolds, Withdrawn
<1>5. RefundHolds(c)'
  <2>1. PICK e \in EscrowIds : e = k.escrow
    BY <1>1
  <2>2. PaidOut(e) => PaidOut(e)'
    BY Lasting
  <2> QED  BY <1>1, <2>1, <2>2 DEF Holds, RefundHolds, PaidOut
<1> QED  BY <1>3, <1>4, <1>5 DEF Holds

LEMMA HoldsNext ==
  ASSUME Typed, ChainInv, Onward, Shaped, Coupled, MempoolPromising, Turns, LastOwn, NoThirdParty,
         TurnsTaken, Step, \A c \in Callers : Holds(c)
  PROVE  \A c \in Callers : Holds(c)'
<1>1. ASSUME NEW c \in Callers, Stable, Others(c), Holds(c)' PROVE \A d \in Callers : Holds(d)'
  BY <1>1, HoldsSame DEF Others
<1>2. ASSUME NEW c \in Callers, NEW op \in Operations, NEW e \in EscrowIds, NEW n \in Amounts,
             NEW r \in ReleaseIds, BeginStep(c, op, e, n, r)
      PROVE  \A d \in Callers : Holds(d)'
  BY <1>1, <1>2, BeginHolds DEF BeginStep, Began, Stable, vars
<1>3. ASSUME NEW c \in Callers, SendStep(c) PROVE \A d \in Callers : Holds(d)'
  BY <1>1, <1>3, SendHolds DEF SendStep, Sent, Stable, vars
<1>4. ASSUME NEW c \in Callers, EndStep(c) \/ GiveUpStep(c) PROVE \A d \in Callers : Holds(d)'
  BY <1>1, <1>4, EndHolds DEF EndStep, GiveUpStep, Ended, Stable, vars
<1>5. ASSUME NEW c \in Callers, ContinueStep(c) PROVE \A d \in Callers : Holds(d)'
  BY <1>1, <1>5, ContinueHolds DEF ContinueStep, Continued, Stable, vars
<1>6. ASSUME NEW a \in Addr, NEW tx \in Transaction, MineStep(a, tx), NEW c \in Callers
      PROVE  Holds(c)'
  <2>1. CASE c = tx.by
    BY <1>6, <2>1, MineOwnHolds, CallerAssumption
  <2>2. CASE c # tx.by /\ Accepted(a, tx)
    BY <1>6, <2>2, MineOtherHolds
  <2>3. CASE c # tx.by /\ ~Accepted(a, tx)
    BY <1>6, <2>3, HoldsSame DEF MineStep, Delivered, Others, Stable, vars
  <2> QED  BY <2>1, <2>2, <2>3
<1>7. CASE IdleStep
  BY <1>7, HoldsSame DEF IdleStep, Quiet, Stable
<1> QED  BY <1>2, <1>3, <1>4, <1>5, <1>6, <1>7 DEF Step

-----------------------------------------------------------------------------

\* What the reports of the adapter rest on.
ReportInv ==
  /\ IdInv /\ Turns /\ LastOwn /\ MempoolPromising /\ NoThirdParty
  /\ \A c \in Callers : Holds(c)

LEMMA ReportInvNext ==
  ASSUME TurnsTaken, BuyerApproves
  PROVE  ReportInv /\ [AdapterNext]_adapterVars => ReportInv'
<1> SUFFICES ASSUME ReportInv, [AdapterNext]_adapterVars PROVE ReportInv'
  OBVIOUS
<1>1. Step /\ Typed' /\ Onward
  BY NextIsStep DEF ReportInv, IdInv
<1>2. IdInv'
  BY IdInvNext DEF ReportInv
<1>3. Turns' /\ LastOwn'
  BY <1>1, TurnsNext, LastNext DEF ReportInv, IdInv
<1>4. MempoolPromising'
  BY <1>1, MempoolPromisingNext DEF ReportInv, IdInv, Holds
<1>5. NoThirdParty'
  BY <1>1, NoThirdPartyNext DEF ReportInv, IdInv
<1>6. \A c \in Callers : Holds(c)'
  BY <1>1, HoldsNext DEF ReportInv, IdInv
<1> QED  BY <1>2, <1>3, <1>4, <1>5, <1>6 DEF ReportInv

LEMMA InitReport == AdapterInit => ReportInv
<1> SUFFICES ASSUME AdapterInit PROVE ReportInv
  OBVIOUS
<1>1. IdInv
  BY InitIds
<1>2. \A c \in Callers : call[c].phase = "idle" /\ call[c].op = "none" /\ call[c].result = "none"
  BY InitCalls DEF NoCall
<1>3. Turns /\ LastOwn /\ \A c \in Callers : Holds(c)
  BY <1>2 DEF Turns, LastOwn, LastIsOwn, Holds, DepositHolds, ReleaseHolds, RefundHolds
<1>4. MempoolPromising
  BY InitCalls DEF MempoolPromising
<1>5. NoThirdParty
  BY DEF AdapterInit, ContractInit, NoEscrow, NoThirdParty
<1> QED  BY <1>1, <1>3, <1>4, <1>5 DEF ReportInv

LEMMA ReportsAreTrue ==
  ASSUME TurnsTaken
  PROVE  ReportInv => OkIsTrue
<1> SUFFICES ASSUME ReportInv PROVE OkIsTrue
  OBVIOUS
<1>1. ASSUME NEW c \in Callers, Succeeded(c, "Deposit") PROVE call[c].receipt = "success"
  <2>1. "Deposit" \in OperationsOf[c]
    BY <1>1 DEF Succeeded, ReportInv, IdInv, Shaped, Shape
  <2>2. Exclusive(AccountOf[c])
    BY <2>1 DEF TurnsTaken
  <2> QED  BY <1>1, <2>2 DEF Succeeded, ReportInv, Holds, DepositHolds
<1>2. ASSUME NEW c \in Callers, Succeeded(c, "ApproveRelease")
      PROVE  releases[call[c].escrow][call[c].release].state = "Withdrawn"
  BY <1>2 DEF Succeeded, ReportInv, Holds, ReleaseHolds, Withdrawn
<1>3. ASSUME NEW c \in Callers, Succeeded(c, "ClaimRefund") PROVE PaidOut(call[c].escrow)
  BY <1>3 DEF Succeeded, ReportInv, Holds, RefundHolds
<1> QED  BY <1>1, <1>2, <1>3 DEF OkIsTrue, DepositAddsFunds

\* What an operation reports has happened, although no receipt status is ever read: when the
\* callers of an account that pays, approves or claims back take turns (as serializedEscrow
\* makes them) and no third party can approve a release, the estimation decides, and nothing
\* mined before the transaction changes its outcome.
THEOREM OkIsTrueInTurns ==
  ASSUME TurnsTaken, BuyerApproves
  PROVE  AdapterSpec => []OkIsTrue
<1>1. AdapterInit => ReportInv
  BY InitReport
<1>2. ReportInv /\ [AdapterNext]_adapterVars => ReportInv'
  BY ReportInvNext
<1>3. ReportInv => OkIsTrue
  BY ReportsAreTrue
<1> QED  BY <1>1, <1>2, <1>3, PTL DEF AdapterSpec
===============================================================================
