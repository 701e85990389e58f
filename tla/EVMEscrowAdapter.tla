--------------------------- MODULE EVMEscrowAdapter ---------------------------
(***************************************************************************)
(* impl/golang/internal/payment/escrow_evm.go over the NeuronEscrow        *)
(* contract.  An operation of the adapter is a script of transactions, and *)
(* each transaction is estimated against the latest block, submitted, and  *)
(* waited for.  Other transactions may be mined between any two of those   *)
(* moments.  WaitMined returns a receipt whatever its status, and the      *)
(* adapter never looks at the status.                                      *)
(*                                                                         *)
(* A caller is a goroutine of a buyer or a seller process.  Callers with   *)
(* one account share a key, as the workers of edgeapp's RunBuyer do; those *)
(* of an account in Serialized share a mutex too (serializedEscrow in      *)
(* cmd/multistream-buyer).                                                 *)
(***************************************************************************)
EXTENDS NeuronEscrow, Sequences, FiniteSets

CONSTANTS Token,        \* the ERC-20 the adapter is configured with
          Callers,      \* goroutines that use an adapter
          NoCaller,
          AccountOf,    \* AccountOf[c]: the account whose key c signs with
          OperationsOf, \* OperationsOf[c]: the operations c uses
          Serialized,   \* the accounts whose callers take turns
          CallLimits    \* the choices of how many calls each caller makes, a bound

ASSUME CallerAssumption ==
  /\ Token \in Tokens
  /\ NoCaller \notin Callers
  /\ AccountOf \in [Callers -> Addr]
  /\ Serialized \subseteq Addr
  /\ CallLimits \subseteq [Callers -> Nat]
  /\ IsFiniteSet(Payers)

\* The bounds leave room for the id 1, which stands for none in a call that has no id yet.
ASSUME IdAssumption == MaxEscrows > 0 /\ MaxReleases > 0

Operations == {"CreateEscrow", "Deposit", "RequestRelease", "ApproveRelease", "ClaimRefund"}

ASSUME OperationAssumption == OperationsOf \in [Callers -> SUBSET Operations]

VARIABLES call,   \* call[c]: the operation c runs, or its last one once it has returned
          calls,  \* calls[c]: how many operations c may still begin
          mempool \* mempool[a]: a's submitted transactions, in nonce order

adapterVars == <<vars, call, calls, mempool>>

\* The transactions an operation sends, in order.
Script(op) ==
  CASE op = "CreateEscrow"   -> <<"createEscrow">>
    [] op = "Deposit"        -> <<"approve", "deposit">>
    [] op = "RequestRelease" -> <<"requestRelease">>
    [] op = "ApproveRelease" -> <<"approveRelease", "withdraw">>
    [] op = "ClaimRefund"    -> <<"claimRefund">>

Phase == {"idle", "send", "wait"}
Receipt == {"none", "success", "reverted"}
Result == {"none", "ok", "reverted", "unknown"}

Call == [op: Operations \cup {"none"}, phase: Phase, step: 1..2, escrow: EscrowIds,
         amount: Amounts \cup {0}, release: ReleaseIds, receipt: Receipt, result: Result]

Kind == {"createEscrow", "approve", "deposit", "requestRelease", "approveRelease", "withdraw",
         "claimRefund"}

Transaction == [by: Callers \cup {NoCaller}, kind: Kind, escrow: EscrowIds,
                amount: Amounts \cup {0}, release: ReleaseIds]

NoCall == [op |-> "none", phase |-> "idle", step |-> 1, escrow |-> 1, amount |-> 0,
           release |-> 1, receipt |-> "none", result |-> "none"]

AdapterTypeOK ==
  /\ TypeOK
  /\ call \in [Callers -> Call]
  /\ \E limit \in CallLimits : \A c \in Callers : calls[c] \in 0..limit[c]
  /\ mempool \in [Addr -> Seq(Transaction)]
  /\ \A a \in Addr : \A i, j \in DOMAIN mempool[a] :
       LET c == mempool[a][i].by IN
       c # NoCaller => AccountOf[c] = a /\ (mempool[a][j].by = c => i = j)

\* The payers hold all the tokens there will be: minting is not the adapter's business.
AdapterInit ==
  /\ ContractInit
  /\ wallet = [t \in Tokens |-> [a \in Holders |-> IF a \in Payers THEN MaxSupply ELSE 0]]
  /\ allowance = [t \in Tokens |-> [a \in Addr |-> 0]]
  /\ totalSupply = [t \in Tokens |-> MaxSupply * Cardinality(Payers)]
  /\ call = [c \in Callers |-> NoCall]
  /\ calls \in CallLimits
  /\ mempool = [a \in Addr |-> <<>>]

-----------------------------------------------------------------------------

\* What a transaction of account a does when it is mined.
Execute(a, tx) ==
  \/ tx.kind = "createEscrow" /\ \E terms \in EscrowTerms : createEscrow(terms)
  \/ /\ tx.kind = "approve"
     /\ approve(Token, a, tx.amount)
     /\ UNCHANGED <<escrowVars, now>>
  \/ tx.kind = "deposit" /\ deposit(a, tx.escrow, tx.amount)
  \/ tx.kind = "requestRelease" /\ requestRelease(a, tx.escrow, tx.amount, a)
  \/ tx.kind = "approveRelease" /\ approveRelease(a, tx.escrow, tx.release)
  \/ tx.kind = "withdraw" /\ withdraw(tx.escrow, tx.release)
  \/ tx.kind = "claimRefund" /\ claimRefund(a, tx.escrow)

\* Would the transaction succeed on the latest block?
Accepted(a, tx) ==
  \/ tx.kind = "createEscrow" /\ \E terms \in EscrowTerms : mayCreateEscrow(terms)
  \/ tx.kind = "approve"
  \/ tx.kind = "deposit" /\ mayDeposit(a, tx.escrow, tx.amount)
  \/ tx.kind = "requestRelease" /\ mayRequestRelease(a, tx.escrow, tx.amount)
  \/ tx.kind = "approveRelease" /\ mayApproveRelease(a, tx.escrow, tx.release)
  \/ tx.kind = "withdraw" /\ mayWithdraw(tx.escrow, tx.release)
  \/ tx.kind = "claimRefund" /\ mayClaimRefund(a, tx.escrow)

\* Faulty variant: txOpts sets a GasLimit, and nothing is estimated.
estimatedAlways(a, tx) == TRUE

\* txOpts leaves GasLimit at 0, so bind estimates the gas (eth_estimateGas) before it sends.
Estimated(a, tx) == Accepted(a, tx)

\* Faulty variant: the mutex is not taken.
neverBusy(a) == FALSE

Busy(a) == \E c \in Callers : AccountOf[c] = a /\ call[c].phase # "idle"

Begin(c, op, e, n, r) ==
  /\ call[c].phase = "idle"
  /\ calls[c] > 0
  /\ op \in OperationsOf[c]
  /\ r # 1 => op = "ApproveRelease" \* the others have no release as an argument
  /\ AccountOf[c] \in Serialized => ~Busy(AccountOf[c])
  /\ call' = [call EXCEPT ![c] = [NoCall EXCEPT !.op = op, !.phase = "send", !.escrow = e,
                                                !.amount = n, !.release = r]]
  /\ calls' = [calls EXCEPT ![c] = @ - 1]
  /\ UNCHANGED <<vars, mempool>>

NextTx(c) == [by |-> c, kind |-> Script(call[c].op)[call[c].step], escrow |-> call[c].escrow,
              amount |-> call[c].amount, release |-> call[c].release]

Send(c) ==
  LET a == AccountOf[c] IN
  /\ call[c].phase = "send"
  /\ Estimated(a, NextTx(c))
  /\ mempool' = [mempool EXCEPT ![a] = Append(@, NextTx(c))]
  /\ call' = [call EXCEPT ![c].phase = "wait", ![c].receipt = "none"]
  /\ UNCHANGED <<vars, calls>>

\* The estimation reverts, and the operation returns the error.
SendReverts(c) ==
  /\ call[c].phase = "send"
  /\ ~Estimated(AccountOf[c], NextTx(c))
  /\ call' = [call EXCEPT ![c].phase = "idle", ![c].result = "reverted"]
  /\ UNCHANGED <<vars, calls, mempool>>

\* The node is unreachable or the context is done: the operation returns an error, and a
\* transaction it was waiting for stays in the mempool with nobody waiting for it.
GiveUp(c) ==
  LET orphan(tx) == IF tx.by = c THEN [tx EXCEPT !.by = NoCaller] ELSE tx IN
  /\ call[c].phase \in {"send", "wait"}
  /\ call' = [call EXCEPT ![c].phase = "idle", ![c].result = "unknown"]
  /\ mempool' = [a \in Addr |-> [i \in DOMAIN mempool[a] |-> orphan(mempool[a][i])]]
  /\ UNCHANGED <<vars, calls>>

\* The receipt of a mined transaction, with the ids its events carry.
Mined(tx, status) ==
  [call EXCEPT ![tx.by].receipt = status,
               ![tx.by].escrow = IF status = "success" /\ tx.kind = "createEscrow"
                                 THEN nextEscrowId ELSE @,
               ![tx.by].release = IF status = "success" /\ tx.kind = "requestRelease"
                                  THEN escrows[tx.escrow].nextReleaseId ELSE @]

Mine(a) ==
  LET tx == Head(mempool[a])
      status == IF Accepted(a, tx) THEN "success" ELSE "reverted"
  IN /\ mempool[a] # <<>>
     /\ status = "success" => Execute(a, tx)
     /\ status = "reverted" => UNCHANGED vars
     /\ mempool' = [mempool EXCEPT ![a] = Tail(@)]
     /\ call' = IF tx.by = NoCaller THEN call ELSE Mined(tx, status)
     /\ UNCHANGED calls

\* Faulty variant: a step is taken only after a successful one, and nothing after another.
continueOnSuccess(c) ==
  /\ call[c].phase = "wait"
  /\ call[c].receipt = "success"
  /\ call[c].step < Len(Script(call[c].op))
  /\ call' = [call EXCEPT ![c].phase = "send", ![c].step = @ + 1, ![c].receipt = "none"]
  /\ UNCHANGED <<vars, calls, mempool>>

\* WaitMined returns with steps left in the script.
Continue(c) ==
  /\ call[c].phase = "wait"
  /\ call[c].receipt # "none"
  /\ call[c].step < Len(Script(call[c].op))
  /\ call' = [call EXCEPT ![c].phase = "send", ![c].step = @ + 1, ![c].receipt = "none"]
  /\ UNCHANGED <<vars, calls, mempool>>

\* CreateEscrow and RequestRelease need the event of a successful transaction; the other
\* operations report success for any receipt.
ResultOf(c) ==
  IF call[c].op \in {"CreateEscrow", "RequestRelease"} /\ call[c].receipt = "reverted"
  THEN "reverted" ELSE "ok"

\* Faulty variant: the ids are read from the contract's counters instead of the events.
returnLatestIds(c) ==
  /\ call[c].phase = "wait"
  /\ call[c].receipt # "none"
  /\ call[c].step = Len(Script(call[c].op))
  /\ call' = [call EXCEPT
       ![c].phase = "idle", ![c].result = ResultOf(c),
       ![c].escrow = IF call[c].op = "CreateEscrow" THEN nextEscrowId - 1 ELSE @,
       ![c].release = IF call[c].op = "RequestRelease"
                      THEN escrows[call[c].escrow].nextReleaseId - 1 ELSE @]
  /\ UNCHANGED <<vars, calls, mempool>>

Return(c) ==
  /\ call[c].phase = "wait"
  /\ call[c].receipt # "none"
  /\ call[c].step = Len(Script(call[c].op))
  /\ call' = [call EXCEPT ![c].phase = "idle", ![c].result = ResultOf(c)]
  /\ UNCHANGED <<vars, calls, mempool>>

BlockTime == Tick /\ UNCHANGED <<call, calls, mempool>>

CallerStep(c) == Send(c) \/ SendReverts(c) \/ Continue(c) \/ Return(c)

AdapterNext ==
  \/ \E c \in Callers, op \in Operations, e \in EscrowIds, n \in Amounts, r \in ReleaseIds :
       Begin(c, op, e, n, r)
  \/ \E c \in Callers : CallerStep(c) \/ GiveUp(c)
  \/ \E a \in Addr : Mine(a)
  \/ BlockTime

\* The operations run to their end and the chain keeps mining.
AdapterFairness ==
  /\ \A c \in Callers : WF_adapterVars(CallerStep(c))
  /\ \A a \in Addr : WF_adapterVars(Mine(a))

AdapterSpec == AdapterInit /\ [][AdapterNext]_adapterVars /\ AdapterFairness

-----------------------------------------------------------------------------

\* The last operation c has completed was op, and the adapter returned no error.
Succeeded(c, op) == call[c].phase = "idle" /\ call[c].op = op /\ call[c].result = "ok"

\* A Deposit that returns a DepositResult has added its amount to the escrow
\* ("Deposit adds funds to the escrow", escrow_evm.go:108).
DepositAddsFunds ==
  \A c \in Callers : Succeeded(c, "Deposit") => call[c].receipt = "success"

\* Escrow e was refunded, or has paid a release: all that a ClaimRefund that returned no error
\* shows, for a withdrawal mined just before it may have emptied the escrow.
PaidOut(e) == epoch[e] > 0 \/ \E r \in ReleaseIds : releases[e][r].state = "Withdrawn"

\* What an operation reports has happened: the deposit was accepted, the release was
\* paid, the escrow was refunded or a withdrawal of the caller had emptied it.
\* No receipt status is read: it is the estimation and the nonces that ensure it.
OkIsTrue ==
  /\ DepositAddsFunds
  /\ \A c \in Callers : Succeeded(c, "ApproveRelease") =>
       releases[call[c].escrow][call[c].release].state = "Withdrawn"
  /\ \A c \in Callers : Succeeded(c, "ClaimRefund") => PaidOut(call[c].escrow)

\* The id an operation returns is that of its own escrow or release request, whatever
\* else is mined before it returns.
IdsAreOwn ==
  \A c \in Callers : \A d \in Callers \ {c} :
    /\ Succeeded(c, "CreateEscrow") /\ Succeeded(d, "CreateEscrow")
         => call[c].escrow # call[d].escrow
    /\ Succeeded(c, "RequestRelease") /\ Succeeded(d, "RequestRelease")
         => <<call[c].escrow, call[c].release>> # <<call[d].escrow, call[d].release>>

\* Every operation returns: the callers make finitely many calls, and always come to a moment
\* at which none of them is in the middle of one.
OperationsReturn == []<>(\A c \in Callers : call[c].phase = "idle")
=============================================================================
