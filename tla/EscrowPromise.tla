----------------------------- MODULE EscrowPromise ----------------------------
(***************************************************************************)
(* What the EscrowAdapter interface (internal/payment/escrow.go) promises  *)
(* to a buyer and a seller, whatever holds the money: a claim is granted   *)
(* only on money nobody has claimed, is paid once and whole from the       *)
(* escrow it was granted on, and a refund takes what is left only once it  *)
(* is due, and voids the claims it takes the money of.                     *)
(***************************************************************************)
EXTENDS Integers, Functions

CONSTANTS Escrows, \* the escrows there can be
          Claims,  \* the releases that can be asked for
          Money    \* the amounts that are moved

VARIABLES purse, \* purse[e]: what escrow e holds
          claim, \* claim[c]: the claim c: where it is granted, how much, and its status
          due    \* the escrows whose refund is due

promiseVars == <<purse, claim, due>>

\* A claim nobody asked for, and one that was paid or voided: it keeps nothing.
Free == [status |-> "free", escrow |-> 0, amount |-> 0]
Spent == [status |-> "spent", escrow |-> 0, amount |-> 0]

Owed(e) == {c \in Claims : claim[c].status = "owed" /\ claim[c].escrow = e}

Unclaimed(e) == purse[e] - SumFunctionOnSet([c \in Claims |-> claim[c].amount], Owed(e))

PromiseInit ==
  /\ purse = [e \in Escrows |-> 0]
  /\ claim = [c \in Claims |-> Free]
  /\ due \in SUBSET Escrows

Pay(e, n) ==
  /\ purse' = [purse EXCEPT ![e] = @ + n]
  /\ UNCHANGED <<claim, due>>

Grant(c, e, n) ==
  /\ claim[c] = Free
  /\ n <= Unclaimed(e)
  /\ claim' = [claim EXCEPT ![c] = [status |-> "owed", escrow |-> e, amount |-> n]]
  /\ UNCHANGED <<purse, due>>

Settle(c) ==
  /\ claim[c].status = "owed"
  /\ purse' = [purse EXCEPT ![claim[c].escrow] = @ - claim[c].amount]
  /\ claim' = [claim EXCEPT ![c] = Spent]
  /\ UNCHANGED due

Refund(e) ==
  /\ e \in due
  /\ purse' = [purse EXCEPT ![e] = 0]
  /\ claim' = [c \in Claims |-> IF c \in Owed(e) THEN Spent ELSE claim[c]]
  /\ UNCHANGED due

TimePasses ==
  /\ due' \in SUBSET Escrows
  /\ UNCHANGED <<purse, claim>>

PromiseNext ==
  \/ TimePasses
  \/ \E e \in Escrows, n \in Money : Pay(e, n) \/ \E c \in Claims : Grant(c, e, n)
  \/ \E c \in Claims : Settle(c)
  \/ \E e \in Escrows : Refund(e)

PromiseSpec == PromiseInit /\ [][PromiseNext]_promiseVars
=============================================================================
