-------------------------- MODULE MCEVMEscrowAdapter --------------------------
(***************************************************************************)
(* EVMEscrowAdapter for TLC: the callers of a buyer's and of a seller's    *)
(* process, over one token and escrows between those two parties.          *)
(***************************************************************************)
EXTENDS EVMEscrowAdapter

CONSTANTS Buyer, Seller, BuyerCallers,
          w1, w2, s1, s2 \* two callers of the buyer and two of the seller

MCTerms ==
  [buyer: {Buyer}, seller: {Seller}, arbiter: {ZeroAddr}, token: {Token}, timeout: {MaxTime}]

MCAccountOf == [c \in Callers |-> IF c \in BuyerCallers THEN Buyer ELSE Seller]

\* The second worker of the buyer creates escrows and pays into them, and no more.
MCOperationsOf ==
  [c \in Callers |->
     CASE c = w1 -> {"CreateEscrow", "Deposit", "ApproveRelease", "ClaimRefund"}
       [] c = w2 -> {"CreateEscrow", "Deposit"}
       [] OTHER -> {"RequestRelease"}]

\* The deployments: one worker of the buyer that uses and repeats every operation with one of
\* the seller, two of the seller that request releases, two of the buyer.
MCLimits(first, second, third, fourth) ==
  [c \in Callers |-> CASE c = w1 -> first [] c = w2 -> second [] c = s1 -> third [] c = s2 -> fourth]

MCCallLimits == {MCLimits(4, 0, 1, 0), MCLimits(0, 3, 1, 1), MCLimits(2, 2, 0, 0)}
MCTwoWorkers == {MCLimits(2, 2, 0, 0)}
=============================================================================
