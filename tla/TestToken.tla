------------------------------ MODULE TestToken ------------------------------
(***************************************************************************)
(* The ERC-20 token of contracts/src/TestToken.sol, as far as NeuronEscrow *)
(* uses it: balances, the allowance each holder has granted to the escrow  *)
(* contract, and the transfers OpenZeppelin's ERC20 implements.  A call    *)
(* that reverts changes nothing, so it is an action that is not enabled.   *)
(***************************************************************************)
EXTENDS Naturals

CONSTANTS Tokens,     \* deployed ERC-20 contracts
          Addr,       \* externally owned accounts
          ZeroAddr,   \* address(0)
          EscrowAddr, \* the address of the NeuronEscrow contract
          Amounts,    \* the amounts a caller may name
          MaxSupply   \* bound on the total supply of each token

ASSUME AddressAssumption ==
  /\ ZeroAddr \notin Addr
  /\ EscrowAddr \notin Addr
  /\ ZeroAddr # EscrowAddr

ASSUME AmountAssumption == Amounts \subseteq Nat

ASSUME SupplyAssumption == MaxSupply \in Nat

VARIABLES wallet,      \* wallet[t][a]: what account a owns of token t
          allowance,   \* allowance[t][a]: what the escrow may still take from a
          totalSupply  \* totalSupply[t]: what has been minted of token t

tokenVars == <<wallet, allowance, totalSupply>>

Holders == Addr \cup {EscrowAddr}

TokenTypeOK ==
  /\ wallet \in [Tokens -> [Holders -> Nat]]
  /\ allowance \in [Tokens -> [Addr -> Nat]]
  /\ totalSupply \in [Tokens -> Nat]

TokenInit ==
  /\ wallet = [t \in Tokens |-> [a \in Holders |-> 0]]
  /\ allowance = [t \in Tokens |-> [a \in Addr |-> 0]]
  /\ totalSupply = [t \in Tokens |-> 0]

mint(t, to, amount) ==
  /\ totalSupply[t] + amount <= MaxSupply
  /\ totalSupply' = [totalSupply EXCEPT ![t] = @ + amount]
  /\ wallet' = [wallet EXCEPT ![t][to] = @ + amount]
  /\ UNCHANGED allowance

\* ERC20.approve(EscrowAddr, amount): overwrites the previous allowance.
approve(t, holder, amount) ==
  /\ allowance' = [allowance EXCEPT ![t][holder] = amount]
  /\ UNCHANGED <<wallet, totalSupply>>

\* One token's balances after a transfer, the sender debited first.
Move(balances, from, to, amount) ==
  [balances EXCEPT ![from] = @ - amount, ![to] = @ + amount]

\* What ERC20 checks before transferFrom(from, EscrowAddr, amount).
mayTransferFrom(t, from, amount) ==
  /\ wallet[t][from] >= amount
  /\ allowance[t][from] >= amount

\* ERC20.transferFrom(from, EscrowAddr, amount) called by the escrow contract.
safeTransferFrom(t, from, amount) ==
  /\ mayTransferFrom(t, from, amount)
  /\ wallet' = [wallet EXCEPT ![t] = Move(wallet[t], from, EscrowAddr, amount)]
  /\ allowance' = [allowance EXCEPT ![t][from] = @ - amount]
  /\ UNCHANGED totalSupply

\* What ERC20 checks before transfer(to, amount): address(0) is refused.
mayTransfer(t, to, amount) ==
  /\ to # ZeroAddr
  /\ wallet[t][EscrowAddr] >= amount

\* ERC20.transfer(to, amount) called by the escrow contract.
safeTransfer(t, to, amount) ==
  /\ mayTransfer(t, to, amount)
  /\ wallet' = [wallet EXCEPT ![t] = Move(wallet[t], EscrowAddr, to, amount)]
  /\ UNCHANGED <<allowance, totalSupply>>
=============================================================================
