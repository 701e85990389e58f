---------------------------- MODULE IdentityRegistry --------------------------
(***************************************************************************)
(* contracts/src/NeuronIdentityRegistry.sol: one registration token per    *)
(* address, found from the address through a reverse mapping that minting, *)
(* revoking and every ERC-721 transfer must keep up.  An account is a key  *)
(* or a contract.  Minting calls a contract back, with the token its own   *)
(* and the mapping not yet written, and there it and the contracts it      *)
(* calls may do whatever nonReentrant does not forbid.  A call that        *)
(* reverts changes nothing, so its action is not enabled.                  *)
(***************************************************************************)
EXTENDS Integers

CONSTANTS Accounts, \* the addresses
          Contracts, \* those with code, called back when a token is minted to them
          NoOne,    \* address(0)
          URIs,     \* the agentURIs that are not empty
          NoURI,    \* the empty string
          MaxAgents \* bound on register

ASSUME RegistryAssumption ==
  /\ NoOne \notin Accounts
  /\ Contracts \subseteq Accounts
  /\ NoURI \notin URIs
  /\ MaxAgents \in Nat

VARIABLES tokenOwner,       \* ERC-721 _owners
          tokenApproval,    \* ERC-721 _tokenApprovals
          operators,        \* ERC-721 _operatorApprovals, as pairs <<owner, operator>>
          addressToAgentId, \* _addressToAgentId
          agentURIs,        \* _agentURIs
          nextAgentId,      \* _nextAgentId
          minting,          \* the register call whose sender is in onERC721Received, or NoMint
          strayed           \* history: the contracts whose register call did not end with them
                            \* owning the new token and no other

agentVars == <<tokenOwner, tokenApproval, operators, addressToAgentId, nextAgentId>>
registryVars == <<agentVars, agentURIs, minting, strayed>>

NoMint == [by |-> NoOne, id |-> 0, uri |-> NoURI]

AgentIds == 1..MaxAgents

RegistryTypeOK ==
  /\ tokenOwner \in [AgentIds -> Accounts \cup {NoOne}]
  /\ tokenApproval \in [AgentIds -> Accounts \cup {NoOne}]
  /\ operators \subseteq Accounts \X Accounts
  /\ addressToAgentId \in [Accounts -> 0..MaxAgents]
  /\ agentURIs \in [AgentIds -> URIs \cup {NoURI}]
  /\ nextAgentId \in 1..(MaxAgents + 1)
  /\ minting \in {NoMint} \cup [by : Contracts, id : AgentIds, uri : URIs]
  /\ strayed \subseteq Contracts

RegistryInit ==
  /\ tokenOwner = [id \in AgentIds |-> NoOne]
  /\ tokenApproval = [id \in AgentIds |-> NoOne]
  /\ operators = {}
  /\ addressToAgentId = [a \in Accounts |-> 0]
  /\ agentURIs = [id \in AgentIds |-> NoURI]
  /\ nextAgentId = 1
  /\ minting = NoMint
  /\ strayed = {}

-----------------------------------------------------------------------------

\* ownerOf reverts on a token nobody owns.
Exists(id) == id \in AgentIds /\ tokenOwner[id] # NoOne

isOwnerOrApproved(id, caller) ==
  /\ Exists(id)
  /\ \/ caller = tokenOwner[id]
     \/ caller = tokenApproval[id]
     \/ <<tokenOwner[id], caller>> \in operators

tokenOfOwner(a) == {id \in AgentIds : tokenOwner[id] = a}

MayRegister(sender) == addressToAgentId[sender] = 0 /\ nextAgentId \in AgentIds

\* register, revoke and setAgentURI are nonReentrant; transfers and approvals are not.
nonReentrant == minting = NoMint /\ UNCHANGED <<minting, strayed>>
reentrant(sender) == (minting = NoMint \/ sender \in Contracts) /\ UNCHANGED <<minting, strayed>>

\* A key has no code to call: the whole of register is one step.
register(sender, uri) ==
  /\ nonReentrant
  /\ sender \notin Contracts
  /\ MayRegister(sender)
  /\ nextAgentId' = nextAgentId + 1
  /\ tokenOwner' = [tokenOwner EXCEPT ![nextAgentId] = sender]
  /\ agentURIs' = [agentURIs EXCEPT ![nextAgentId] = uri]
  /\ addressToAgentId' = [addressToAgentId EXCEPT ![sender] = nextAgentId]
  /\ UNCHANGED <<tokenApproval, operators>>

\* register of a contract, up to the call of its onERC721Received by _safeMint.
safeMint(sender, uri) ==
  /\ minting = NoMint
  /\ sender \in Contracts
  /\ MayRegister(sender)
  /\ nextAgentId' = nextAgentId + 1
  /\ tokenOwner' = [tokenOwner EXCEPT ![nextAgentId] = sender]
  /\ minting' = [by |-> sender, id |-> nextAgentId, uri |-> uri]
  /\ UNCHANGED <<tokenApproval, operators, addressToAgentId, agentURIs, strayed>>

\* The callback has returned: register writes what it decided before, whoever owns the token.
finishRegister ==
  /\ minting # NoMint
  /\ agentURIs' = [agentURIs EXCEPT ![minting.id] = minting.uri]
  /\ addressToAgentId' = [addressToAgentId EXCEPT ![minting.by] = minting.id]
  /\ strayed' = IF tokenOfOwner(minting.by) = {minting.id} THEN strayed
                ELSE strayed \cup {minting.by}
  /\ minting' = NoMint
  /\ UNCHANGED <<tokenOwner, tokenApproval, operators, nextAgentId>>

setAgentURI(sender, id, uri) ==
  /\ nonReentrant
  /\ isOwnerOrApproved(id, sender)
  /\ agentURIs' = [agentURIs EXCEPT ![id] = uri]
  /\ UNCHANGED agentVars

\* Faulty variant: the burn leaves the agentURI behind.
revokeKeepsURI(sender, id) ==
  /\ nonReentrant
  /\ Exists(id)
  /\ sender = tokenOwner[id]
  /\ addressToAgentId' = [addressToAgentId EXCEPT ![sender] = 0]
  /\ tokenOwner' = [tokenOwner EXCEPT ![id] = NoOne]
  /\ tokenApproval' = [tokenApproval EXCEPT ![id] = NoOne]
  /\ UNCHANGED <<operators, nextAgentId, agentURIs>>

\* Only the owner, not an approved operator.  Burning clears the approval.
revoke(sender, id) ==
  /\ nonReentrant
  /\ Exists(id)
  /\ sender = tokenOwner[id]
  /\ addressToAgentId' = [addressToAgentId EXCEPT ![sender] = 0]
  /\ agentURIs' = [agentURIs EXCEPT ![id] = NoURI]
  /\ tokenOwner' = [tokenOwner EXCEPT ![id] = NoOne]
  /\ tokenApproval' = [tokenApproval EXCEPT ![id] = NoOne]
  /\ UNCHANGED <<operators, nextAgentId>>

\* Faulty variant: the recipient may be registered already.
transferAnywhere(sender, id, to) ==
  /\ reentrant(sender)
  /\ isOwnerOrApproved(id, sender)
  /\ tokenOwner' = [tokenOwner EXCEPT ![id] = to]
  /\ tokenApproval' = [tokenApproval EXCEPT ![id] = NoOne]
  /\ addressToAgentId' = [addressToAgentId EXCEPT ![tokenOwner[id]] = 0, ![to] = id]
  /\ UNCHANGED <<operators, agentURIs, nextAgentId>>

\* transferFrom and the _update hook: it reverts when the recipient is registered, the
\* owner itself included.  The agentURI moves with the token.
transferFrom(sender, id, to) ==
  /\ reentrant(sender)
  /\ isOwnerOrApproved(id, sender)
  /\ addressToAgentId[to] = 0
  /\ tokenOwner' = [tokenOwner EXCEPT ![id] = to]
  /\ tokenApproval' = [tokenApproval EXCEPT ![id] = NoOne]
  /\ addressToAgentId' = [addressToAgentId EXCEPT ![tokenOwner[id]] = 0, ![to] = id]
  /\ UNCHANGED <<operators, agentURIs, nextAgentId>>

approveAgent(sender, id, to) ==
  /\ reentrant(sender)
  /\ Exists(id)
  /\ sender = tokenOwner[id] \/ <<tokenOwner[id], sender>> \in operators
  /\ tokenApproval' = [tokenApproval EXCEPT ![id] = to]
  /\ UNCHANGED <<tokenOwner, operators, addressToAgentId, agentURIs, nextAgentId>>

setApprovalForAll(sender, operator) ==
  /\ reentrant(sender)
  /\ operators' = operators \cup {<<sender, operator>>}
  /\ UNCHANGED <<tokenOwner, tokenApproval, addressToAgentId, agentURIs, nextAgentId>>

\* What the accounts do with their tokens, and contracts to get one.
TokenCalls ==
  \/ finishRegister
  \/ \E a \in Accounts, uri \in URIs : safeMint(a, uri)
  \/ \E a \in Accounts, id \in AgentIds :
       \/ revoke(a, id)
       \/ \E b \in Accounts : transferFrom(a, id, b) \/ approveAgent(a, id, b)
       \/ \E b \in Accounts \ {a} : setApprovalForAll(a, b)

RegistryNext ==
  \/ \E a \in Accounts, uri \in URIs :
       register(a, uri) \/ \E id \in AgentIds : setAgentURI(a, id, uri)
  \/ TokenCalls

RegistrySpec == RegistryInit /\ [][RegistryNext]_registryVars

-----------------------------------------------------------------------------

\* The O(1) lookup by address and the ERC-721 enumeration agree for every key, whatever is
\* minted, transferred, revoked and minted again and whatever contracts do when they are called
\* back: an address maps to an agent exactly when it owns its token, and then it owns no other
\* (NeuronIdentityRegistry.sol:183).  They agree for a contract too, outside its register call,
\* unless it gave the token away, or took another one, while it was called back: register then
\* writes a mapping the hook has overtaken (NeuronIdentityRegistry.sol:94-96).
ReverseMappingExact ==
  \A a \in Accounts \ (strayed \cup {minting.by}), id \in AgentIds :
    addressToAgentId[a] = id <=> tokenOwner[id] = a

\* A token has an agentURI exactly as long as it exists, but for the one that is being minted:
\* no lookup returns the URI of a revoked agent, and no transfer loses one, a transfer from
\* within the minting call included.
URIFollowsToken ==
  \A id \in AgentIds \ {minting.id} : agentURIs[id] # NoURI <=> tokenOwner[id] # NoOne
=============================================================================
