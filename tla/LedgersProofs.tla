----------------------------- MODULE LedgersProofs -----------------------------
(***************************************************************************)
(* Theorems about what keeps records beside the escrow contract, for every *)
(* set of accounts, processes, callers and amounts and every bound: the    *)
(* identity registry and the programs that write to it, the store of       *)
(* active services, and the escrow kept in memory, which implements        *)
(* EscrowPromise.                                                          *)
(***************************************************************************)
EXTENDS MCLedgers, NeuronEscrowProofs, SequenceTheorems

-----------------------------------------------------------------------------
(***************************************************************************)
(* IdentityRegistry and RegistryClient.  All the programs do to the        *)
(* contract is call its functions, so what holds of the contract holds     *)
(* however many of them run and fail.                                      *)
(***************************************************************************)
\* Ids are given out in order: one that was never minted is nobody's and has no agentURI.
Unminted ==
  \A id \in AgentIds :
    id >= nextAgentId => tokenOwner[id] = NoOne /\ agentURIs[id] = NoURI

\* While a contract is called back its token exists, and has no agentURI yet.
MintUnderWay ==
  minting # NoMint => /\ minting.id < nextAgentId
                      /\ tokenOwner[minting.id] # NoOne
                      /\ agentURIs[minting.id] = NoURI

\* The inductive invariant.  Without Unminted, register might overwrite a token; without
\* MintUnderWay, the end of a register call might give an agentURI to a token nobody owns.
RegistryInv ==
  RegistryTypeOK /\ ReverseMappingExact /\ URIFollowsToken /\ Unminted /\ MintUnderWay

\* No account is being minted for when no call is under way, and else a contract is.
LEMMA MinterFacts ==
  ASSUME RegistryTypeOK
  PROVE  /\ minting = NoMint => minting.by = NoOne /\ minting.id = 0
         /\ minting # NoMint =>
              minting.by \in Contracts /\ minting.id \in 1..MaxAgents /\ minting.uri \in URIs
         /\ NoMint.by \notin Accounts /\ NoMint.id \notin 1..MaxAgents
BY RegistryAssumption DEF RegistryTypeOK, NoMint, AgentIds

USE DEF AgentIds

-----------------------------------------------------------------------------

LEMMA RegistryInitInv == RegistryInit => RegistryInv
BY RegistryAssumption
   DEF RegistryInit, RegistryInv, RegistryTypeOK, ReverseMappingExact, URIFollowsToken, Unminted,
       MintUnderWay

\* Minting to a key: the id was nobody's, and the sender had none.
LEMMA RegisterIInv ==
  ASSUME RegistryInv, NEW a \in Accounts, NEW uri \in URIs, register(a, uri)
  PROVE  RegistryInv'
<1> USE RegistryAssumption DEF RegistryInv, register, MayRegister, nonReentrant
<1>1. RegistryTypeOK'
  BY DEF RegistryTypeOK
<1>2. ReverseMappingExact'
  BY DEF RegistryTypeOK, ReverseMappingExact, Unminted
<1>3. URIFollowsToken'
  BY DEF RegistryTypeOK, URIFollowsToken
<1>4. Unminted'
  BY DEF RegistryTypeOK, Unminted
<1>5. MintUnderWay'
  BY DEF MintUnderWay
<1> QED  BY <1>1, <1>2, <1>3, <1>4, <1>5

\* Minting to a contract: its own entry is exempt until the call ends.
LEMMA SafeMintIInv ==
  ASSUME RegistryInv, NEW a \in Accounts, NEW uri \in URIs, safeMint(a, uri)
  PROVE  RegistryInv'
<1> USE RegistryAssumption DEF RegistryInv, safeMint, MayRegister
<1>1. /\ minting' = [by |-> a, id |-> nextAgentId, uri |-> uri] /\ a \in Contracts
      /\ nextAgentId \in 1..MaxAgents /\ minting.by \notin Accounts
      /\ minting.id \notin 1..MaxAgents
  BY MinterFacts
<1>2. RegistryTypeOK'
  BY <1>1 DEF RegistryTypeOK
<1>3. minting'.by = a /\ minting'.id = nextAgentId
  BY <1>1
<1>4. tokenOwner' = [x \in AgentIds |-> IF x = nextAgentId THEN a ELSE tokenOwner[x]]
  BY DEF RegistryTypeOK
<1>5. tokenOwner[nextAgentId] = NoOne /\ agentURIs[nextAgentId] = NoURI
  BY <1>1 DEF Unminted, RegistryTypeOK
<1>6. ReverseMappingExact'
  BY <1>1, <1>3, <1>4, <1>5 DEF ReverseMappingExact
<1>7. URIFollowsToken'
  BY <1>1, <1>3, <1>4 DEF URIFollowsToken
<1>8. Unminted'
  BY <1>1, <1>4 DEF RegistryTypeOK, Unminted
<1>9. MintUnderWay'
  BY <1>1, <1>3, <1>4, <1>5 DEF MintUnderWay
<1> QED  BY <1>2, <1>6, <1>7, <1>8, <1>9

\* The end of the call: the contract either owns its new token and no other, or has strayed.
LEMMA FinishIInv ==
  ASSUME RegistryInv, finishRegister
  PROVE  RegistryInv'
<1> USE RegistryAssumption DEF RegistryInv, finishRegister
<1>1. PICK c \in Contracts, new \in 1..MaxAgents, uri \in URIs :
        c = minting.by /\ new = minting.id /\ uri = minting.uri
  BY MinterFacts
<1>2. /\ minting'.by \notin Accounts /\ minting'.id \notin 1..MaxAgents /\ minting' = NoMint
      /\ c \in Accounts
  BY MinterFacts
<1>3. /\ agentURIs' = [x \in AgentIds |-> IF x = new THEN uri ELSE agentURIs[x]]
      /\ addressToAgentId' = [x \in Accounts |-> IF x = c THEN new ELSE addressToAgentId[x]]
      /\ UNCHANGED <<tokenOwner, nextAgentId>>
  BY <1>1 DEF RegistryTypeOK
<1>4. strayed \subseteq strayed' /\ strayed' \subseteq strayed \cup {c}
  BY <1>1
<1>5. c \notin strayed' => \A id \in AgentIds : tokenOwner[id] = c <=> id = new
  BY <1>1 DEF tokenOfOwner
<1>6. RegistryTypeOK'
  <2>1. strayed' \subseteq Contracts
    BY <1>1, <1>4 DEF RegistryTypeOK
  <2> QED  BY <1>2, <1>3, <2>1 DEF RegistryTypeOK
<1>7. ReverseMappingExact'
  <2> SUFFICES ASSUME NEW a \in Accounts, a \notin strayed', NEW id \in AgentIds
               PROVE  addressToAgentId'[a] = id <=> tokenOwner'[id] = a
    BY DEF ReverseMappingExact
  <2>1. CASE a = c
    BY <1>3, <1>5, <2>1
  <2>2. CASE a # c
    BY <1>1, <1>3, <1>4, <2>2 DEF ReverseMappingExact
  <2> QED  BY <2>1, <2>2
<1>8. tokenOwner[new] # NoOne /\ new < nextAgentId
  BY <1>1 DEF MintUnderWay
<1>9. URIFollowsToken'
  BY <1>1, <1>3, <1>8 DEF URIFollowsToken
<1>10. Unminted'
  BY <1>3, <1>8 DEF Unminted, RegistryTypeOK
<1> QED  BY <1>2, <1>6, <1>7, <1>9, <1>10 DEF MintUnderWay

LEMMA SetAgentURIIInv ==
  ASSUME RegistryInv, NEW a \in Accounts, NEW id \in AgentIds, NEW uri \in URIs,
         setAgentURI(a, id, uri)
  PROVE  RegistryInv'
BY RegistryAssumption
   DEF RegistryInv, setAgentURI, nonReentrant, agentVars, isOwnerOrApproved, Exists,
       RegistryTypeOK, ReverseMappingExact, URIFollowsToken, Unminted, MintUnderWay

\* Burning: a key that owned the token had no other, so zero is right for it.
LEMMA RevokeIInv ==
  ASSUME RegistryInv, NEW a \in Accounts, NEW id \in AgentIds, revoke(a, id)
  PROVE  RegistryInv'
<1> USE RegistryAssumption DEF RegistryInv, revoke, Exists, nonReentrant
<1>1. RegistryTypeOK'
  BY DEF RegistryTypeOK
<1>2. ReverseMappingExact'
  BY DEF RegistryTypeOK, ReverseMappingExact
<1>3. URIFollowsToken'
  BY MinterFacts DEF RegistryTypeOK, URIFollowsToken
<1>4. Unminted'
  BY DEF RegistryTypeOK, Unminted
<1>5. MintUnderWay'
  BY DEF MintUnderWay
<1> QED  BY <1>1, <1>2, <1>3, <1>4, <1>5

\* A transfer: the mapping of the recipient was zero, one entry is cleared and the other set.
\* Neither is wrong for an account that is not exempt: it had that token only, or none.
LEMMA TransferIInv ==
  ASSUME RegistryInv, NEW a \in Accounts, NEW id \in AgentIds, NEW b \in Accounts,
         transferFrom(a, id, b)
  PROVE  RegistryInv'
<1> USE RegistryAssumption DEF RegistryInv, transferFrom, isOwnerOrApproved, Exists, reentrant
<1> DEFINE from == tokenOwner[id]
<1>1. from \in Accounts /\ from # NoOne /\ b # NoOne /\ addressToAgentId[b] = 0
  BY DEF RegistryTypeOK
<1>2. RegistryTypeOK'
  BY <1>1 DEF RegistryTypeOK
<1>3. addressToAgentId' = [x \in Accounts |-> IF x = b THEN id
                                             ELSE IF x = from THEN 0 ELSE addressToAgentId[x]]
  BY <1>1 DEF RegistryTypeOK
<1>4. tokenOwner' = [x \in AgentIds |-> IF x = id THEN b ELSE tokenOwner[x]]
  BY DEF RegistryTypeOK
<1>5. ReverseMappingExact'
  <2> SUFFICES ASSUME NEW c \in Accounts, c \notin strayed, c # minting.by,
                      NEW other \in AgentIds
               PROVE  addressToAgentId'[c] = other <=> tokenOwner'[other] = c
    BY DEF ReverseMappingExact
  <2>1. \A x \in AgentIds : addressToAgentId[c] = x <=> tokenOwner[x] = c
    BY DEF ReverseMappingExact
  <2>2. c = b => c # from
    BY <1>1, <2>1
  <2> HIDE DEF transferFrom
  <2> QED  BY <1>1, <1>3, <1>4, <2>1, <2>2
<1>6. URIFollowsToken'
  BY <1>1, <1>4 DEF RegistryTypeOK, URIFollowsToken
<1>7. Unminted'
  BY <1>1, <1>4 DEF RegistryTypeOK, Unminted
<1>8. MintUnderWay'
  BY <1>1, <1>4, MinterFacts DEF MintUnderWay
<1> QED  BY <1>2, <1>5, <1>6, <1>7, <1>8

\* Approvals touch no token.
LEMMA ApprovalIInv ==
  ASSUME RegistryInv, NEW a \in Accounts, NEW b \in Accounts,
         \/ \E id \in AgentIds : approveAgent(a, id, b)
         \/ setApprovalForAll(a, b)
  PROVE  RegistryInv'
<1>1. UNCHANGED <<tokenOwner, addressToAgentId, agentURIs, nextAgentId, minting, strayed>>
  BY DEF approveAgent, setApprovalForAll, reentrant
<1>2. tokenApproval' \in [AgentIds -> Accounts \cup {NoOne}]
  BY DEF RegistryInv, approveAgent, setApprovalForAll, RegistryTypeOK
<1>3. operators' \subseteq Accounts \X Accounts
  <2>1. operators' \subseteq operators \cup {<<a, b>>}
    BY DEF approveAgent, setApprovalForAll
  <2>2. operators \subseteq Accounts \X Accounts
    BY DEF RegistryInv, RegistryTypeOK
  <2> QED  BY <2>1, <2>2
<1>4. RegistryTypeOK'
  BY <1>1, <1>2, <1>3 DEF RegistryInv, RegistryTypeOK
<1>5. ReverseMappingExact' /\ URIFollowsToken' /\ Unminted' /\ MintUnderWay'
  BY <1>1 DEF RegistryInv, ReverseMappingExact, URIFollowsToken, Unminted, MintUnderWay
<1> QED  BY <1>4, <1>5 DEF RegistryInv

LEMMA RegistryNextInv == RegistryInv /\ [RegistryNext]_registryVars => RegistryInv'
<1> SUFFICES ASSUME RegistryInv, [RegistryNext]_registryVars PROVE RegistryInv'
  OBVIOUS
<1>1. ASSUME NEW a \in Accounts, NEW uri \in URIs, register(a, uri) PROVE RegistryInv'
  BY <1>1, RegisterIInv
<1>2. ASSUME NEW a \in Accounts, NEW id \in AgentIds, NEW uri \in URIs, setAgentURI(a, id, uri)
      PROVE  RegistryInv'
  BY <1>2, SetAgentURIIInv
<1>3. CASE TokenCalls
  <2>1. ASSUME NEW a \in Accounts, NEW id \in AgentIds, revoke(a, id) PROVE RegistryInv'
    BY <2>1, RevokeIInv
  <2>2. ASSUME NEW a \in Accounts, NEW id \in AgentIds, NEW b \in Accounts, transferFrom(a, id, b)
        PROVE  RegistryInv'
    BY <2>2, TransferIInv
  <2>3. ASSUME NEW a \in Accounts, NEW id \in AgentIds, NEW b \in Accounts,
               approveAgent(a, id, b) \/ setApprovalForAll(a, b)
        PROVE  RegistryInv'
    BY <2>3, ApprovalIInv
  <2>4. ASSUME NEW a \in Accounts, NEW uri \in URIs, safeMint(a, uri) PROVE RegistryInv'
    BY <2>4, SafeMintIInv
  <2>5. CASE finishRegister
    BY <2>5, FinishIInv
  <2> QED  BY <1>3, <2>1, <2>2, <2>3, <2>4, <2>5 DEF TokenCalls
<1>4. CASE UNCHANGED registryVars
  BY <1>4 DEF registryVars, agentVars, RegistryInv, RegistryTypeOK, ReverseMappingExact,
              URIFollowsToken, Unminted, MintUnderWay
<1> QED  BY <1>1, <1>2, <1>3, <1>4 DEF RegistryNext

LEMMA RegistrySpecInv == RegistrySpec => []RegistryInv
BY RegistryInitInv, RegistryNextInv, PTL DEF RegistrySpec

\* The reverse mapping of the registry is exact for every key, for every number of accounts,
\* tokens and calls and whatever contracts do when they are called back, and it is exact for
\* the contracts that do nothing then that takes their new token or brings another.
THEOREM MappingExact == RegistrySpec => []ReverseMappingExact
<1>1. RegistryInv => ReverseMappingExact
  BY DEF RegistryInv
<1> QED  BY <1>1, RegistrySpecInv, PTL

\* A token of the registry has an agentURI exactly as long as it exists and is not being minted.
THEOREM URIExact == RegistrySpec => []URIFollowsToken
<1>1. RegistryInv => URIFollowsToken
  BY DEF RegistryInv
<1> QED  BY <1>1, RegistrySpecInv, PTL

-----------------------------------------------------------------------------

Tx == [by : Starters, start : Nat, id : 0..MaxAgents]

\* What is waiting to be mined was sent by one of the processes.
ClientIInv ==
  /\ mempool \in [Accounts -> Seq(Tx)]
  /\ token \in [Starters -> 0..MaxAgents]
  /\ starts \in [Starters -> Nat]

LEMMA GotoKeeps ==
  ASSUME ClientIInv, NEW p \in Starters, NEW next, NEW id \in 0..MaxAgents, Goto(p, next, id)
  PROVE  ClientIInv' /\ UNCHANGED registryVars
BY DEF ClientIInv, Goto

LEMMA EndKeeps ==
  ASSUME ClientIInv, NEW p \in Starters, NEW result, NEW id \in 0..MaxAgents, End(p, result, id)
  PROVE  ClientIInv' /\ UNCHANGED registryVars
BY DEF ClientIInv, End

LEMMA SendKeeps ==
  ASSUME ClientIInv, NEW p \in Starters, NEW id \in 0..MaxAgents,
         Send(p, [by |-> p, start |-> starts[p], id |-> id])
  PROVE  ClientIInv' /\ UNCHANGED registryVars
<1> DEFINE tx == [by |-> p, start |-> starts[p], id |-> id]
<1>1. tx \in Tx
  BY DEF ClientIInv, Tx
<1>2. KeyOf(p) \in Accounts
  BY ClientAssumption
<1>3. Append(mempool[KeyOf(p)], tx) \in Seq(Tx)
  BY <1>1, <1>2 DEF ClientIInv
<1> QED  BY <1>3 DEF ClientIInv, Send

\* A process only reads the contract and sends transactions.
LEMMA ClientStepKeeps ==
  ASSUME ClientIInv, NEW p \in Starters, ClientStep(p)
  PROVE  ClientIInv' /\ UNCHANGED registryVars
<1>1. token[p] \in 0..MaxAgents /\ 0 \in 0..MaxAgents
  BY RegistryAssumption DEF ClientIInv
<1>2. tokenOfOwner(KeyOf(p)) \subseteq 0..MaxAgents
  BY DEF tokenOfOwner
<1>3. CASE CheckDuplicate(p)
  BY <1>1, <1>3, GotoKeeps DEF CheckDuplicate
<1>4. CASE LookupTokenID(p)
  BY <1>1, <1>2, <1>4, GotoKeeps, EndKeeps DEF LookupTokenID
<1>5. CASE ReadURI(p)
  BY <1>1, <1>5, GotoKeeps, EndKeeps DEF ReadURI
<1>6. CASE Authorise(p)
  BY <1>1, <1>6, GotoKeeps, EndKeeps DEF Authorise
<1>7. CASE SendRegister(p)
  BY <1>1, <1>7, SendKeeps, EndKeeps DEF SendRegister
<1>8. CASE UpdateAgentURI(p)
  BY <1>1, <1>8, SendKeeps, EndKeeps DEF UpdateAgentURI
<1>9. CASE VerifyOwner(p)
  BY <1>1, <1>9, EndKeeps DEF VerifyOwner
<1> QED  BY <1>3, <1>4, <1>5, <1>6, <1>7, <1>8, <1>9 DEF ClientStep

\* A mined transaction runs one function of the contract, or reverts.
LEMMA MineCalls ==
  ASSUME ClientIInv, NEW a \in Accounts, Mine(a)
  PROVE  ClientIInv' /\ [RegistryNext]_registryVars
<1> DEFINE tx == Head(mempool[a])
           ran == IF tx.id = 0 THEN MayRegister(a) ELSE isOwnerOrApproved(tx.id, a)
<1>1. tx \in Tx /\ Tail(mempool[a]) \in Seq(Tx)
  BY DEF ClientIInv, Mine
<1>2. mempool' \in [Accounts -> Seq(Tx)]
  BY <1>1 DEF ClientIInv, Mine
<1>3. starts' \in [Starters -> Nat]
  BY DEF ClientIInv, Mine
<1>4. tx.by \in Starters /\ tx.id \in 0..MaxAgents /\ Wanted(tx.by) \in URIs
  BY <1>1, ClientAssumption DEF Tx
<1>5. token' \in [Starters -> 0..MaxAgents]
  <2>1. ParsedAgentId(tx.by, ran) \in 0..MaxAgents \/ tx.id # 0
    <3>1. CASE ran /\ tx.id = 0
      BY <3>1, RegistryAssumption DEF ParsedAgentId, MayRegister
    <3>2. CASE ~ran
      BY <1>4, <3>2 DEF ParsedAgentId, ClientIInv
    <3> QED  BY <3>1, <3>2
  <2>2. \/ token' = token
        \/ token' = [token EXCEPT ![tx.by] = IF tx.id = 0 THEN ParsedAgentId(tx.by, ran) ELSE @]
    BY DEF Mine
  <2> QED  BY <1>4, <2>1, <2>2 DEF ClientIInv
<1>6. [RegistryNext]_registryVars
  <2>1. CASE ~ran
    BY <2>1 DEF Mine
  <2>2. CASE ran
    <3>1. Call(a, tx)
      BY <2>2 DEF Mine
    <3>2. CASE tx.id = 0
      BY <1>4, <3>1, <3>2 DEF Call, RegistryNext
    <3>3. CASE tx.id # 0
      BY <1>4, <3>1, <3>3, RegistryAssumption DEF Call, RegistryNext
    <3> QED  BY <3>2, <3>3
  <2> QED  BY <2>1, <2>2
<1> QED  BY <1>2, <1>3, <1>5, <1>6 DEF ClientIInv

LEMMA RegistrationStep ==
  ASSUME ClientIInv, [RegistrationNext]_registrationVars
  PROVE  ClientIInv' /\ [RegistryNext]_registryVars
<1>1. ASSUME NEW p \in Starters, Start(p) PROVE ClientIInv' /\ UNCHANGED registryVars
  BY <1>1 DEF Start, ClientIInv
<1>2. ASSUME NEW p \in Starters, ClientStep(p) PROVE ClientIInv' /\ UNCHANGED registryVars
  BY <1>2, ClientStepKeeps
<1>3. ASSUME NEW p \in Starters, WaitTimesOut(p) PROVE ClientIInv' /\ UNCHANGED registryVars
  BY <1>3, EndKeeps DEF WaitTimesOut, ClientIInv
<1>4. ASSUME NEW a \in Accounts, Mine(a) PROVE ClientIInv' /\ [RegistryNext]_registryVars
  BY <1>4, MineCalls
<1>5. CASE OwnerActs
  BY <1>5 DEF OwnerActs, ClientIInv, RegistryNext
<1>6. CASE UNCHANGED registrationVars
  BY <1>6 DEF registrationVars, clientVars, ClientIInv
<1> QED  BY <1>1, <1>2, <1>3, <1>4, <1>5, <1>6 DEF RegistrationNext

\* The programs implement the registry they write to: whatever they read, send, lose and send
\* again, the contract goes through steps of its own specification.
THEOREM ClientsCallTheRegistry == RegistrationSpec => RegistrySpec
<1>1. RegistrationInit => RegistryInit /\ ClientIInv
  BY RegistryAssumption DEF RegistrationInit, ClientInit, ClientIInv
<1>2. ClientIInv /\ [RegistrationNext]_registrationVars => ClientIInv' /\ [RegistryNext]_registryVars
  BY RegistrationStep
<1> QED  BY <1>1, <1>2, PTL DEF RegistrationSpec, RegistrySpec

\* So the mapping is exact for every key while any number of programs register and update.
THEOREM MappingExactForClients == RegistrationSpec => []ReverseMappingExact
BY ClientsCallTheRegistry, MappingExact, PTL

-----------------------------------------------------------------------------
(***************************************************************************)
(* A call that reports success has done it.  What a call has read stays    *)
(* true while nothing else touches the registration of its key, and the    *)
(* transaction it waits for is its only one: those that calls before it    *)
(* have given up on carry an earlier start, and disturb it when they are   *)
(* mined.                                                                  *)
(***************************************************************************)
Pool(a) == {mempool[a][i] : i \in DOMAIN mempool[a]}

Owns(p) == token[p] # 0 /\ addressToAgentId[KeyOf(p)] = token[p]

\* What is true of the call of p, of its transactions, and of what it has found out.
Sound(p) ==
  /\ stage[p] # "idle" => outcome[p] = "none"
  /\ \A tx \in Pool(KeyOf(p)) : tx.by = p =>
       tx.start <= starts[p] /\ (tx.start = starts[p] => stage[p] \in {"wait", "idle", "verify"})
  /\ ~disturbed[p] =>
       /\ stage[p] \in {"read", "authorise", "sendUpdate", "verify"} => Owns(p)
       /\ stage[p] = "verify" \/ outcome[p] \in {"minted", "updated", "reused"} =>
            Owns(p) /\ agentURIs[token[p]] = Wanted(p)
       /\ \A tx \in Pool(KeyOf(p)) :
            tx.by = p /\ Waiting(tx) /\ tx.id # 0 => Owns(p) /\ tx.id = token[p]

CallInv ==
  /\ ClientIInv
  /\ stage \in [Starters -> ClientStages] /\ outcome \in [Starters -> Outcomes]
  /\ disturbed \in [Starters -> BOOLEAN]
  /\ \A a \in Accounts : \A tx \in Pool(a) : KeyOf(tx.by) = a
  /\ \A p \in Starters : Sound(p)

LEMMA CallInitInv == ClientInit => CallInv
<1> SUFFICES ASSUME ClientInit PROVE CallInv
  OBVIOUS
<1>1. /\ stage = [p \in Starters |-> "idle"] /\ outcome = [p \in Starters |-> "none"]
      /\ disturbed = [p \in Starters |-> FALSE] /\ mempool = [a \in Accounts |-> << >>]
      /\ token = [p \in Starters |-> 0] /\ starts = [p \in Starters |-> 0]
  BY DEF ClientInit
<1>2. ASSUME NEW a \in Accounts PROVE Pool(a) = {}
  <2>1. mempool[a] = << >>
    BY <1>1
  <2> QED  BY <2>1 DEF Pool
<1>3. ASSUME NEW p \in Starters PROVE Sound(p)
  <2>1. Pool(KeyOf(p)) = {}
    BY <1>2, ClientAssumption
  <2> QED  BY <1>1, <2>1 DEF Sound
<1>4. ClientIInv
  BY <1>1, RegistryAssumption DEF ClientIInv
<1> QED  BY <1>1, <1>2, <1>3, <1>4 DEF CallInv, ClientStages, Outcomes

\* What a process does by itself changes nothing for the others.
OnlyOf(p) ==
  /\ UNCHANGED registryVars
  /\ \A q \in Starters \ {p} : /\ stage'[q] = stage[q] /\ token'[q] = token[q]
                              /\ outcome'[q] = outcome[q] /\ starts'[q] = starts[q]
                              /\ disturbed'[q] = disturbed[q]
  /\ \A a \in Accounts : \A tx \in Pool(a)' : tx \in Pool(a) \/ (tx.by = p /\ KeyOf(p) = a)

LEMMA OthersSound ==
  ASSUME NEW p \in Starters, OnlyOf(p), NEW q \in Starters, q # p, Sound(q)
  PROVE  Sound(q)'
<1>1. /\ stage'[q] = stage[q] /\ token'[q] = token[q] /\ outcome'[q] = outcome[q]
      /\ starts'[q] = starts[q] /\ disturbed'[q] = disturbed[q]
      /\ UNCHANGED <<agentURIs, addressToAgentId>>
  BY DEF OnlyOf, registryVars, agentVars
<1>2. \A tx \in Pool(KeyOf(q))' : tx.by = q => tx \in Pool(KeyOf(q))
  BY ClientAssumption DEF OnlyOf
<1>3. Owns(q)' <=> Owns(q)
  BY <1>1 DEF Owns
<1>4. ASSUME NEW tx, tx.by = q PROVE Waiting(tx)' <=> Waiting(tx)
  BY <1>1, <1>4 DEF Waiting
<1> QED  BY <1>1, <1>2, <1>3, <1>4 DEF Sound, Owns, Waiting

LEMMA LocalInv ==
  ASSUME CallInv, NEW p \in Starters, OnlyOf(p), ClientIInv', Sound(p)',
         stage' \in [Starters -> ClientStages], outcome' \in [Starters -> Outcomes],
         disturbed' \in [Starters -> BOOLEAN]
  PROVE  CallInv'
<1>1. ASSUME NEW q \in Starters PROVE Sound(q)'
  <2>1. Sound(q)
    BY DEF CallInv
  <2> QED  BY <2>1, OthersSound
<1>2. ASSUME NEW a \in Accounts, NEW tx \in Pool(a)' PROVE KeyOf(tx.by) = a
  BY DEF CallInv, OnlyOf
<1> QED  BY <1>1, <1>2 DEF CallInv

\* Steps of a process that send nothing.
LEMMA GotoInv ==
  ASSUME CallInv, NEW p \in Starters, NEW next \in ClientStages, NEW id \in 0..MaxAgents,
         Goto(p, next, id), stage[p] \notin {"idle", "wait", "verify"},
         next \notin {"idle", "wait", "verify"},
         ~disturbed[p] /\ next \in {"read", "authorise", "sendUpdate"} =>
           id # 0 /\ addressToAgentId[KeyOf(p)] = id
  PROVE  CallInv'
<1>1. ClientIInv' /\ UNCHANGED registryVars
  BY GotoKeeps DEF CallInv
<1>2. /\ stage' = [stage EXCEPT ![p] = next] /\ token' = [token EXCEPT ![p] = id]
      /\ UNCHANGED <<outcome, starts, mempool, disturbed>>
      /\ stage \in [Starters -> ClientStages] /\ token \in [Starters -> 0..MaxAgents]
  BY DEF Goto, CallInv, ClientIInv
<1>3. OnlyOf(p)
  BY <1>1, <1>2 DEF OnlyOf, Pool
<1>4. /\ stage'[p] = next /\ token'[p] = id /\ stage' \in [Starters -> ClientStages]
      /\ UNCHANGED addressToAgentId
  BY <1>1, <1>2 DEF registryVars, agentVars
<1>5. Sound(p)'
  <2>1. Sound(p)
    BY DEF CallInv
  <2>2. Pool(KeyOf(p))' = Pool(KeyOf(p))
    BY <1>2 DEF Pool
  <2>3. outcome'[p] = "none"
    BY <1>2, <2>1 DEF Sound
  <2> QED  BY <1>2, <1>4, <2>1, <2>2, <2>3 DEF Sound, Owns, Waiting
<1> QED  BY <1>1, <1>2, <1>3, <1>4, <1>5, LocalInv DEF CallInv

LEMMA EndInv ==
  ASSUME CallInv, NEW p \in Starters, NEW result \in Outcomes, NEW id \in 0..MaxAgents,
         End(p, result, id),
         ~disturbed[p] /\ result \in {"minted", "updated", "reused"} =>
           /\ id # 0 /\ addressToAgentId[KeyOf(p)] = id
           /\ agentURIs[id] = Wanted(p)
  PROVE  CallInv'
<1>1. ClientIInv' /\ UNCHANGED registryVars
  BY EndKeeps DEF CallInv
<1>2. /\ stage' = [stage EXCEPT ![p] = "idle"] /\ token' = [token EXCEPT ![p] = id]
      /\ outcome' = [outcome EXCEPT ![p] = result]
      /\ UNCHANGED <<starts, mempool, disturbed>>
      /\ stage \in [Starters -> ClientStages] /\ token \in [Starters -> 0..MaxAgents]
      /\ outcome \in [Starters -> Outcomes]
  BY DEF End, CallInv, ClientIInv
<1>3. OnlyOf(p)
  BY <1>1, <1>2 DEF OnlyOf, Pool
<1>4. /\ stage'[p] = "idle" /\ token'[p] = id /\ outcome'[p] = result
      /\ stage' \in [Starters -> ClientStages] /\ outcome' \in [Starters -> Outcomes]
      /\ UNCHANGED <<addressToAgentId, agentURIs>>
  BY <1>1, <1>2 DEF registryVars, agentVars, ClientStages
<1>5. Sound(p)'
  <2>1. Sound(p)
    BY DEF CallInv
  <2>2. Pool(KeyOf(p))' = Pool(KeyOf(p))
    BY <1>2 DEF Pool
  <2> QED  BY <1>2, <1>4, <2>1, <2>2 DEF Sound, Owns, Waiting
<1> QED  BY <1>1, <1>2, <1>3, <1>4, <1>5, LocalInv DEF CallInv

LEMMA SendInv ==
  ASSUME CallInv, NEW p \in Starters, NEW id \in 0..MaxAgents,
         Send(p, [by |-> p, start |-> starts[p], id |-> id]),
         stage[p] \notin {"idle", "wait", "verify"},
         ~disturbed[p] /\ id # 0 => Owns(p) /\ id = token[p]
  PROVE  CallInv'
<1> DEFINE new == [by |-> p, start |-> starts[p], id |-> id]
<1>1. ClientIInv' /\ UNCHANGED registryVars
  BY SendKeeps DEF CallInv
<1>2. /\ mempool' = [mempool EXCEPT ![KeyOf(p)] = Append(@, new)]
      /\ stage' = [stage EXCEPT ![p] = "wait"]
      /\ UNCHANGED <<token, outcome, starts, disturbed>>
      /\ stage \in [Starters -> ClientStages] /\ mempool \in [Accounts -> Seq(Tx)]
      /\ starts \in [Starters -> Nat]
  BY DEF Send, CallInv, ClientIInv
<1>3. new.by = p /\ new.start = starts[p] /\ new.id = id
  OBVIOUS
<1>4. KeyOf(p) \in Accounts
  BY ClientAssumption
<1> HIDE DEF new
<1>5. ASSUME NEW a \in Accounts, NEW tx \in Pool(a)'
      PROVE  tx \in Pool(a) \/ (tx = new /\ a = KeyOf(p))
  <2>1. CASE a # KeyOf(p)
    BY <1>2, <2>1 DEF Pool
  <2>2. CASE a = KeyOf(p)
    <3>1. PICK log \in Seq(Tx) : log = mempool[a] /\ mempool'[a] = Append(log, new)
      BY <1>2, <1>4, <2>2
    <3>2. PICK i \in DOMAIN Append(log, new) : tx = Append(log, new)[i]
      BY <3>1 DEF Pool
    <3>3. tx = new \/ (i \in DOMAIN log /\ tx = log[i])
      BY <3>2
    <3> QED  BY <2>2, <3>1, <3>3 DEF Pool
  <2> QED  BY <2>1, <2>2
<1>6. OnlyOf(p)
  BY <1>1, <1>2, <1>3, <1>5 DEF OnlyOf
<1>7. /\ stage'[p] = "wait" /\ stage' \in [Starters -> ClientStages]
      /\ UNCHANGED addressToAgentId
  BY <1>1, <1>2 DEF registryVars, agentVars, ClientStages
<1>8. Sound(p)'
  <2>1. Sound(p)
    BY DEF CallInv
  <2>2. \A tx \in Pool(KeyOf(p)) : tx.by = p => tx.start <= starts[p] /\ tx.start # starts[p]
    BY <2>1 DEF Sound
  <2>3. \A tx \in Pool(KeyOf(p))' : tx \in Pool(KeyOf(p)) \/ tx = new
    BY <1>4, <1>5
  <2>4. outcome[p] = "none" /\ starts[p] \in Nat
    BY <1>2, <2>1 DEF Sound
  <2> QED  BY <1>2, <1>3, <1>7, <2>2, <2>3, <2>4 DEF Sound, Owns, Waiting
<1> QED  BY <1>1, <1>2, <1>6, <1>7, <1>8, LocalInv DEF CallInv

-----------------------------------------------------------------------------
LEMMA StartInv ==
  ASSUME CallInv, NEW p \in Starters, Start(p)
  PROVE  CallInv'
<1>1. /\ UNCHANGED <<token, mempool, registryVars>>
      /\ starts' = [starts EXCEPT ![p] = @ + 1]
      /\ outcome' = [outcome EXCEPT ![p] = "none"]
      /\ disturbed' = [disturbed EXCEPT ![p] = FALSE]
      /\ stage' = [stage EXCEPT ![p] = IF Edge(p) THEN "lookup" ELSE "check"]
  BY DEF Start
<1>2. /\ starts \in [Starters -> Nat] /\ stage \in [Starters -> ClientStages]
      /\ outcome \in [Starters -> Outcomes] /\ disturbed \in [Starters -> BOOLEAN]
  BY DEF CallInv, ClientIInv
<1>3. OnlyOf(p)
  BY <1>1, <1>2 DEF OnlyOf, Pool
<1>4. /\ starts' \in [Starters -> Nat] /\ stage' \in [Starters -> ClientStages]
      /\ outcome' \in [Starters -> Outcomes] /\ disturbed' \in [Starters -> BOOLEAN]
  BY <1>1, <1>2 DEF ClientStages, Outcomes
<1>5. Sound(p)'
  <2>1. Sound(p) /\ Pool(KeyOf(p))' = Pool(KeyOf(p))
    BY <1>1 DEF CallInv, Pool
  <2>2. /\ starts'[p] = starts[p] + 1 /\ outcome'[p] = "none"
        /\ stage'[p] \in {"lookup", "check"}
    BY <1>1, <1>2
  <2>3. \A tx \in Pool(KeyOf(p))' : tx.by = p => tx.start <= starts'[p] /\ tx.start # starts'[p]
    <3>1. ASSUME NEW tx \in Pool(KeyOf(p)), tx.by = p
          PROVE  tx.start <= starts'[p] /\ tx.start # starts'[p]
      <4>1. tx.start <= starts[p]
        BY <2>1, <3>1 DEF Sound
      <4>2. tx.start \in Nat /\ starts[p] \in Nat
        <5>1. PICK i \in DOMAIN mempool[KeyOf(p)] : tx = mempool[KeyOf(p)][i]
          BY <3>1 DEF Pool
        <5>2. mempool[KeyOf(p)] \in Seq(Tx)
          BY ClientAssumption DEF CallInv, ClientIInv
        <5>3. tx \in Tx
          BY <5>1, <5>2
        <5> QED  BY <1>2, <5>3 DEF Tx
      <4> QED  BY <2>2, <4>1, <4>2
    <3> QED  BY <2>1, <3>1
  <2> QED  BY <2>2, <2>3 DEF Sound, Owns, Waiting
<1>6. ClientIInv'
  BY <1>1, <1>4 DEF CallInv, ClientIInv
<1> QED  BY <1>3, <1>4, <1>5, <1>6, LocalInv

\* The key of a process is neither exempt nor a contract, so its mapping is exact.
LEMMA KeyIsExact ==
  ASSUME RegistryInv, NEW p \in Starters, NEW id \in 1..MaxAgents
  PROVE  addressToAgentId[KeyOf(p)] = id <=> tokenOwner[id] = KeyOf(p)
<1>1. KeyOf(p) \in Accounts /\ KeyOf(p) \notin strayed /\ KeyOf(p) # minting.by
  BY RegistryAssumption, ClientAssumption, MinterFacts DEF RegistryInv, RegistryTypeOK
<1> QED  BY <1>1 DEF RegistryInv, ReverseMappingExact

LEMMA ClientStepInv ==
  ASSUME CallInv, RegistryInv, NEW p \in Starters, ClientStep(p)
  PROVE  CallInv'
<1>1. /\ token[p] \in 0..MaxAgents /\ 0 \in 0..MaxAgents /\ KeyOf(p) \in Accounts
      /\ {"lookup", "sendRegister", "read", "authorise", "sendUpdate"} \subseteq ClientStages
      /\ {"none", "minted", "updated", "reused", "failed"} \subseteq Outcomes
  BY RegistryAssumption, ClientAssumption DEF CallInv, ClientIInv, ClientStages, Outcomes
<1>2. Sound(p)
  BY DEF CallInv
<1>3. ~disturbed[p] /\ stage[p] \in {"read", "authorise", "sendUpdate", "verify"} => Owns(p)
  BY <1>2 DEF Sound
<1>4. CASE CheckDuplicate(p)
  BY <1>1, <1>4, GotoInv DEF CheckDuplicate
<1>5. CASE LookupTokenID(p)
  <2>1. stage[p] = "lookup"
    BY <1>5 DEF LookupTokenID
  <2>2. ASSUME NEW id \in tokenOfOwner(KeyOf(p)), Goto(p, "read", id) PROVE CallInv'
    <3>1. id \in 1..MaxAgents /\ addressToAgentId[KeyOf(p)] = id
      BY KeyIsExact DEF tokenOfOwner
    <3>2. id \in 0..MaxAgents /\ id # 0
      BY <3>1
    <3> QED  BY <1>1, <2>1, <2>2, <3>1, <3>2, GotoInv
  <2>3. CASE Goto(p, "sendRegister", 0)
    BY <1>1, <2>1, <2>3, GotoInv
  <2>4. CASE End(p, "failed", 0)
    BY <1>1, <2>4, EndInv
  <2> QED  BY <1>5, <2>2, <2>3, <2>4 DEF LookupTokenID
<1>6. CASE ReadURI(p)
  <2>1. stage[p] = "read"
    BY <1>6 DEF ReadURI
  <2>2. CASE agentURIs[token[p]] = Wanted(p) /\ End(p, "reused", token[p])
    BY <1>1, <1>3, <2>1, <2>2, EndInv DEF Owns
  <2>3. CASE Goto(p, "sendUpdate", token[p]) \/ Goto(p, "authorise", token[p])
    BY <1>1, <1>3, <2>1, <2>3, GotoInv DEF Owns
  <2>4. CASE End(p, "failed", token[p])
    BY <1>1, <2>4, EndInv
  <2> QED  BY <1>6, <2>2, <2>3, <2>4 DEF ReadURI
<1>7. CASE Authorise(p)
  <2>1. stage[p] = "authorise"
    BY <1>7 DEF Authorise
  <2>2. CASE Goto(p, "sendUpdate", token[p])
    BY <1>1, <1>3, <2>1, <2>2, GotoInv DEF Owns
  <2>3. CASE End(p, "failed", token[p])
    BY <1>1, <2>3, EndInv
  <2> QED  BY <1>7, <2>2, <2>3 DEF Authorise
<1>8. CASE SendRegister(p)
  <2>1. stage[p] = "sendRegister"
    BY <1>8 DEF SendRegister
  <2>2. CASE Send(p, [by |-> p, start |-> starts[p], id |-> 0])
    BY <1>1, <2>1, <2>2, SendInv
  <2>3. CASE End(p, "failed", 0)
    BY <1>1, <2>3, EndInv
  <2> QED  BY <1>8, <2>2, <2>3 DEF SendRegister
<1>9. CASE UpdateAgentURI(p)
  <2>1. stage[p] = "sendUpdate"
    BY <1>9 DEF UpdateAgentURI
  <2>2. CASE Send(p, [by |-> p, start |-> starts[p], id |-> token[p]])
    BY <1>1, <1>3, <2>1, <2>2, SendInv
  <2>3. CASE End(p, "failed", token[p])
    BY <1>1, <2>3, EndInv
  <2> QED  BY <1>9, <2>2, <2>3 DEF UpdateAgentURI
<1>10. CASE VerifyOwner(p)
  <2>1. stage[p] = "verify"
    BY <1>10 DEF VerifyOwner
  <2>2. ~disturbed[p] => Owns(p) /\ agentURIs[token[p]] = Wanted(p)
    BY <1>2, <2>1 DEF Sound
  <2>3. CASE End(p, "minted", token[p])
    BY <1>1, <2>2, <2>3, EndInv DEF Owns
  <2>4. CASE End(p, "failed", token[p])
    BY <1>1, <2>4, EndInv
  <2> QED  BY <1>10, <2>3, <2>4 DEF VerifyOwner
<1> QED  BY <1>4, <1>5, <1>6, <1>7, <1>8, <1>9, <1>10 DEF ClientStep

-----------------------------------------------------------------------------
\* A key that gets the token of a register call under way was disturbed by getting it.
MintApart ==
  minting # NoMint => \A p \in Starters :
    ~disturbed[p] => addressToAgentId[KeyOf(p)] # minting.id

LEMMA MintApartInv ==
  ASSUME RegistryInv, MintApart, [RegistrationNext]_registrationVars
  PROVE  MintApart'
<1>1. CASE UNCHANGED registrationVars
  BY <1>1 DEF registrationVars, registryVars, agentVars, clientVars, MintApart
<1>2. CASE minting' = NoMint
  BY <1>2 DEF MintApart
<1>3. CASE OwnerActs
  <2> SUFFICES ASSUME minting' # NoMint, NEW p \in Starters, ~disturbed'[p]
               PROVE  addressToAgentId'[KeyOf(p)] # minting'.id
    BY DEF MintApart
  <2>1. ~disturbed[p] /\ addressToAgentId'[KeyOf(p)] = addressToAgentId[KeyOf(p)]
    BY <1>3 DEF OwnerActs
  <2>2. ASSUME NEW a \in Accounts, NEW uri \in URIs, safeMint(a, uri)
        PROVE  addressToAgentId'[KeyOf(p)] # minting'.id
    <3>1. minting'.id = nextAgentId /\ nextAgentId \in 1..MaxAgents
      BY <2>2 DEF safeMint, MayRegister
    <3>2. tokenOwner[nextAgentId] = NoOne
      BY <3>1 DEF RegistryInv, Unminted, RegistryTypeOK
    <3> QED  BY <2>1, <3>1, <3>2, KeyIsExact, RegistryAssumption, ClientAssumption
  <2>3. CASE minting' = minting
    BY <2>1, <2>3 DEF MintApart
  <2> QED
    BY <1>2, <1>3, <2>2, <2>3
    DEF OwnerActs, TokenCalls, finishRegister, revoke, nonReentrant, reentrant, transferFrom,
        approveAgent, setApprovalForAll
<1>4. CASE minting = NoMint /\ ~OwnerActs
  <2>1. ASSUME NEW p \in Starters, Start(p) \/ ClientStep(p) \/ WaitTimesOut(p)
        PROVE  minting' = minting
    BY <2>1 DEF Start, ClientStep, WaitTimesOut, CheckDuplicate, LookupTokenID, ReadURI, Authorise,
                SendRegister, UpdateAgentURI, VerifyOwner, Goto, End, Send, registryVars
  <2>2. ASSUME NEW a \in Accounts, Mine(a) PROVE minting' = minting
    BY <2>2 DEF Mine, Call, register, setAgentURI, nonReentrant, registryVars
  <2> QED  BY <1>1, <1>2, <1>4, <2>1, <2>2 DEF RegistrationNext
<1> QED  BY <1>1, <1>3, <1>4 DEF RegistrationNext

\* An owner that acts disturbs the calls of the keys that lose or get a token, and no other.
LEMMA OwnerActsInv ==
  ASSUME CallInv, RegistryInv, MintApart, OwnerActs
  PROVE  CallInv'
<1>1. /\ UNCHANGED <<stage, token, outcome, starts, mempool>>
      /\ disturbed' = [p \in Starters |->
           disturbed[p] \/ addressToAgentId'[KeyOf(p)] # addressToAgentId[KeyOf(p)]]
  BY DEF OwnerActs
<1>2. ASSUME NEW p \in Starters, Owns(p), ~disturbed[p],
             addressToAgentId'[KeyOf(p)] = addressToAgentId[KeyOf(p)]
      PROVE  Owns(p)' /\ agentURIs'[token[p]] = agentURIs[token[p]]
  <2>1. KeyOf(p) \in Accounts /\ token[p] \in AgentIds /\ token'[p] = token[p]
    BY <1>1, <1>2, RegistryAssumption, ClientAssumption DEF CallInv, ClientIInv, Owns
  <2>2. tokenOwner[token[p]] = KeyOf(p)
    BY <1>2, <2>1, KeyIsExact DEF Owns
  <2>3. agentURIs'[token[p]] = agentURIs[token[p]]
    <3>1. CASE UNCHANGED agentURIs
      BY <3>1
    <3>2. ASSUME NEW a \in Accounts, NEW id \in AgentIds, revoke(a, id)
          PROVE  agentURIs'[token[p]] = agentURIs[token[p]]
      <4>1. id # token[p]
        <5> SUFFICES ASSUME id = token[p] PROVE FALSE
          OBVIOUS
        <5>1. addressToAgentId'[KeyOf(p)] = 0
          BY <2>1, <2>2, <3>2 DEF revoke, RegistryInv, RegistryTypeOK
        <5> QED  BY <1>2, <5>1 DEF Owns
      <4> QED  BY <2>1, <3>2, <4>1 DEF revoke, RegistryInv, RegistryTypeOK
    <3>3. CASE finishRegister
      <4>1. token[p] # minting.id
        BY <1>2, <3>3 DEF finishRegister, MintApart, Owns
      <4> QED  BY <2>1, <3>3, <4>1 DEF finishRegister, RegistryInv, RegistryTypeOK
    <3> QED
      BY <3>1, <3>2, <3>3
      DEF OwnerActs, TokenCalls, safeMint, transferFrom, approveAgent, setApprovalForAll
  <2> QED  BY <1>2, <2>1, <2>3 DEF Owns
<1>3. \A a \in Accounts : Pool(a)' = Pool(a)
  BY <1>1 DEF Pool
<1>4. ASSUME NEW p \in Starters PROVE Sound(p)'
  <2>1. Sound(p) /\ Pool(KeyOf(p))' = Pool(KeyOf(p))
    BY <1>3, ClientAssumption DEF CallInv
  <2>2. /\ stage'[p] = stage[p] /\ token'[p] = token[p] /\ outcome'[p] = outcome[p]
        /\ starts'[p] = starts[p]
    BY <1>1
  <2>3. ~disturbed'[p] => /\ ~disturbed[p]
                         /\ addressToAgentId'[KeyOf(p)] = addressToAgentId[KeyOf(p)]
    BY <1>1
  <2>4. ASSUME NEW tx PROVE Waiting(tx)' <=> Waiting(tx)
    BY <1>1 DEF Waiting
  <2>5. ~disturbed'[p] /\ Owns(p) => Owns(p)' /\ agentURIs'[token[p]] = agentURIs[token[p]]
    BY <1>2, <2>3
  <2> QED  BY <2>1, <2>2, <2>3, <2>5, <1>1 DEF Sound, Waiting
<1>5. ClientIInv'
  BY <1>1 DEF CallInv, ClientIInv
<1> QED  BY <1>1, <1>3, <1>4, <1>5 DEF CallInv

LEMMA WaitInv ==
  ASSUME CallInv, NEW p \in Starters, WaitTimesOut(p)
  PROVE  CallInv'
<1>1. token[p] \in 0..MaxAgents /\ "failed" \in Outcomes
  BY DEF CallInv, ClientIInv, Outcomes
<1> QED  BY <1>1, EndInv DEF WaitTimesOut

\* A transaction leaves alone the tokens it is not for.
LEMMA CallSpares ==
  ASSUME RegistryInv, NEW a \in Accounts, NEW tx \in Tx, Call(a, tx),
         NEW q \in Starters, Owns(q), token[q] \in 0..MaxAgents,
         IF tx.id = 0 THEN KeyOf(q) # a ELSE addressToAgentId[KeyOf(q)] # tx.id
  PROVE  /\ addressToAgentId'[KeyOf(q)] = addressToAgentId[KeyOf(q)]
         /\ agentURIs'[token[q]] = agentURIs[token[q]]
<1>1. KeyOf(q) \in Accounts /\ token[q] \in AgentIds
  BY RegistryAssumption, ClientAssumption DEF Owns
<1>2. tokenOwner[token[q]] = KeyOf(q) /\ tokenOwner[token[q]] # NoOne
  BY <1>1, KeyIsExact, RegistryAssumption DEF Owns
<1>3. CASE tx.id = 0
  <2>1. register(a, Wanted(tx.by))
    BY <1>3 DEF Call
  <2>2. token[q] # nextAgentId
    BY <1>1, <1>2 DEF RegistryInv, Unminted, RegistryTypeOK
  <2> QED  BY <1>1, <1>3, <2>1, <2>2 DEF register, RegistryInv, RegistryTypeOK
<1>4. CASE tx.id # 0
  <2>1. setAgentURI(a, tx.id, Wanted(tx.by))
    BY <1>4 DEF Call
  <2> QED  BY <1>1, <1>4, <2>1 DEF setAgentURI, agentVars, Owns, RegistryInv, RegistryTypeOK
<1> QED  BY <1>3, <1>4

\* What a mined transaction does for the process that waits for it: a registration that ran
\* gave its key the token of the receipt, and an update of a token the key owns has run.
LEMMA CallServes ==
  ASSUME RegistryInv, NEW a \in Accounts, NEW tx \in Tx, Call(a, tx), tx.id = 0
  PROVE  /\ nextAgentId \in AgentIds
         /\ addressToAgentId'[a] = nextAgentId
         /\ agentURIs'[nextAgentId] = Wanted(tx.by)
<1>1. register(a, Wanted(tx.by))
  BY DEF Call
<1> QED  BY <1>1 DEF register, MayRegister, RegistryInv, RegistryTypeOK

LEMMA UpdateRuns ==
  ASSUME RegistryInv, NEW p \in Starters, NEW id \in AgentIds, NEW a, a = KeyOf(p),
         addressToAgentId[a] = id
  PROVE  /\ isOwnerOrApproved(id, a)
         /\ \A uri : setAgentURI(a, id, uri) => /\ addressToAgentId'[a] = id
                                               /\ agentURIs'[id] = uri
<1>1. tokenOwner[id] = a /\ a # NoOne
  BY KeyIsExact, RegistryAssumption, ClientAssumption
<1> QED  BY <1>1 DEF isOwnerOrApproved, Exists, setAgentURI, agentVars, RegistryInv, RegistryTypeOK

LEMMA MineInv ==
  ASSUME CallInv, RegistryInv, NEW a \in Accounts, Mine(a)
  PROVE  CallInv'
<1>1. ClientIInv'
  BY MineCalls DEF CallInv
<1>2. mempool[a] \in Seq(Tx) /\ mempool[a] # << >>
  BY DEF CallInv, ClientIInv, Mine
<1>3. PICK tx \in Tx : tx = Head(mempool[a])
  BY <1>2
<1>4. PICK ran \in BOOLEAN :
        ran <=> IF tx.id = 0 THEN MayRegister(a) ELSE isOwnerOrApproved(tx.id, a)
  OBVIOUS
<1>5. PICK p \in Starters : p = tx.by
  BY DEF Tx
<1>6. /\ IF ran THEN Call(a, tx) ELSE UNCHANGED registryVars
      /\ mempool' = [mempool EXCEPT ![a] = Tail(@)]
      /\ disturbed' = [q \in Starters |-> disturbed[q] \/ (ran /\ q \in Touched(a, tx))]
      /\ UNCHANGED starts
      /\ ~Waiting(tx) => UNCHANGED <<stage, token, outcome>>
      /\ Waiting(tx) =>
           /\ stage' = [stage EXCEPT ![p] =
                          IF tx.id = 0 /\ ran /\ ~Edge(p) THEN "verify" ELSE "idle"]
           /\ token' = [token EXCEPT ![p] = IF tx.id = 0 THEN ParsedAgentId(p, ran) ELSE @]
           /\ outcome' = [outcome EXCEPT ![p] = IF tx.id # 0 THEN "updated"
                                                ELSE IF ~ran THEN "failed"
                                                ELSE IF Edge(p) THEN "minted" ELSE "none"]
  BY <1>3, <1>4, <1>5 DEF Mine
<1>7. tx \in Pool(a) /\ KeyOf(p) = a
  BY <1>2, <1>3, <1>5 DEF Pool, CallInv
<1>8. ASSUME NEW b \in Accounts PROVE Pool(b)' \subseteq Pool(b)
  <2>1. CASE b # a
    BY <1>6, <2>1 DEF Pool
  <2>2. CASE b = a
    <3>1. PICK log \in Seq(Tx) : log = mempool[a] /\ log # << >> /\ mempool'[a] = Tail(log)
      BY <1>2, <1>6 DEF CallInv, ClientIInv
    <3>2. ASSUME NEW i \in DOMAIN Tail(log) PROVE Tail(log)[i] = log[i + 1] /\ i + 1 \in DOMAIN log
      BY <3>1, <3>2
    <3> QED  BY <2>2, <3>1, <3>2 DEF Pool
  <2> QED  BY <2>1, <2>2
<1>9. /\ stage' \in [Starters -> ClientStages] /\ outcome' \in [Starters -> Outcomes]
      /\ disturbed' \in [Starters -> BOOLEAN]
  <2>1. /\ stage \in [Starters -> ClientStages] /\ outcome \in [Starters -> Outcomes]
        /\ disturbed \in [Starters -> BOOLEAN]
    BY DEF CallInv
  <2>2. {"verify", "idle"} \subseteq ClientStages /\ {"updated", "failed", "minted", "none"} \subseteq Outcomes
    BY DEF ClientStages, Outcomes
  <2>3. stage' \in [Starters -> ClientStages]
    BY <1>6, <2>1, <2>2
  <2>4. outcome' \in [Starters -> Outcomes]
    BY <1>6, <2>1, <2>2
  <2>5. disturbed' \in [Starters -> BOOLEAN]
    BY <1>6
  <2> QED  BY <2>3, <2>4, <2>5
<1>10. ASSUME NEW q \in Starters, Owns(q), ~disturbed'[q], ~(q = p /\ Waiting(tx))
       PROVE  Owns(q)' /\ agentURIs'[token[q]] = agentURIs[token[q]]
  <2>1. token'[q] = token[q]
    BY <1>6, <1>10 DEF CallInv, ClientIInv
  <2>2. CASE ~ran
    BY <1>6, <1>10, <2>1, <2>2 DEF registryVars, agentVars, Owns
  <2>3. CASE ran
    <3>1. IF tx.id = 0 THEN KeyOf(q) # a ELSE addressToAgentId[KeyOf(q)] # tx.id
      BY <1>5, <1>6, <1>10, <2>3 DEF Touched
    <3>2. token[q] \in 0..MaxAgents
      BY DEF CallInv, ClientIInv
    <3>3. /\ addressToAgentId'[KeyOf(q)] = addressToAgentId[KeyOf(q)]
          /\ agentURIs'[token[q]] = agentURIs[token[q]]
      BY <1>6, <1>10, <2>3, <3>1, <3>2, CallSpares
    <3> QED  BY <1>10, <2>1, <3>3 DEF Owns
  <2> QED  BY <2>2, <2>3
<1>11. ASSUME NEW q \in Starters, ~(q = p /\ Waiting(tx)) PROVE Sound(q)'
  <2>1. Sound(q) /\ KeyOf(q) \in Accounts
    BY ClientAssumption DEF CallInv
  <2>2. /\ stage'[q] = stage[q] /\ token'[q] = token[q] /\ outcome'[q] = outcome[q]
        /\ starts'[q] = starts[q]
    BY <1>6, <1>11 DEF CallInv, ClientIInv
  <2>3. ~disturbed'[q] => ~disturbed[q]
    BY <1>6
  <2>4. \A other \in Pool(KeyOf(q))' : other \in Pool(KeyOf(q))
    BY <1>8, <2>1
  <2>5. ~disturbed'[q] /\ Owns(q) => Owns(q)' /\ agentURIs'[token[q]] = agentURIs[token[q]]
    BY <1>10, <1>11
  <2>6. \A other : other.by = q => (Waiting(other)' <=> Waiting(other))
    BY <2>2 DEF Waiting
  <2>7. /\ stage'[q] # "idle" => outcome'[q] = "none"
        /\ \A other \in Pool(KeyOf(q))' : other.by = q =>
             /\ other.start <= starts'[q]
             /\ other.start = starts'[q] => stage'[q] \in {"wait", "idle", "verify"}
    BY <2>1, <2>2, <2>4 DEF Sound
  <2>8. ~disturbed'[q] => \A other \in Pool(KeyOf(q))' :
          other.by = q /\ Waiting(other)' /\ other.id # 0 => Owns(q)' /\ other.id = token'[q]
    BY <2>1, <2>2, <2>3, <2>4, <2>5, <2>6 DEF Sound
  <2>9. ~disturbed'[q] =>
          /\ stage'[q] \in {"read", "authorise", "sendUpdate", "verify"} => Owns(q)'
          /\ stage'[q] = "verify" \/ outcome'[q] \in {"minted", "updated", "reused"} =>
               Owns(q)' /\ agentURIs'[token'[q]] = Wanted(q)
    BY <2>1, <2>2, <2>3, <2>5 DEF Sound
  <2> QED  BY <2>7, <2>8, <2>9 DEF Sound
<1>12. ASSUME Waiting(tx) PROVE Sound(p)'
  <2>1. Sound(p) /\ stage[p] = "wait" /\ tx.start = starts[p]
    BY <1>5, <1>12 DEF CallInv, Waiting
  <2>2. /\ stage'[p] = IF tx.id = 0 /\ ran /\ ~Edge(p) THEN "verify" ELSE "idle"
        /\ token'[p] = IF tx.id = 0 THEN ParsedAgentId(p, ran) ELSE token[p]
        /\ outcome'[p] = IF tx.id # 0 THEN "updated"
                         ELSE IF ~ran THEN "failed" ELSE IF Edge(p) THEN "minted" ELSE "none"
        /\ starts'[p] = starts[p]
    BY <1>6, <1>12 DEF CallInv, ClientIInv
  <2>3. ~disturbed'[p] => ~disturbed[p]
    BY <1>6
  <2>4. \A other \in Pool(a)' : other.by = p => other.start <= starts'[p] /\ ~Waiting(other)'
    <3>1. stage'[p] # "wait"
      BY <2>2
    <3>2. \A other \in Pool(a)' : other \in Pool(a)
      BY <1>8
    <3> QED  BY <1>7, <2>1, <2>2, <3>1, <3>2 DEF Sound, Waiting
  <2>5. CASE tx.id = 0 /\ ran
    <3>1. /\ nextAgentId \in AgentIds /\ addressToAgentId'[a] = nextAgentId
          /\ agentURIs'[nextAgentId] = Wanted(p)
      BY <1>5, <1>6, <2>5, CallServes
    <3>2. token'[p] = nextAgentId
      BY <2>2, <2>5 DEF ParsedAgentId
    <3>3. Owns(p)' /\ agentURIs'[token'[p]] = Wanted(p)
      BY <1>7, <3>1, <3>2, RegistryAssumption DEF Owns
    <3> QED  BY <1>7, <2>2, <2>4, <2>5, <3>3 DEF Sound
  <2>6. CASE tx.id = 0 /\ ~ran
    BY <1>7, <2>2, <2>4, <2>6 DEF Sound
  <2>7. CASE tx.id # 0
    <3>1. ASSUME ~disturbed'[p] PROVE Owns(p)' /\ agentURIs'[token'[p]] = Wanted(p)
      <4>1. Owns(p) /\ tx.id = token[p]
        BY <1>5, <1>7, <1>12, <2>1, <2>3, <2>7, <3>1 DEF Sound
      <4>2. tx.id \in AgentIds /\ addressToAgentId[a] = tx.id
        BY <1>7, <2>7, <4>1, RegistryAssumption DEF Owns, Tx
      <4>3. ran
        BY <1>4, <1>7, <2>7, <4>2, UpdateRuns
      <4>4. setAgentURI(a, tx.id, Wanted(p))
        BY <1>5, <1>6, <2>7, <4>3 DEF Call
      <4>5. addressToAgentId'[a] = tx.id /\ agentURIs'[tx.id] = Wanted(p)
        BY <1>7, <4>2, <4>4, UpdateRuns
      <4> QED  BY <1>7, <2>2, <2>7, <4>1, <4>5 DEF Owns
    <3> QED  BY <1>7, <2>2, <2>4, <2>7, <3>1 DEF Sound
  <2> QED  BY <2>5, <2>6, <2>7
<1>13. ASSUME NEW q \in Starters PROVE Sound(q)'
  BY <1>11, <1>12
<1>14. ASSUME NEW b \in Accounts, NEW other \in Pool(b)' PROVE KeyOf(other.by) = b
  BY <1>8 DEF CallInv
<1> QED  BY <1>1, <1>9, <1>13, <1>14 DEF CallInv

LEMMA CallNextInv ==
  ASSUME CallInv, RegistryInv, MintApart, [RegistrationNext]_registrationVars
  PROVE  CallInv'
<1>1. ASSUME NEW p \in Starters, Start(p) \/ ClientStep(p) \/ WaitTimesOut(p) PROVE CallInv'
  BY <1>1, StartInv, ClientStepInv, WaitInv
<1>2. ASSUME NEW a \in Accounts, Mine(a) PROVE CallInv'
  BY <1>2, MineInv
<1>3. CASE OwnerActs
  BY <1>3, OwnerActsInv
<1>4. CASE UNCHANGED registrationVars
  <2>1. \A p \in Starters : Sound(p)' <=> Sound(p)
    BY <1>4 DEF registrationVars, clientVars, registryVars, agentVars, Sound, Owns, Pool, Waiting
  <2>2. \A a \in Accounts : Pool(a)' = Pool(a)
    BY <1>4 DEF registrationVars, clientVars, Pool
  <2>3. ClientIInv'
    BY <1>4, RegistrationStep DEF CallInv
  <2> QED  BY <1>4, <2>1, <2>2, <2>3 DEF CallInv, registrationVars, clientVars
<1> QED  BY <1>1, <1>2, <1>3, <1>4 DEF RegistrationNext

\* Both the calls and the contract keep their invariants.
RegistrationIInv == CallInv /\ RegistryInv /\ MintApart

LEMMA RegistrationNextInv ==
  RegistrationIInv /\ [RegistrationNext]_registrationVars => RegistrationIInv'
<1>1. CallInv /\ [RegistrationNext]_registrationVars => [RegistryNext]_registryVars
  BY RegistrationStep DEF CallInv
<1> QED  BY <1>1, CallNextInv, RegistryNextInv, MintApartInv DEF RegistrationIInv

LEMMA RegistrationInitInv == RegistrationInit => RegistrationIInv
BY CallInitInv, RegistryInitInv
   DEF RegistrationInit, RegistryInit, RegistrationIInv, MintApart

\* A call of the registration code that reports success has put the registration there: the
\* key's own token carries the wanted agentURI, for any number of processes, keys, transactions
\* left behind and failed calls to the node, unless something else touched it meanwhile.
THEOREM SuccessIsReal == RegistrationSpec => []SuccessIsOnChain
<1>1. RegistrationIInv => SuccessIsOnChain
  BY DEF RegistrationIInv, CallInv, Sound, SuccessIsOnChain, Owns
<1> QED  BY <1>1, RegistrationInitInv, RegistrationNextInv, PTL DEF RegistrationSpec

-----------------------------------------------------------------------------
(***************************************************************************)
(* How many transactions wait: every one was sent by a call that had       *)
(* started, and a call sends one at most.                                  *)
(***************************************************************************)

\* The stages of a call that has not sent its transaction.
Unsent == {"check", "lookup", "read", "authorise", "sendUpdate", "sendRegister"}

\* How many transactions the calls of each process may have sent: one each, but for the call
\* that is under way and has sent none.
MaySend == [p \in Starters |-> IF stage[p] \in Unsent THEN starts[p] - 1 ELSE starts[p]]

\* No more transactions wait than were sent, and no more were sent than calls were started.
PoolsBounded ==
  /\ \A p \in Starters : stage[p] \in Unsent => starts[p] >= 1
  /\ SumFunctionOnSet(starts, Starters) <= MaxStarts
  /\ \A a \in Accounts : Len(mempool[a]) <= SumFunctionOnSet(MaySend, Starters)

\* Sums of what each process may send are natural numbers, like those of its starts.
LEMMA MaySendNat ==
  ASSUME starts \in [Starters -> Nat], PoolsBounded
  PROVE  /\ \A p \in Starters : MaySend[p] \in Nat
         /\ SumFunctionOnSet(MaySend, Starters) \in Nat
         /\ SumFunctionOnSet(starts, Starters) \in Nat
<1>1. ASSUME NEW p \in Starters PROVE MaySend[p] \in Nat
  <2>1. PICK n \in Nat : n = starts[p]
    OBVIOUS
  <2>2. CASE stage[p] \in Unsent
    <3>1. n >= 1 /\ MaySend[p] = n - 1
      BY <2>1, <2>2 DEF PoolsBounded, MaySend
    <3> QED  BY <3>1
  <2>3. CASE stage[p] \notin Unsent
    BY <2>3 DEF MaySend
  <2> QED  BY <2>2, <2>3
<1>2. \A p \in Starters : starts[p] \in Nat
  OBVIOUS
<1> QED  BY <1>1, <1>2, SumNat, ClientAssumption

\* What a sum over the processes becomes when one of them changes.
LEMMA ChangeOfStarter ==
  ASSUME NEW f, NEW g, NEW p \in Starters,
         \A q \in Starters : f[q] \in Int /\ g[q] \in Int,
         \A q \in Starters \ {p} : f[q] = g[q]
  PROVE  SumFunctionOnSet(g, Starters) = SumFunctionOnSet(f, Starters) - f[p] + g[p]
<1>1. IsFiniteSet(Starters)
  BY ClientAssumption
<1> QED  BY <1>1, SumChange

\* A step of one process that starts no call: no process may send less.
LEMMA KeepsBounds ==
  ASSUME starts \in [Starters -> Nat], stage \in [Starters -> ClientStages], PoolsBounded,
         NEW p \in Starters, NEW next, stage' = [stage EXCEPT ![p] = next], UNCHANGED starts,
         next \in Unsent => stage[p] \in Unsent,
         \A a \in Accounts : /\ Len(mempool[a]) \in Nat /\ Len(mempool'[a]) \in Nat
                             /\ \/ Len(mempool'[a]) <= Len(mempool[a])
                                \/ /\ stage[p] \in Unsent /\ next \notin Unsent
                                   /\ Len(mempool'[a]) <= Len(mempool[a]) + 1
  PROVE  PoolsBounded'
<1> DEFINE more == IF stage[p] \in Unsent /\ next \notin Unsent THEN 1 ELSE 0
<1>1. /\ \A q \in Starters : MaySend[q] \in Nat
      /\ SumFunctionOnSet(MaySend, Starters) \in Nat
  BY MaySendNat
<1>2. \A q \in Starters : q # p => MaySend'[q] = MaySend[q]
  BY DEF MaySend
<1>3. PICK n \in Nat : n = starts[p]
  OBVIOUS
<1>4. PICK k \in Nat : k = MaySend[p]
  BY <1>1
<1>5. MaySend'[p] \in Nat /\ MaySend'[p] >= k + more
  <2>1. stage'[p] = next /\ starts'[p] = n
    BY <1>3
  <2>2. MaySend'[p] = IF next \in Unsent THEN n - 1 ELSE n
    BY <2>1 DEF MaySend
  <2>3. k = IF stage[p] \in Unsent THEN n - 1 ELSE n
    BY <1>3, <1>4 DEF MaySend
  <2> QED  BY <1>3, <1>4, <2>2, <2>3
<1>6. PICK f, g : f = MaySend /\ g = MaySend'
  OBVIOUS
<1>7. /\ \A q \in Starters : f[q] \in Int /\ g[q] \in Int
      /\ \A q \in Starters \ {p} : f[q] = g[q]
  BY <1>1, <1>2, <1>5, <1>6
<1>8. SumFunctionOnSet(g, Starters) = SumFunctionOnSet(f, Starters) - f[p] + g[p]
  BY <1>7, ChangeOfStarter
<1>9. ASSUME NEW a \in Accounts
      PROVE  Len(mempool'[a]) <= SumFunctionOnSet(MaySend, Starters)'
  <2>1. PICK s \in Nat, l \in Nat, m \in Nat, d \in Nat :
          /\ s = SumFunctionOnSet(f, Starters) /\ l = Len(mempool[a]) /\ m = Len(mempool'[a])
          /\ d = g[p]
    BY <1>1, <1>5, <1>6
  <2>2. l <= s
    BY <1>6, <2>1 DEF PoolsBounded
  <2>3. m <= l + more /\ d >= k + more /\ f[p] = k
    <3>1. m <= l \/ (stage[p] \in Unsent /\ next \notin Unsent /\ m <= l + 1)
      BY <2>1
    <3>2. m <= l + more
      <4>1. CASE m <= l
        <5>1. more \in Nat
          OBVIOUS
        <5> HIDE DEF more
        <5> QED  BY <2>1, <4>1, <5>1
      <4>2. CASE stage[p] \in Unsent /\ next \notin Unsent /\ m <= l + 1
        <5>1. more = 1
          BY <4>2
        <5> QED  BY <4>2, <5>1
      <4> QED  BY <3>1, <4>1, <4>2
    <3> HIDE DEF more
    <3> QED  BY <1>4, <1>5, <1>6, <2>1, <3>2
  <2>4. SumFunctionOnSet(g, Starters) = s - k + d
    BY <1>8, <2>1, <2>3
  <2>5. m <= s - k + d
    <3>1. l \in Nat /\ m \in Nat /\ s \in Nat /\ d \in Nat /\ k \in Nat /\ more \in Nat
      BY <1>4, <2>1
    <3>2. l <= s /\ m <= l + more /\ d >= k + more
      BY <2>2, <2>3
    <3> QED  BY <3>1, <3>2
  <2> QED  BY <1>6, <2>1, <2>4, <2>5
<1>10. \A q \in Starters : stage'[q] \in Unsent => starts'[q] >= 1
  BY DEF PoolsBounded
<1> QED  BY <1>9, <1>10 DEF PoolsBounded

\* Before the first call nothing waits.
LEMMA PoolsInit == ClientInit => PoolsBounded
<1> SUFFICES ASSUME ClientInit PROVE PoolsBounded
  OBVIOUS
<1>1. /\ stage = [p \in Starters |-> "idle"] /\ starts = [p \in Starters |-> 0]
      /\ mempool = [a \in Accounts |-> << >>] /\ "idle" \notin Unsent
  BY DEF ClientInit, Unsent
<1>2. IsFiniteSet(Starters) /\ MaxStarts \in Nat
  BY ClientAssumption
<1>3. \A p \in Starters : starts[p] = 0 /\ MaySend[p] = 0 /\ stage[p] \notin Unsent
  BY <1>1 DEF MaySend
<1>4. SumFunctionOnSet(starts, Starters) = 0
  BY <1>2, <1>3, SumZero
<1>5. SumFunctionOnSet(MaySend, Starters) = 0
  <2>1. PICK f : f = MaySend
    OBVIOUS
  <2>2. \A p \in Starters : f[p] = 0
    BY <1>3, <2>1
  <2> QED  BY <1>2, <2>1, <2>2, SumZero
<1>6. \A a \in Accounts : Len(mempool[a]) = 0
  BY <1>1
<1> QED  BY <1>2, <1>3, <1>4, <1>5, <1>6 DEF PoolsBounded

\* A call begins, and may send nothing yet.
LEMMA StartBounds ==
  ASSUME CallInv, PoolsBounded, NEW p \in Starters, Start(p)
  PROVE  PoolsBounded'
<1>1. /\ starts \in [Starters -> Nat] /\ stage \in [Starters -> ClientStages]
      /\ IsFiniteSet(Starters) /\ MaxStarts \in Nat
  BY ClientAssumption DEF CallInv, ClientIInv
<1>2. /\ stage[p] = "idle" /\ "idle" \notin Unsent
      /\ starts' = [starts EXCEPT ![p] = @ + 1] /\ UNCHANGED mempool
      /\ SumFunction(starts) < MaxStarts
  BY DEF Start, Unsent
<1>3. PICK next \in Unsent : stage' = [stage EXCEPT ![p] = next]
  BY DEF Start, Unsent
<1>4. PICK n \in Nat : n = starts[p] /\ starts'[p] = n + 1
  BY <1>1, <1>2
<1>5. MaySend' = MaySend
  <2>1. MaySend'[p] = MaySend[p]
    <3>1. MaySend[p] = n
      BY <1>2, <1>4 DEF MaySend
    <3>2. stage'[p] \in Unsent
      BY <1>1, <1>3
    <3>3. MaySend'[p] = (n + 1) - 1
      BY <1>4, <3>2 DEF MaySend
    <3> QED  BY <3>1, <3>3
  <2>2. \A q \in Starters : q # p => MaySend'[q] = MaySend[q]
    BY <1>1, <1>2, <1>3 DEF MaySend
  <2> QED  BY <2>1, <2>2 DEF MaySend
<1>6. SumFunctionOnSet(starts', Starters) <= MaxStarts
  <2>1. /\ \A q \in Starters : starts[q] \in Int /\ starts'[q] \in Int
        /\ \A q \in Starters \ {p} : starts[q] = starts'[q]
    BY <1>1, <1>2
  <2>2. SumFunctionOnSet(starts', Starters) = SumFunctionOnSet(starts, Starters) - n + (n + 1)
    BY <1>1, <1>4, <2>1, SumChange
  <2>3. SumFunctionOnSet(starts, Starters) < MaxStarts
    BY <1>1, <1>2 DEF SumFunction
  <2>4. PICK s \in Nat : s = SumFunctionOnSet(starts, Starters)
    BY <1>1, MaySendNat
  <2> QED  BY <1>1, <2>2, <2>3, <2>4
<1>7. ASSUME NEW q \in Starters, stage'[q] \in Unsent PROVE starts'[q] >= 1
  <2>1. CASE q = p
    BY <1>4, <2>1
  <2>2. CASE q # p
    BY <1>1, <1>2, <1>3, <1>7, <2>2 DEF PoolsBounded
  <2> QED  BY <2>1, <2>2
<1>8. \A a \in Accounts : Len(mempool'[a]) <= SumFunctionOnSet(MaySend', Starters)
  BY <1>2, <1>5 DEF PoolsBounded
<1> QED  BY <1>6, <1>7, <1>8 DEF PoolsBounded

\* A process goes on, ends its call, or sends.
LEMMA ProcessBounds ==
  ASSUME CallInv, PoolsBounded, NEW p \in Starters, ClientStep(p) \/ WaitTimesOut(p)
  PROVE  PoolsBounded'
<1>1. /\ starts \in [Starters -> Nat] /\ stage \in [Starters -> ClientStages]
      /\ mempool \in [Accounts -> Seq(Tx)]
  BY DEF CallInv, ClientIInv
<1>2. \A a \in Accounts : Len(mempool[a]) \in Nat
  BY <1>1
<1>3. ASSUME NEW next, NEW id, Goto(p, next, id), stage[p] \in Unsent PROVE PoolsBounded'
  <2>1. stage' = [stage EXCEPT ![p] = next] /\ UNCHANGED <<starts, mempool>>
    BY <1>3 DEF Goto
  <2>2. \A a \in Accounts : Len(mempool'[a]) \in Nat /\ Len(mempool'[a]) <= Len(mempool[a])
    BY <1>2, <2>1
  <2> QED  BY <1>1, <1>2, <1>3, <2>1, <2>2, KeepsBounds
<1>4. ASSUME NEW result, NEW id, End(p, result, id) PROVE PoolsBounded'
  <2>1. stage' = [stage EXCEPT ![p] = "idle"] /\ UNCHANGED <<starts, mempool>>
    BY <1>4 DEF End
  <2>2. \A a \in Accounts : Len(mempool'[a]) \in Nat /\ Len(mempool'[a]) <= Len(mempool[a])
    BY <1>2, <2>1
  <2>3. "idle" \notin Unsent
    BY DEF Unsent
  <2> QED  BY <1>1, <1>2, <2>1, <2>2, <2>3, KeepsBounds
<1>5. ASSUME NEW tx \in Tx, Send(p, tx), stage[p] \in Unsent PROVE PoolsBounded'
  <2>1. /\ stage' = [stage EXCEPT ![p] = "wait"] /\ UNCHANGED starts
        /\ mempool' = [mempool EXCEPT ![KeyOf(p)] = Append(@, tx)]
    BY <1>5 DEF Send
  <2>2. ASSUME NEW a \in Accounts
        PROVE  Len(mempool'[a]) \in Nat /\ Len(mempool'[a]) <= Len(mempool[a]) + 1
    <3>1. PICK l \in Nat : l = Len(mempool[a]) /\ Len(Append(mempool[a], tx)) = l + 1
      BY <1>1
    <3>2. mempool'[a] = mempool[a] \/ mempool'[a] = Append(mempool[a], tx)
      BY <1>1, <2>1
    <3> QED  BY <3>1, <3>2
  <2>3. "wait" \notin Unsent
    BY DEF Unsent
  <2> QED  BY <1>1, <1>2, <1>5, <2>1, <2>2, <2>3, KeepsBounds
<1>6. ASSUME NEW id \in 0..MaxAgents PROVE [by |-> p, start |-> starts[p], id |-> id] \in Tx
  BY <1>1 DEF Tx
<1>7. token[p] \in 0..MaxAgents /\ 0 \in 0..MaxAgents
  BY RegistryAssumption DEF CallInv, ClientIInv
<1>8. CASE CheckDuplicate(p)
  BY <1>3, <1>8 DEF CheckDuplicate, Unsent
<1>9. CASE LookupTokenID(p)
  BY <1>3, <1>4, <1>9 DEF LookupTokenID, Unsent
<1>10. CASE ReadURI(p)
  BY <1>3, <1>4, <1>10 DEF ReadURI, Unsent
<1>11. CASE Authorise(p)
  BY <1>3, <1>4, <1>11 DEF Authorise, Unsent
<1>12. CASE SendRegister(p)
  BY <1>4, <1>5, <1>6, <1>7, <1>12 DEF SendRegister, Unsent
<1>13. CASE UpdateAgentURI(p)
  BY <1>4, <1>5, <1>6, <1>7, <1>13 DEF UpdateAgentURI, Unsent
<1>14. CASE VerifyOwner(p) \/ WaitTimesOut(p)
  BY <1>4, <1>14 DEF VerifyOwner, WaitTimesOut
<1> QED  BY <1>8, <1>9, <1>10, <1>11, <1>12, <1>13, <1>14 DEF ClientStep

\* A transaction leaves its mempool.
LEMMA MineBounds ==
  ASSUME CallInv, PoolsBounded, NEW a \in Accounts, Mine(a)
  PROVE  PoolsBounded'
<1>1. /\ starts \in [Starters -> Nat] /\ stage \in [Starters -> ClientStages]
      /\ mempool \in [Accounts -> Seq(Tx)]
  BY DEF CallInv, ClientIInv
<1>2. PICK tx \in Tx : tx = Head(mempool[a])
  BY <1>1 DEF Mine
<1>3. UNCHANGED starts /\ mempool' = [mempool EXCEPT ![a] = Tail(@)] /\ mempool[a] # << >>
  BY DEF Mine
<1>4. ASSUME NEW b \in Accounts
      PROVE  /\ Len(mempool[b]) \in Nat /\ Len(mempool'[b]) \in Nat
             /\ Len(mempool'[b]) <= Len(mempool[b])
  <2>1. mempool'[b] = mempool[b] \/ (b = a /\ mempool'[b] = Tail(mempool[a]))
    BY <1>1, <1>3
  <2>2. PICK l \in Nat : l = Len(mempool[b])
    BY <1>1
  <2>3. PICK k \in Nat : k = Len(mempool[a])
    BY <1>1
  <2>4. Len(Tail(mempool[a])) = k - 1 /\ k >= 1
    <3>1. PICK s \in Seq(Tx) : s = mempool[a] /\ s # << >> /\ k = Len(s)
      BY <1>1, <1>3, <2>3
    <3>2. s = << >> \/ k >= 1
      BY <3>1, EmptySeq
    <3>3. Len(Tail(s)) = Len(s) - 1
      BY <3>1, HeadTailProperties
    <3> QED  BY <3>1, <3>2, <3>3
  <2>5. CASE mempool'[b] = mempool[b]
    BY <2>2, <2>5
  <2>6. CASE b = a /\ mempool'[b] = Tail(mempool[a])
    <3>1. Len(mempool'[b]) = k - 1 /\ Len(mempool[b]) = k
      BY <2>3, <2>4, <2>6
    <3> QED  BY <2>4, <3>1
  <2> QED  BY <2>1, <2>5, <2>6
<1>5. CASE UNCHANGED stage
  <2>1. MaySend' = MaySend
    BY <1>3, <1>5 DEF MaySend
  <2>2. ASSUME NEW b \in Accounts PROVE Len(mempool'[b]) <= SumFunctionOnSet(MaySend', Starters)
    <3>1. PICK s \in Nat : s = SumFunctionOnSet(MaySend, Starters)
      BY <1>1, MaySendNat
    <3>2. Len(mempool[b]) <= s
      BY <3>1 DEF PoolsBounded
    <3> QED  BY <1>4, <2>1, <3>1, <3>2
  <2> QED  BY <1>3, <1>5, <2>2 DEF PoolsBounded
<1>6. ASSUME NEW p \in Starters, NEW next \in {"verify", "idle"},
             stage' = [stage EXCEPT ![p] = next]
      PROVE  PoolsBounded'
  <2>1. next \notin Unsent
    BY DEF Unsent
  <2> QED  BY <1>1, <1>3, <1>4, <1>6, <2>1, KeepsBounds
<1>7. UNCHANGED stage \/ \E next \in {"verify", "idle"} : stage' = [stage EXCEPT ![tx.by] = next]
  BY <1>2 DEF Mine
<1>8. tx.by \in Starters
  BY DEF Tx
<1> QED  BY <1>5, <1>6, <1>7, <1>8

\* Every step keeps the bounds.
LEMMA PoolsNext ==
  ASSUME CallInv, PoolsBounded, [RegistrationNext]_registrationVars
  PROVE  PoolsBounded'
<1>1. CASE UNCHANGED <<stage, starts, mempool>>
  <2>1. MaySend' = MaySend
    BY <1>1 DEF MaySend
  <2> QED  BY <1>1, <2>1 DEF PoolsBounded
<1>2. ASSUME NEW p \in Starters, Start(p) \/ ClientStep(p) \/ WaitTimesOut(p) PROVE PoolsBounded'
  BY <1>2, StartBounds, ProcessBounds
<1>3. ASSUME NEW a \in Accounts, Mine(a) PROVE PoolsBounded'
  BY <1>3, MineBounds
<1>4. OwnerActs \/ UNCHANGED registrationVars => UNCHANGED <<stage, starts, mempool>>
  BY DEF OwnerActs, registrationVars, clientVars
<1> QED  BY <1>1, <1>2, <1>3, <1>4 DEF RegistrationNext

\* What the invariants say of the variables is what their types say.
LEMMA ClientTyped == ASSUME CallInv, PoolsBounded PROVE ClientTypeOK
<1>1. /\ starts \in [Starters -> Nat] /\ mempool \in [Accounts -> Seq(Tx)]
      /\ token \in [Starters -> 0..MaxAgents]
      /\ stage \in [Starters -> ClientStages] /\ outcome \in [Starters -> Outcomes]
  BY DEF CallInv, ClientIInv
<1>2. IsFiniteSet(Starters) /\ MaxStarts \in Nat
  BY ClientAssumption
<1>3. ASSUME NEW p \in Starters PROVE starts[p] \in 0..MaxStarts
  <2>1. PICK s \in Nat, n \in Nat : s = SumFunctionOnSet(starts, Starters) /\ n = starts[p]
    BY <1>1, MaySendNat
  <2>2. n <= s
    BY <1>1, <1>2, <2>1, TermAtMostSum
  <2>3. s <= MaxStarts
    BY <2>1 DEF PoolsBounded
  <2> QED  BY <1>2, <2>1, <2>2, <2>3
<1>4. SumFunctionOnSet(MaySend, Starters) <= SumFunctionOnSet(starts, Starters)
  <2>1. PICK f : f = MaySend
    OBVIOUS
  <2>2. ASSUME NEW p \in Starters PROVE f[p] \in Nat /\ starts[p] \in Nat /\ f[p] <= starts[p]
    <3>1. f[p] \in Nat /\ starts[p] \in Nat
      BY <1>1, <2>1, MaySendNat
    <3>2. f[p] = starts[p] - 1 \/ f[p] = starts[p]
      BY <2>1 DEF MaySend
    <3> QED  BY <3>1, <3>2
  <2> QED  BY <1>2, <2>1, <2>2, SumMonotone
<1>5. ASSUME NEW a \in Accounts PROVE Len(mempool[a]) <= MaxStarts
  <2>1. PICK s \in Nat, t \in Nat, l \in Nat :
          /\ s = SumFunctionOnSet(MaySend, Starters) /\ t = SumFunctionOnSet(starts, Starters)
          /\ l = Len(mempool[a])
    BY <1>1, MaySendNat
  <2>2. l <= s /\ s <= t /\ t <= MaxStarts
    BY <1>4, <2>1 DEF PoolsBounded
  <2> QED  BY <1>2, <2>1, <2>2
<1>6. starts \in [Starters -> 0..MaxStarts]
  BY <1>1, <1>3
<1> QED  BY <1>1, <1>5, <1>6 DEF ClientTypeOK

\* The variables of the registry and of the programs that write to it keep their types, and no
\* mempool holds more transactions than calls were started (register_or_update.go).
THEOREM ClientTypeCorrect == RegistrationSpec => [](RegistryTypeOK /\ ClientTypeOK)
<1>1. RegistrationInit => RegistrationIInv /\ PoolsBounded
  BY RegistrationInitInv, PoolsInit DEF RegistrationInit
<1>2. RegistrationIInv /\ PoolsBounded /\ [RegistrationNext]_registrationVars
        => RegistrationIInv' /\ PoolsBounded'
  BY RegistrationNextInv, PoolsNext DEF RegistrationIInv
<1>3. RegistrationIInv /\ PoolsBounded => RegistryTypeOK /\ ClientTypeOK
  BY ClientTyped DEF RegistrationIInv, RegistryInv
<1> QED  BY <1>1, <1>2, <1>3, PTL DEF RegistrationSpec

-----------------------------------------------------------------------------
(***************************************************************************)
(* ServiceStore.  One caller at a time is between its load and its rename, *)
(* and nobody else touches the file meanwhile but a power loss, which ends *)
(* the caller too: so what it will rename is still its change applied to   *)
(* the file.  A file is synced before it gets its name.                    *)
(***************************************************************************)
OneWriter == \A g, h \in Goroutines : call[g] # Idle /\ call[h] # Idle => g = h

WritesItsChange ==
  \A g \in Goroutines : call[g] # Idle =>
    call[g].entries = Apply(file.entries, call[g].put, call[g].drop)

FilesAreSynced == ~file.torn /\ file.synced /\ ~onDisk.torn /\ onDisk.synced

StoreInv ==
  /\ StoreTypeOK
  /\ DOMAIN call = Goroutines
  /\ \A g \in Goroutines : call[g] # Idle => call[g].put \in Entries
  /\ OneWriter /\ WritesItsChange /\ FilesAreSynced
  /\ FileIsWhatWasSaved /\ TempFilesAreRemoved /\ ReplayIsExact

LEMMA EmptyIsEntries == << >> \in Entries
<1>1. << >> \in [{} -> ActiveServiceEntry]
  OBVIOUS
<1> QED  BY <1>1 DEF Entries

\* A change and what has not expired of a list of entries are lists of entries.
LEMMA ApplyEntries ==
  ASSUME NEW entries \in Entries, NEW put \in Entries, NEW drop
  PROVE  Apply(entries, put, drop) \in Entries
<1>1. PICK R \in SUBSET RequestIDs, Q \in SUBSET RequestIDs :
        entries \in [R -> ActiveServiceEntry] /\ put \in [Q -> ActiveServiceEntry]
  BY DEF Entries
<1>2. Apply(entries, put, drop) \in [Q \cup (R \ drop) -> ActiveServiceEntry]
  BY <1>1 DEF Apply
<1> QED  BY <1>2 DEF Entries

LEMMA LiveEntries ==
  ASSUME NEW entries \in Entries
  PROVE  DOMAIN Live(entries) \subseteq DOMAIN entries /\ DOMAIN entries \subseteq RequestIDs
BY DEF Live, Restrict, Entries

LEMMA StoreInitInv == StoreInit => StoreInv
<1> SUFFICES ASSUME StoreInit PROVE StoreInv
  OBVIOUS
<1> USE DEF StoreInit
<1>1. StoreTypeOK
  BY EmptyIsEntries, StoreAssumption DEF StoreTypeOK, File, Empty
<1>2. OneWriter /\ WritesItsChange /\ FilesAreSynced
  BY DEF OneWriter, WritesItsChange, FilesAreSynced, Empty
<1>3. FileIsWhatWasSaved /\ TempFilesAreRemoved /\ ReplayIsExact
  BY DEF FileIsWhatWasSaved, TempFilesAreRemoved, ReplayIsExact, Empty, None
<1> QED  BY <1>1, <1>2, <1>3 DEF StoreInv

LEMMA RewriteInv ==
  ASSUME StoreInv, NEW g \in Goroutines, NEW put \in Entries, NEW drop \in SUBSET RequestIDs,
         Rewrite(g, put, drop)
  PROVE  StoreInv'
<1> DEFINE new == [stage |-> "create", put |-> put, drop |-> drop,
                   entries |-> Apply(file.entries, put, drop)]
<1>1. /\ \A h \in Goroutines : call[h] = Idle
      /\ call' = [call EXCEPT ![g] = new]
      /\ UNCHANGED <<file, onDisk, storeClock, litter, crashes, kept, powerLost, replayed>>
  BY DEF Rewrite, Locked
<1>2. file \in File /\ file.entries \in Entries
  BY DEF StoreInv, StoreTypeOK, File
<1>3. /\ new \in [stage: {Stages[i] : i \in 1..5}, entries: Entries, put: Entries,
                  drop: SUBSET RequestIDs]
      /\ new.put = put /\ new.drop = drop /\ new.entries = Apply(file.entries, put, drop)
  <2>1. "create" \in {Stages[i] : i \in 1..5}
    <3>1. Stages[1] = "create"
      BY DEF Stages
    <3> QED  BY <3>1
  <2> QED  BY <1>2, <2>1, ApplyEntries
<1> HIDE DEF new
<1>4. \A h \in Goroutines : call'[h] = IF h = g THEN new ELSE Idle
  BY <1>1 DEF StoreInv
<1>5. StoreTypeOK'
  BY <1>1, <1>3, <1>4 DEF StoreInv, StoreTypeOK
<1>6. OneWriter' /\ WritesItsChange' /\ FilesAreSynced'
  BY <1>1, <1>3, <1>4 DEF StoreInv, OneWriter, WritesItsChange, FilesAreSynced
<1>7. FileIsWhatWasSaved' /\ TempFilesAreRemoved' /\ ReplayIsExact'
  BY <1>1 DEF StoreInv, FileIsWhatWasSaved, TempFilesAreRemoved, ReplayIsExact, Live, Expired,
              Restrict
<1> QED  BY <1>1, <1>3, <1>4, <1>5, <1>6, <1>7 DEF StoreInv

LEMMA WriteTempInv ==
  ASSUME StoreInv, NEW g \in Goroutines, WriteTemp(g)
  PROVE  StoreInv'
<1>1. /\ call[g].stage \in {"create", "write", "sync", "close"}
      /\ call' = [call EXCEPT ![g].stage = Following(call[g].stage)]
      /\ UNCHANGED <<file, onDisk, storeClock, litter, crashes, kept, powerLost, replayed>>
  BY DEF WriteTemp
<1>2. call[g] # Idle
  BY <1>1 DEF Idle
<1>3. Following(call[g].stage) \in {Stages[i] : i \in 1..5}
  <2>1. \E i \in 1..4 : Stages[i] = call[g].stage
    BY <1>1 DEF Stages
  <2>2. PICK i \in 1..4 : Following(call[g].stage) = Stages[i + 1]
    BY <2>1 DEF Following
  <2>3. i + 1 \in 1..5
    OBVIOUS
  <2> QED  BY <2>2, <2>3
<1>4. /\ call[g] \in [stage: {Stages[i] : i \in 1..5}, entries: Entries, put: Entries,
                      drop: SUBSET RequestIDs]
      /\ DOMAIN call = Goroutines
  BY <1>2 DEF StoreInv, StoreTypeOK
<1>5. /\ call'[g] \in [stage: {Stages[i] : i \in 1..5}, entries: Entries, put: Entries,
                       drop: SUBSET RequestIDs]
      /\ call'[g].entries = call[g].entries /\ call'[g].put = call[g].put
      /\ call'[g].drop = call[g].drop
      /\ \A h \in Goroutines \ {g} : call'[h] = call[h]
      /\ DOMAIN call' = Goroutines
  BY <1>1, <1>3, <1>4
<1>6. StoreTypeOK'
  BY <1>1, <1>5 DEF StoreInv, StoreTypeOK
<1>7. OneWriter' /\ WritesItsChange' /\ FilesAreSynced'
  BY <1>1, <1>2, <1>5 DEF StoreInv, OneWriter, WritesItsChange, FilesAreSynced
<1>8. FileIsWhatWasSaved' /\ TempFilesAreRemoved' /\ ReplayIsExact'
  BY <1>1 DEF StoreInv, FileIsWhatWasSaved, TempFilesAreRemoved, ReplayIsExact, Live, Expired,
              Restrict
<1> QED  BY <1>1, <1>5, <1>6, <1>7, <1>8 DEF StoreInv

LEMMA RenameInv ==
  ASSUME StoreInv, NEW g \in Goroutines, Rename(g)
  PROVE  StoreInv'
<1>1. /\ call[g].stage = "rename"
      /\ file' = [entries |-> call[g].entries, synced |-> TRUE, torn |-> FALSE]
      /\ kept' = Apply(kept, call[g].put, call[g].drop)
      /\ call' = [call EXCEPT ![g] = Idle]
      /\ replayed' = None
      /\ UNCHANGED <<onDisk, storeClock, litter, crashes, powerLost>>
  BY DEF Rename
<1>2. /\ call[g] # Idle
      /\ DOMAIN call = Goroutines
  BY <1>1 DEF Idle, StoreInv
<1>3. /\ call[g].entries \in Entries /\ call[g].put \in Entries /\ kept \in Entries
      /\ call[g].entries = Apply(file.entries, call[g].put, call[g].drop)
  BY <1>2 DEF StoreInv, StoreTypeOK, WritesItsChange
<1>4. \A h \in Goroutines : call'[h] = Idle
  BY <1>1, <1>2 DEF StoreInv, OneWriter
<1>5. StoreTypeOK'
  BY <1>1, <1>3, <1>4, ApplyEntries DEF StoreInv, StoreTypeOK, File
<1>6. OneWriter' /\ WritesItsChange' /\ FilesAreSynced'
  BY <1>1, <1>4 DEF StoreInv, OneWriter, WritesItsChange, FilesAreSynced
<1>7. FileIsWhatWasSaved' /\ TempFilesAreRemoved' /\ ReplayIsExact'
  BY <1>1, <1>3 DEF StoreInv, FileIsWhatWasSaved, TempFilesAreRemoved, ReplayIsExact, None
<1> QED  BY <1>1, <1>2, <1>4, <1>5, <1>6, <1>7 DEF StoreInv

LEMMA FailInv ==
  ASSUME StoreInv, NEW g \in Goroutines, Fail(g)
  PROVE  StoreInv'
<1>1. /\ call' = [call EXCEPT ![g] = Idle]
      /\ UNCHANGED <<file, onDisk, storeClock, litter, crashes, kept, powerLost, replayed>>
      /\ DOMAIN call = Goroutines
  BY DEF Fail, StoreInv
<1>2. \A h \in Goroutines : call'[h] = Idle \/ call'[h] = call[h]
  BY <1>1
<1>3. StoreTypeOK'
  BY <1>1, <1>2 DEF StoreInv, StoreTypeOK
<1>4. OneWriter' /\ WritesItsChange' /\ FilesAreSynced'
  BY <1>1, <1>2 DEF StoreInv, OneWriter, WritesItsChange, FilesAreSynced
<1>5. FileIsWhatWasSaved' /\ TempFilesAreRemoved' /\ ReplayIsExact'
  BY <1>1 DEF StoreInv, FileIsWhatWasSaved, TempFilesAreRemoved, ReplayIsExact, Live, Expired,
              Restrict
<1> QED  BY <1>1, <1>2, <1>3, <1>4, <1>5 DEF StoreInv

\* A kill ends the callers; a power loss does, and brings back a file that was synced.
LEMMA CrashInv ==
  ASSUME StoreInv, Kill \/ PowerLoss
  PROVE  StoreInv'
<1>1. /\ crashes < MaxCrashes /\ crashes' = crashes + 1
      /\ call' = [g \in Goroutines |-> Idle]
      /\ litter' \in {litter, litter + 1}
      /\ UNCHANGED <<storeClock, kept, replayed>>
  BY DEF Kill, PowerLoss
<1>2. /\ file \in File /\ onDisk \in File /\ FilesAreSynced
      /\ crashes \in 0..MaxCrashes /\ litter \in 0..MaxCrashes /\ litter <= crashes
      /\ MaxCrashes \in Nat
  BY StoreAssumption DEF StoreInv, StoreTypeOK, TempFilesAreRemoved
<1>3. /\ file' \in File /\ onDisk' \in File /\ FilesAreSynced'
      /\ UNCHANGED <<file, powerLost>> \/ powerLost'
  <2>1. CASE Kill
    BY <1>2, <2>1 DEF Kill, FilesAreSynced
  <2>2. CASE PowerLoss
    <3>1. file' = [onDisk EXCEPT !.torn = ~onDisk.synced] /\ onDisk' = file' /\ powerLost'
      BY <2>2 DEF PowerLoss
    <3> QED  BY <1>2, <3>1 DEF File, FilesAreSynced
  <2> QED  BY <2>1, <2>2
<1>4. crashes' \in 0..MaxCrashes /\ litter' \in 0..MaxCrashes /\ TempFilesAreRemoved'
  BY <1>1, <1>2 DEF TempFilesAreRemoved
<1>5. StoreTypeOK'
  BY <1>1, <1>3, <1>4 DEF StoreInv, StoreTypeOK
<1>6. OneWriter' /\ WritesItsChange'
  BY <1>1 DEF OneWriter, WritesItsChange
<1>7. FileIsWhatWasSaved' /\ ReplayIsExact'
  BY <1>1, <1>3 DEF StoreInv, FileIsWhatWasSaved, ReplayIsExact, Live, Expired, Restrict
<1> QED  BY <1>1, <1>3, <1>4, <1>5, <1>6, <1>7 DEF StoreInv

\* Reading the file, writing it back, and time.
LEMMA ReadInv ==
  ASSUME StoreInv, Replay \/ Flush \/ StoreTick
  PROVE  StoreInv'
<1> USE DEF StoreInv, StoreTypeOK, OneWriter, WritesItsChange, FilesAreSynced,
            FileIsWhatWasSaved, TempFilesAreRemoved, ReplayIsExact
<1>1. CASE Replay
  BY <1>1 DEF Replay, Live, Expired, Restrict
<1>2. CASE Flush
  BY <1>2 DEF Flush, Live, Expired, Restrict
<1>3. CASE StoreTick
  BY <1>3, StoreAssumption DEF StoreTick, None
<1> QED  BY <1>1, <1>2, <1>3

LEMMA StoreNextInv == StoreInv /\ [StoreNext]_storeVars => StoreInv'
<1> SUFFICES ASSUME StoreInv, [StoreNext]_storeVars PROVE StoreInv'
  OBVIOUS
<1>1. ASSUME NEW g \in Goroutines, NEW id \in RequestIDs, NEW entry \in ActiveServiceEntry,
             Save(g, id, entry)
      PROVE  StoreInv'
  <2>1. [i \in {id} |-> entry] \in Entries
    <3>1. [i \in {id} |-> entry] \in [{id} -> ActiveServiceEntry]
      OBVIOUS
    <3> QED  BY <3>1 DEF Entries
  <2> QED  BY <1>1, <2>1, RewriteInv DEF Save
<1>2. ASSUME NEW g \in Goroutines, NEW id \in RequestIDs, Delete(g, id) PROVE StoreInv'
  <2>1. Rewrite(g, << >>, {id}) /\ {id} \in SUBSET RequestIDs
    BY <1>2 DEF Delete
  <2> QED  BY <2>1, EmptyIsEntries, RewriteInv
<1>3. ASSUME NEW g \in Goroutines, Evict(g) PROVE StoreInv'
  <2>1. PICK drop : drop = DOMAIN file.entries \ DOMAIN Live(file.entries)
    OBVIOUS
  <2>2. drop \in SUBSET RequestIDs
    BY <2>1, LiveEntries DEF StoreInv, StoreTypeOK, File
  <2>3. Rewrite(g, << >>, drop)
    BY <1>3, <2>1 DEF Evict
  <2> QED  BY <2>2, <2>3, EmptyIsEntries, RewriteInv
<1>4. ASSUME NEW g \in Goroutines, WriteTemp(g) \/ Rename(g) \/ Fail(g) PROVE StoreInv'
  BY <1>4, WriteTempInv, RenameInv, FailInv
<1>5. CASE Replay \/ Flush \/ StoreTick
  BY <1>5, ReadInv
<1>6. CASE Kill \/ PowerLoss
  BY <1>6, CrashInv
<1>7. CASE UNCHANGED storeVars
  BY <1>7 DEF storeVars, StoreInv, StoreTypeOK, OneWriter, WritesItsChange, FilesAreSynced,
              FileIsWhatWasSaved, TempFilesAreRemoved, ReplayIsExact, Live, Expired, Restrict
<1> QED  BY <1>1, <1>2, <1>3, <1>4, <1>5, <1>6, <1>7 DEF StoreNext

LEMMA StoreSpecInv == StoreSpec => []StoreInv
BY StoreInitInv, StoreNextInv, PTL DEF StoreSpec

\* The variables of the store keep their types.
THEOREM StoreTypeCorrect == StoreSpec => []StoreTypeOK
<1>1. StoreInv => StoreTypeOK
  BY DEF StoreInv
<1> QED  BY <1>1, StoreSpecInv, PTL

\* The file of active services parses after any kill and any power loss, and is all that is left
\* but for one temporary file a crash.  As long as the power holds, it is what the calls that
\* returned nil amount to, and a restart takes up exactly what it should; a power loss may bring
\* an older file back.  For any number of callers, services, failures and crashes.
THEOREM StoreIsDurable == StoreSpec => []StoreKeeps
<1>1. StoreInv => StoreKeeps
  BY DEF StoreInv, StoreKeeps, FilesAreSynced, FileIsWhole
<1> QED  BY <1>1, StoreSpecInv, PTL

-----------------------------------------------------------------------------
(***************************************************************************)
(* MemoryEscrow.  What an escrow has promised it holds, a release has one  *)
(* number and one escrow, and so every method is a step of EscrowPromise   *)
(* or changes nothing it speaks of.                                        *)
(***************************************************************************)
\* A record of an escrow that covers its releases.
Backed(k) == SumFunction(k.releases) <= k.balance

OneHolder ==
  \A e, f \in DOMAIN memEscrows, r \in ReleaseLocators :
    r \in DOMAIN memEscrows[e].releases /\ r \in DOMAIN memEscrows[f].releases => e = f

NumberedSoFar ==
  \A e \in DOMAIN memEscrows, r \in ReleaseLocators :
    r \in DOMAIN memEscrows[e].releases => r <= releaseID

MemInv ==
  /\ memEscrows \in Seq(memoryEscrowState) /\ nextID = Len(memEscrows) /\ nextID <= MaxNextID
  /\ releaseID \in 0..MaxRelease /\ simClock \in 0..MaxClock
  /\ \A e \in DOMAIN memEscrows : Backed(memEscrows[e])
  /\ OneHolder /\ NumberedSoFar

Releases == UNION {[R -> Amount] : R \in SUBSET ReleaseLocators}

LEMMA ReleasesAre ==
  ASSUME NEW rs \in Releases
  PROVE  /\ DOMAIN rs \subseteq ReleaseLocators /\ IsFiniteSet(DOMAIN rs)
         /\ \A r \in DOMAIN rs : rs[r] \in Nat \ {0}
         /\ rs \in [DOMAIN rs -> Amount]
<1>1. PICK R \in SUBSET ReleaseLocators : rs \in [R -> Amount]
  BY DEF Releases
<1>2. IsFiniteSet(R)
  <2>1. MaxRelease \in Int
    BY MemAssumption
  <2>2. IsFiniteSet(ReleaseLocators)
    BY <2>1, FS_Interval DEF ReleaseLocators
  <2> QED  BY <2>2, FS_Subset
<1> QED  BY <1>1, <1>2, MemAssumption

LEMMA StateFields ==
  ASSUME NEW k
  PROVE  k \in memoryEscrowState =>
           /\ k.timeout \in Nat /\ k.balance \in 0..MaxBalance /\ k.balance \in Nat
           /\ k.released \in Nat /\ k.releases \in Releases
<1>1. memoryEscrowState = [timeout: Timeout, balance: 0..MaxBalance, released: Nat,
                           state: {"created", "funded", "released", "refunded"},
                           releases: Releases]
  BY DEF memoryEscrowState, Releases
<1>2. Timeout \subseteq Nat /\ 0..MaxBalance \subseteq Nat
  BY MemAssumption
<1> QED  BY <1>1, <1>2

LEMMA NoReleases == << >> \in Releases /\ SumFunction(<< >>) = 0
<1>1. << >> \in [{} -> Amount] /\ DOMAIN << >> = {}
  OBVIOUS
<1> QED  BY <1>1, SumEmpty DEF Releases, SumFunction

\* One more release, and one release less.
LEMMA MoreReleases ==
  ASSUME NEW rs \in Releases, NEW c \in ReleaseLocators \ DOMAIN rs, NEW n \in Amount, NEW more,
         more = [r \in DOMAIN rs \cup {c} |-> IF r = c THEN n ELSE rs[r]]
  PROVE  more \in Releases /\ SumFunction(more) = SumFunction(rs) + n
<1>1. /\ DOMAIN rs \subseteq ReleaseLocators /\ IsFiniteSet(DOMAIN rs)
      /\ \A r \in DOMAIN rs : rs[r] \in Nat \ {0}
      /\ rs \in [DOMAIN rs -> Amount]
  BY ReleasesAre
<1>2. more \in [DOMAIN rs \cup {c} -> Amount]
  BY <1>1
<1>3. IsFiniteSet(DOMAIN rs \cup {c}) /\ n \in Nat
  BY <1>1, FS_AddElement, MemAssumption
<1>4. SumFunctionOnSet(more, DOMAIN rs \cup {c})
        = more[c] + SumFunctionOnSet(more, (DOMAIN rs \cup {c}) \ {c})
  <2>1. \A r \in DOMAIN rs \cup {c} : more[r] \in Int
    BY <1>1, <1>3
  <2> QED  BY <1>3, <2>1, SumRemove
<1>5. (DOMAIN rs \cup {c}) \ {c} = DOMAIN rs /\ more[c] = n /\ DOMAIN more = DOMAIN rs \cup {c}
  OBVIOUS
<1>6. SumFunctionOnSet(more, DOMAIN rs) = SumFunctionOnSet(rs, DOMAIN rs)
  BY <1>1, SumSame
<1>7. SumFunctionOnSet(rs, DOMAIN rs) \in Int
  BY <1>1, SumInt
<1>8. more \in Releases
  <2>1. DOMAIN rs \cup {c} \in SUBSET ReleaseLocators
    BY <1>1
  <2> QED  BY <1>2, <2>1 DEF Releases
<1>9. SumFunctionOnSet(more, DOMAIN more) = n + SumFunctionOnSet(rs, DOMAIN rs)
  BY <1>4, <1>5, <1>6
<1> QED  BY <1>3, <1>7, <1>8, <1>9 DEF SumFunction

LEMMA FewerReleases ==
  ASSUME NEW rs \in Releases, NEW c \in DOMAIN rs
  PROVE  /\ Restrict(rs, DOMAIN rs \ {c}) \in Releases
         /\ SumFunction(Restrict(rs, DOMAIN rs \ {c})) = SumFunction(rs) - rs[c]
         /\ SumFunction(rs) \in Nat /\ rs[c] <= SumFunction(rs)
<1> DEFINE fewer == Restrict(rs, DOMAIN rs \ {c})
<1>1. /\ DOMAIN rs \subseteq ReleaseLocators /\ IsFiniteSet(DOMAIN rs)
      /\ \A r \in DOMAIN rs : rs[r] \in Nat \ {0}
      /\ rs \in [DOMAIN rs -> Amount]
  BY ReleasesAre
<1>2. fewer \in [DOMAIN rs \ {c} -> Amount] /\ \A r \in DOMAIN rs \ {c} : fewer[r] = rs[r]
  BY <1>1 DEF Restrict
<1>3. IsFiniteSet(DOMAIN rs \ {c}) /\ DOMAIN fewer = DOMAIN rs \ {c}
  BY <1>1, <1>2, FS_Subset
<1>4. SumFunctionOnSet(rs, DOMAIN rs) = rs[c] + SumFunctionOnSet(rs, DOMAIN rs \ {c})
  BY <1>1, SumRemove
<1> HIDE DEF fewer
<1>5. SumFunctionOnSet(fewer, DOMAIN rs \ {c}) = SumFunctionOnSet(rs, DOMAIN rs \ {c})
  BY <1>2, <1>3, SumSame
<1>6. /\ SumFunctionOnSet(rs, DOMAIN rs) \in Nat
      /\ SumFunctionOnSet(rs, DOMAIN rs \ {c}) \in Nat
  BY <1>1, SumNat
<1>7. rs[c] <= SumFunctionOnSet(rs, DOMAIN rs)
  BY <1>1, TermAtMostSum
<1>8. fewer \in Releases
  BY <1>1, <1>2 DEF Releases
<1>9. rs[c] \in Nat
  BY <1>1
<1> QED  BY <1>3, <1>4, <1>5, <1>6, <1>7, <1>8, <1>9 DEF SumFunction, fewer

LEMMA MemInitInv == MemInit => MemInv
BY MemAssumption DEF MemInit, MemInv, OneHolder, NumberedSoFar

\* A method that changes one escrow, and keeps its releases but for one with a new number.
LEMMA ChangeOne ==
  ASSUME MemInv, NEW e \in DOMAIN memEscrows, NEW k \in memoryEscrowState, Backed(k),
         memEscrows' = [memEscrows EXCEPT ![e] = k],
         UNCHANGED <<nextID, simClock>>,
         \/ releaseID' = releaseID /\ DOMAIN k.releases \subseteq DOMAIN memEscrows[e].releases
         \/ /\ releaseID < MaxRelease /\ releaseID' = releaseID + 1
            /\ DOMAIN k.releases \subseteq DOMAIN memEscrows[e].releases \cup {releaseID + 1}
  PROVE  MemInv'
<1>1. /\ memEscrows \in Seq(memoryEscrowState) /\ nextID = Len(memEscrows)
      /\ releaseID \in 0..MaxRelease /\ MaxRelease \in Nat
  BY MemAssumption DEF MemInv
<1>2. /\ memEscrows' \in Seq(memoryEscrowState) /\ Len(memEscrows') = Len(memEscrows)
      /\ DOMAIN memEscrows' = DOMAIN memEscrows
      /\ \A f \in DOMAIN memEscrows : memEscrows'[f] = IF f = e THEN k ELSE memEscrows[f]
  BY <1>1
<1>3. \A f \in DOMAIN memEscrows' : Backed(memEscrows'[f])
  BY <1>2 DEF MemInv
<1>4. \A f \in DOMAIN memEscrows, r \in ReleaseLocators : r \in DOMAIN memEscrows'[f].releases =>
        \/ r \in DOMAIN memEscrows[f].releases
        \/ f = e /\ r = releaseID + 1 /\ releaseID' = releaseID + 1
  BY <1>2
<1>5. \A f \in DOMAIN memEscrows, r \in ReleaseLocators :
        r \in DOMAIN memEscrows[f].releases => r \in Nat /\ r <= releaseID
  BY <1>1 DEF MemInv, NumberedSoFar, ReleaseLocators
<1>6. OneHolder'
  <2> SUFFICES ASSUME NEW f \in DOMAIN memEscrows', NEW h \in DOMAIN memEscrows',
                      NEW r \in ReleaseLocators,
                      r \in DOMAIN memEscrows'[f].releases, r \in DOMAIN memEscrows'[h].releases
               PROVE  f = h
    BY DEF OneHolder
  <2>1. CASE r = releaseID + 1
    BY <1>1, <1>2, <1>4, <1>5, <2>1
  <2>2. CASE r # releaseID + 1
    BY <1>2, <1>4, <2>2 DEF MemInv, OneHolder
  <2> QED  BY <2>1, <2>2
<1>7. NumberedSoFar'
  BY <1>1, <1>2, <1>4, <1>5 DEF NumberedSoFar
<1>8. releaseID' \in 0..MaxRelease
  BY <1>1
<1> QED  BY <1>1, <1>2, <1>3, <1>6, <1>7, <1>8 DEF MemInv

LEMMA CreateInv ==
  ASSUME MemInv, NEW t \in Timeout, CreateEscrow(t)
  PROVE  /\ MemInv' /\ Len(memEscrows') = Len(memEscrows) + 1 /\ UNCHANGED <<releaseID, simClock>>
         /\ \A e \in DOMAIN memEscrows : memEscrows'[e] = memEscrows[e]
         /\ memEscrows'[Len(memEscrows) + 1].balance = 0
         /\ DOMAIN memEscrows'[Len(memEscrows) + 1].releases = {}
<1> DEFINE k == [timeout |-> t, balance |-> 0, released |-> 0, state |-> "created",
                 releases |-> << >>]
<1>1. /\ nextID < MaxNextID /\ nextID' = nextID + 1 /\ UNCHANGED <<releaseID, simClock>>
      /\ memEscrows' = Append(memEscrows, k)
  BY DEF CreateEscrow
<1>2. k \in memoryEscrowState
  <2>1. 0 \in 0..MaxBalance
    BY MemAssumption
  <2> QED  BY <2>1, NoReleases DEF memoryEscrowState, Releases
<1>3. Backed(k) /\ k.balance = 0 /\ DOMAIN k.releases = {}
  BY NoReleases DEF Backed
<1> HIDE DEF k
<1>4. /\ memEscrows \in Seq(memoryEscrowState) /\ nextID = Len(memEscrows) /\ MaxNextID \in Nat
  BY MemAssumption DEF MemInv
<1>5. /\ memEscrows' \in Seq(memoryEscrowState) /\ Len(memEscrows') = Len(memEscrows) + 1
      /\ \A e \in DOMAIN memEscrows : memEscrows'[e] = memEscrows[e]
      /\ memEscrows'[Len(memEscrows) + 1] = k
      /\ DOMAIN memEscrows' = DOMAIN memEscrows \cup {Len(memEscrows) + 1}
  BY <1>1, <1>2, <1>4
<1>6. \A e \in DOMAIN memEscrows' : Backed(memEscrows'[e])
  BY <1>3, <1>5 DEF MemInv
<1>7. OneHolder' /\ NumberedSoFar'
  BY <1>1, <1>3, <1>5 DEF MemInv, OneHolder, NumberedSoFar
<1>8. nextID' = Len(memEscrows') /\ nextID' <= MaxNextID
  BY <1>1, <1>4, <1>5
<1> QED  BY <1>1, <1>3, <1>5, <1>6, <1>7, <1>8 DEF MemInv

\* What each method does to its escrow.
Becomes(e, k) ==
  /\ e \in DOMAIN memEscrows /\ k \in memoryEscrowState
  /\ memEscrows' = [memEscrows EXCEPT ![e] = k]
  /\ k.timeout = memEscrows[e].timeout
  /\ UNCHANGED <<nextID, simClock>>

LEMMA DepositDoes ==
  ASSUME MemInv, NEW e \in Locators, NEW n \in Amount, Deposit(e, n)
  PROVE  MemInv' /\ \E k : /\ Becomes(e, k) /\ k.balance = memEscrows[e].balance + n
                           /\ k.releases = memEscrows[e].releases /\ releaseID' = releaseID
<1> DEFINE k == [memEscrows[e] EXCEPT !.balance = @ + n,
                                      !.state = IF @ = "created" THEN "funded" ELSE @]
<1>1. /\ e \in DOMAIN memEscrows /\ memEscrows[e] \in memoryEscrowState
      /\ memEscrows \in Seq(memoryEscrowState)
  BY DEF Deposit, lookup, MemInv
<1>2. memEscrows[e].balance + n <= MaxBalance /\ UNCHANGED <<nextID, releaseID, simClock>>
  BY DEF Deposit
<1>3. memEscrows' = [memEscrows EXCEPT ![e] = k]
  BY <1>1 DEF Deposit
<1>4. /\ k.balance = memEscrows[e].balance + n /\ k.releases = memEscrows[e].releases
      /\ k.timeout = memEscrows[e].timeout
  BY <1>1 DEF memoryEscrowState
<1>5. n \in Nat /\ memEscrows[e].balance \in Nat /\ memEscrows[e].releases \in Releases
  BY <1>1, StateFields, MemAssumption
<1>6. k \in memoryEscrowState
  <2>1. memEscrows[e].balance + n \in 0..MaxBalance
    BY <1>2, <1>5, MemAssumption
  <2> QED  BY <1>1, <2>1 DEF memoryEscrowState
<1>7. Backed(k)
  <2>1. SumFunction(memEscrows[e].releases) <= memEscrows[e].balance
    BY <1>1 DEF MemInv, Backed
  <2>2. SumFunction(memEscrows[e].releases) \in Int
    BY <1>5, ReleasesAre, SumInt DEF SumFunction
  <2> HIDE DEF k
  <2> QED  BY <1>4, <1>5, <2>1, <2>2 DEF Backed
<1> HIDE DEF k
<1> QED  BY <1>1, <1>2, <1>3, <1>4, <1>6, <1>7, ChangeOne DEF Becomes

LEMMA RequestDoes ==
  ASSUME MemInv, NEW e \in Locators, NEW n \in Amount, RequestRelease(e, n)
  PROVE  /\ MemInv' /\ releaseID + 1 \in ReleaseLocators
         /\ SumFunction(memEscrows[e].releases) + n <= memEscrows[e].balance
         /\ \E k : /\ Becomes(e, k) /\ k.balance = memEscrows[e].balance
                   /\ releaseID' = releaseID + 1
                   /\ k.releases = [r \in DOMAIN memEscrows[e].releases \cup {releaseID + 1} |->
                        IF r = releaseID + 1 THEN n ELSE memEscrows[e].releases[r]]
<1> DEFINE rs == memEscrows[e].releases
           more == [r \in DOMAIN rs \cup {releaseID + 1} |->
                      IF r = releaseID + 1 THEN n ELSE rs[r]]
           k == [memEscrows[e] EXCEPT !.releases = more]
<1>1. /\ e \in DOMAIN memEscrows /\ memEscrows[e] \in memoryEscrowState
      /\ memEscrows \in Seq(memoryEscrowState) /\ releaseID \in 0..MaxRelease /\ MaxRelease \in Nat
  BY MemAssumption DEF RequestRelease, lookup, MemInv
<1>2. /\ n <= memEscrows[e].balance - SumFunction(rs) /\ releaseID < MaxRelease
      /\ releaseID' = releaseID + 1 /\ UNCHANGED <<nextID, simClock>>
  BY DEF RequestRelease, available, pendingTotal
<1>3. memEscrows' = [memEscrows EXCEPT ![e] = k]
  BY <1>1, <1>2 DEF RequestRelease
<1>4. /\ k.balance = memEscrows[e].balance /\ k.releases = more
      /\ k.timeout = memEscrows[e].timeout
  BY <1>1 DEF memoryEscrowState
<1>5. n \in Nat /\ memEscrows[e].balance \in Nat /\ rs \in Releases
  BY <1>1, StateFields, MemAssumption
<1>6. releaseID + 1 \in ReleaseLocators /\ releaseID + 1 \notin DOMAIN rs
  BY <1>1, <1>2 DEF MemInv, NumberedSoFar, ReleaseLocators
<1>7. more \in Releases /\ SumFunction(more) = SumFunction(rs) + n
  <2> HIDE DEF rs
  <2> QED  BY <1>5, <1>6, MoreReleases
<1>8. SumFunction(rs) \in Int
  BY <1>5, ReleasesAre, SumInt DEF SumFunction
<1>9. k \in memoryEscrowState
  BY <1>1, <1>7 DEF memoryEscrowState, Releases
<1>10. SumFunction(rs) + n <= memEscrows[e].balance
  BY <1>2, <1>5, <1>8
<1>11. Backed(k)
  <2> HIDE DEF k, rs, more
  <2> QED  BY <1>4, <1>7, <1>10 DEF Backed
<1>12. DOMAIN k.releases = DOMAIN rs \cup {releaseID + 1}
  BY <1>4
<1> HIDE DEF k
<1>13. Becomes(e, k)
  BY <1>1, <1>2, <1>3, <1>4, <1>9 DEF Becomes
<1>14. MemInv'
  BY <1>1, <1>2, <1>3, <1>9, <1>11, <1>12, ChangeOne
<1> QED  BY <1>2, <1>4, <1>6, <1>10, <1>13, <1>14

LEMMA ApproveDoes ==
  ASSUME MemInv, NEW e \in Locators, NEW r \in ReleaseLocators, ApproveRelease(e, r)
  PROVE  /\ MemInv' /\ r \in DOMAIN memEscrows[e].releases
         /\ \E k : /\ Becomes(e, k) /\ releaseID' = releaseID
                   /\ k.balance = memEscrows[e].balance - memEscrows[e].releases[r]
                   /\ k.releases = Restrict(memEscrows[e].releases,
                                            DOMAIN memEscrows[e].releases \ {r})
<1> DEFINE rs == memEscrows[e].releases
           fewer == Restrict(rs, DOMAIN rs \ {r})
           k == [memEscrows[e] EXCEPT !.balance = @ - rs[r], !.released = @ + rs[r],
                                      !.releases = fewer, !.state = "released"]
<1>1. /\ e \in DOMAIN memEscrows /\ memEscrows[e] \in memoryEscrowState
      /\ memEscrows \in Seq(memoryEscrowState) /\ r \in DOMAIN rs
      /\ UNCHANGED <<nextID, releaseID, simClock>>
  BY DEF ApproveRelease, lookup, MemInv
<1>2. memEscrows' = [memEscrows EXCEPT ![e] = k]
  BY <1>1 DEF ApproveRelease
<1>3. /\ k.balance = memEscrows[e].balance - rs[r] /\ k.releases = fewer
      /\ k.timeout = memEscrows[e].timeout
  BY <1>1 DEF memoryEscrowState
<1>4. /\ memEscrows[e].balance \in Nat /\ memEscrows[e].released \in Nat /\ rs \in Releases
      /\ memEscrows[e].balance <= MaxBalance /\ MaxBalance \in Nat
  BY <1>1, StateFields, MemAssumption
<1>5. rs[r] \in Nat
  BY <1>1, <1>4, ReleasesAre
<1>6. /\ fewer \in Releases /\ SumFunction(fewer) = SumFunction(rs) - rs[r]
      /\ SumFunction(rs) \in Nat /\ rs[r] <= SumFunction(rs)
  BY <1>1, <1>4, FewerReleases
<1>7. SumFunction(rs) <= memEscrows[e].balance
  BY <1>1 DEF MemInv, Backed
<1>8. k \in memoryEscrowState
  <2>1. memEscrows[e].balance - rs[r] \in 0..MaxBalance /\ memEscrows[e].released + rs[r] \in Nat
    <3> HIDE DEF rs
    <3> QED  BY <1>4, <1>5, <1>6, <1>7
  <2>2. fewer \in Releases
    BY <1>6
  <2> HIDE DEF fewer, rs
  <2> QED  BY <1>1, <2>1, <2>2 DEF memoryEscrowState, Releases
<1>9. Backed(k)
  <2> HIDE DEF k, fewer, rs
  <2> QED  BY <1>3, <1>4, <1>5, <1>6, <1>7 DEF Backed
<1>10. DOMAIN k.releases \subseteq DOMAIN rs
  BY <1>3 DEF Restrict
<1> HIDE DEF k
<1>11. Becomes(e, k)
  BY <1>1, <1>2, <1>3, <1>8 DEF Becomes
<1>12. MemInv'
  BY <1>1, <1>2, <1>8, <1>9, <1>10, ChangeOne
<1> QED  BY <1>1, <1>3, <1>11, <1>12

LEMMA RefundDoes ==
  ASSUME MemInv, NEW e \in Locators, ClaimRefund(e)
  PROVE  /\ MemInv' /\ simClock >= memEscrows[e].timeout
         /\ \E k : /\ Becomes(e, k) /\ releaseID' = releaseID
                   /\ k.balance = 0 /\ DOMAIN k.releases = {}
<1> DEFINE k == [memEscrows[e] EXCEPT !.balance = 0, !.releases = << >>, !.state = "refunded"]
<1>1. /\ e \in DOMAIN memEscrows /\ memEscrows[e] \in memoryEscrowState
      /\ memEscrows \in Seq(memoryEscrowState)
      /\ UNCHANGED <<nextID, releaseID, simClock>> /\ simClock >= memEscrows[e].timeout
  BY DEF ClaimRefund, lookup, MemInv
<1>2. memEscrows' = [memEscrows EXCEPT ![e] = k]
  BY <1>1 DEF ClaimRefund
<1>3. k.balance = 0 /\ k.releases = << >> /\ k.timeout = memEscrows[e].timeout
  BY <1>1 DEF memoryEscrowState
<1>4. k \in memoryEscrowState
  <2>1. 0 \in 0..MaxBalance
    BY MemAssumption
  <2> QED  BY <1>1, <2>1, NoReleases DEF memoryEscrowState, Releases
<1> HIDE DEF k
<1>5. Backed(k) /\ DOMAIN k.releases = {}
  BY <1>3, NoReleases DEF Backed
<1>6. Becomes(e, k)
  BY <1>1, <1>2, <1>3, <1>4 DEF Becomes
<1>7. MemInv'
  BY <1>1, <1>2, <1>4, <1>5, ChangeOne
<1> QED  BY <1>1, <1>3, <1>5, <1>6, <1>7

-----------------------------------------------------------------------------
\* What the mapping makes of a release: not asked for yet, asked for and held by one escrow, or
\* gone.
ClaimsAre ==
  \A r \in ReleaseLocators :
    /\ r > releaseID => promisedClaim[r] = [status |-> "free", escrow |-> 0, amount |-> 0]
    /\ \A e \in DOMAIN memEscrows :
         r \in DOMAIN memEscrows[e].releases =>
           promisedClaim[r] = [status |-> "owed", escrow |-> e,
                               amount |-> memEscrows[e].releases[r]]
    /\ r <= releaseID /\ (\A e \in DOMAIN memEscrows : r \notin DOMAIN memEscrows[e].releases) =>
         promisedClaim[r] = [status |-> "spent", escrow |-> 0, amount |-> 0]

LEMMA ClaimsExact == MemInv => ClaimsAre
<1> SUFFICES ASSUME MemInv, NEW r \in ReleaseLocators
             PROVE  /\ r > releaseID =>
                         promisedClaim[r] = [status |-> "free", escrow |-> 0, amount |-> 0]
                    /\ \A e \in DOMAIN memEscrows : r \in DOMAIN memEscrows[e].releases =>
                         promisedClaim[r] = [status |-> "owed", escrow |-> e,
                                             amount |-> memEscrows[e].releases[r]]
                    /\ r <= releaseID
                         /\ (\A e \in DOMAIN memEscrows : r \notin DOMAIN memEscrows[e].releases)
                       => promisedClaim[r] = [status |-> "spent", escrow |-> 0, amount |-> 0]
  BY DEF ClaimsAre
<1>1. r \in Nat /\ releaseID \in Nat
  BY DEF ReleaseLocators, MemInv
<1>2. r > releaseID => promisedClaim[r] = [status |-> "free", escrow |-> 0, amount |-> 0]
  BY DEF promisedClaim
<1>3. ASSUME NEW e \in DOMAIN memEscrows, r \in DOMAIN memEscrows[e].releases
      PROVE  promisedClaim[r] = [status |-> "owed", escrow |-> e,
                                 amount |-> memEscrows[e].releases[r]]
  <2>1. ~(r > releaseID)
    BY <1>1, <1>3 DEF MemInv, NumberedSoFar
  <2>2. e \in HoldersOf(r) /\ \A h \in HoldersOf(r) : h = e
    BY <1>3 DEF HoldersOf, MemInv, OneHolder
  <2>3. HoldersOf(r) # {} /\ (CHOOSE h \in HoldersOf(r) : TRUE) = e
    BY <2>2
  <2> QED  BY <2>1, <2>3 DEF promisedClaim
<1>4. ASSUME r <= releaseID, \A e \in DOMAIN memEscrows : r \notin DOMAIN memEscrows[e].releases
      PROVE  promisedClaim[r] = [status |-> "spent", escrow |-> 0, amount |-> 0]
  <2>1. ~(r > releaseID) /\ HoldersOf(r) = {}
    BY <1>1, <1>4 DEF HoldersOf
  <2> QED  BY <2>1 DEF promisedClaim
<1> QED  BY <1>2, <1>3, <1>4

LEMMA ClaimFunctions ==
  /\ promisedClaim = [r \in ReleaseLocators |-> promisedClaim[r]]
  /\ promisedClaim' = [r \in ReleaseLocators |-> promisedClaim'[r]]
BY DEF promisedClaim

LEMMA ClaimStays ==
  ASSUME ClaimsAre, ClaimsAre', MemInv, MemInv', NEW r \in ReleaseLocators,
         r > releaseID <=> r > releaseID',
         \A f : f \in DOMAIN memEscrows' /\ r \in DOMAIN memEscrows'[f].releases <=>
                f \in DOMAIN memEscrows /\ r \in DOMAIN memEscrows[f].releases,
         \A f \in DOMAIN memEscrows : r \in DOMAIN memEscrows[f].releases =>
           memEscrows'[f].releases[r] = memEscrows[f].releases[r]
  PROVE  promisedClaim'[r] = promisedClaim[r]
<1>1. r \in Nat /\ releaseID \in Nat /\ releaseID' \in Nat
  BY DEF ReleaseLocators, MemInv
<1>2. CASE r > releaseID
  BY <1>2 DEF ClaimsAre
<1>3. CASE \E f \in DOMAIN memEscrows : r \in DOMAIN memEscrows[f].releases
  <2>1. PICK f \in DOMAIN memEscrows : r \in DOMAIN memEscrows[f].releases
    BY <1>3
  <2>2. promisedClaim[r] = [status |-> "owed", escrow |-> f, amount |-> memEscrows[f].releases[r]]
    BY <2>1 DEF ClaimsAre
  <2>3. promisedClaim'[r] = [status |-> "owed", escrow |-> f,
                             amount |-> memEscrows'[f].releases[r]]
    BY <2>1 DEF ClaimsAre
  <2> QED  BY <2>1, <2>2, <2>3
<1>4. CASE /\ r <= releaseID
           /\ \A f \in DOMAIN memEscrows : r \notin DOMAIN memEscrows[f].releases
  <2>1. r <= releaseID' /\ \A f \in DOMAIN memEscrows' : r \notin DOMAIN memEscrows'[f].releases
    BY <1>1, <1>4
  <2> QED  BY <1>4, <2>1 DEF ClaimsAre
<1> QED  BY <1>1, <1>2, <1>3, <1>4

LEMMA OwedAre ==
  ASSUME ClaimsAre, MemInv, NEW e \in DOMAIN memEscrows
  PROVE  Promise!Owed(e) = DOMAIN memEscrows[e].releases
<1>1. memEscrows[e].releases \in Releases
  BY StateFields DEF MemInv
<1>2. DOMAIN memEscrows[e].releases \subseteq ReleaseLocators
  BY <1>1, ReleasesAre
<1>3. ASSUME NEW c \in ReleaseLocators, promisedClaim[c].status = "owed", promisedClaim[c].escrow = e
      PROVE  c \in DOMAIN memEscrows[e].releases
  <2>1. c \in Nat /\ releaseID \in Nat
    BY DEF ReleaseLocators, MemInv
  <2>2. c <= releaseID
    BY <1>3, <2>1 DEF ClaimsAre
  <2>3. PICK f \in DOMAIN memEscrows : c \in DOMAIN memEscrows[f].releases
    BY <1>3, <2>2 DEF ClaimsAre
  <2>4. promisedClaim[c] = [status |-> "owed", escrow |-> f, amount |-> memEscrows[f].releases[c]]
    BY <2>3 DEF ClaimsAre
  <2> QED  BY <1>3, <2>3, <2>4
<1>4. ASSUME NEW c \in DOMAIN memEscrows[e].releases
      PROVE  promisedClaim[c].status = "owed" /\ promisedClaim[c].escrow = e
  <2>1. promisedClaim[c] = [status |-> "owed", escrow |-> e, amount |-> memEscrows[e].releases[c]]
    BY <1>2 DEF ClaimsAre
  <2> QED  BY <2>1
<1> QED  BY <1>2, <1>3, <1>4 DEF Promise!Owed

LEMMA SumsOfThePromise ==
  ASSUME NEW f, NEW S PROVE Promise!SumFunctionOnSet(f, S) = SumFunctionOnSet(f, S)
BY DEF Promise!SumFunctionOnSet, SumFunctionOnSet, Promise!FoldFunctionOnSet, FoldFunctionOnSet,
       Promise!MapThenFoldSet, MapThenFoldSet

LEMMA UnclaimedIs ==
  ASSUME ClaimsAre, MemInv, NEW e \in Locators, e \in DOMAIN memEscrows
  PROVE  Promise!Unclaimed(e) = memEscrows[e].balance - SumFunction(memEscrows[e].releases)
<1> DEFINE amounts == [c \in ReleaseLocators |-> promisedClaim[c].amount]
           rs == memEscrows[e].releases
<1>1. rs \in Releases
  BY StateFields DEF MemInv
<1>2. DOMAIN rs \subseteq ReleaseLocators /\ IsFiniteSet(DOMAIN rs)
  BY <1>1, ReleasesAre
<1>3. ASSUME NEW c \in DOMAIN rs PROVE amounts[c] = rs[c]
  <2>1. c \in ReleaseLocators
    BY <1>2
  <2>2. promisedClaim[c] = [status |-> "owed", escrow |-> e, amount |-> rs[c]]
    BY <2>1 DEF ClaimsAre
  <2> QED  BY <2>1, <2>2
<1>4. SumFunctionOnSet(amounts, DOMAIN rs) = SumFunctionOnSet(rs, DOMAIN rs)
  <2> HIDE DEF amounts, rs
  <2> QED  BY <1>2, <1>3, SumSame
<1>5. promisedPurse[e] = memEscrows[e].balance
  BY DEF promisedPurse, lookup
<1>6. Promise!Unclaimed(e) = promisedPurse[e] - Promise!SumFunctionOnSet(amounts, Promise!Owed(e))
  BY DEF Promise!Unclaimed
<1> HIDE DEF amounts
<1> QED  BY <1>4, <1>5, <1>6, OwedAre, SumsOfThePromise DEF SumFunction

LEMMA PurseBecomes ==
  ASSUME MemInv, NEW e \in Locators, NEW k, Becomes(e, k)
  PROVE  /\ promisedPurse' = [promisedPurse EXCEPT ![e] = k.balance]
         /\ promisedPurse[e] = memEscrows[e].balance
         /\ UNCHANGED promisedDue
<1>1. /\ memEscrows \in Seq(memoryEscrowState) /\ e \in DOMAIN memEscrows
      /\ memEscrows' = [memEscrows EXCEPT ![e] = k] /\ k.timeout = memEscrows[e].timeout
      /\ UNCHANGED simClock
  BY DEF MemInv, Becomes
<1>2. /\ DOMAIN memEscrows' = DOMAIN memEscrows
      /\ \A f \in DOMAIN memEscrows : memEscrows'[f] = IF f = e THEN k ELSE memEscrows[f]
  BY <1>1
<1>3. promisedPurse' = [promisedPurse EXCEPT ![e] = k.balance]
  BY <1>1, <1>2 DEF promisedPurse, lookup
<1>4. UNCHANGED promisedDue
  BY <1>1, <1>2 DEF promisedDue, lookup
<1> QED  BY <1>1, <1>3, <1>4 DEF promisedPurse, lookup

LEMMA EscrowsBecome ==
  ASSUME MemInv, NEW e, NEW k, Becomes(e, k)
  PROVE  /\ DOMAIN memEscrows' = DOMAIN memEscrows /\ e \in DOMAIN memEscrows
         /\ \A f \in DOMAIN memEscrows : memEscrows'[f] = IF f = e THEN k ELSE memEscrows[f]
BY DEF MemInv, Becomes

-----------------------------------------------------------------------------
PromiseStep == [Promise!PromiseNext]_(Promise!promiseVars)

LEMMA ClockStep ==
  ASSUME MemInv, NEW t \in 0..MaxClock, SetClock(t)
  PROVE  MemInv' /\ PromiseStep
<1>1. simClock' = t /\ UNCHANGED <<memEscrows, nextID, releaseID>>
  BY DEF SetClock
<1>2. MemInv'
  BY <1>1 DEF MemInv, OneHolder, NumberedSoFar
<1>3. UNCHANGED <<promisedPurse, promisedClaim>>
  BY <1>1 DEF promisedPurse, promisedClaim, HoldersOf, lookup
<1>4. promisedDue' \in SUBSET Locators
  BY DEF promisedDue
<1>5. Promise!TimePasses
  BY <1>3, <1>4 DEF Promise!TimePasses
<1> QED  BY <1>2, <1>5 DEF PromiseStep, Promise!PromiseNext

LEMMA CreateStep ==
  ASSUME MemInv, ClaimsAre, ClaimsAre', NEW t \in Timeout, CreateEscrow(t)
  PROVE  PromiseStep
<1>1. /\ MemInv' /\ Len(memEscrows') = Len(memEscrows) + 1 /\ UNCHANGED <<releaseID, simClock>>
      /\ \A e \in DOMAIN memEscrows : memEscrows'[e] = memEscrows[e]
      /\ memEscrows'[Len(memEscrows) + 1].balance = 0
      /\ DOMAIN memEscrows'[Len(memEscrows) + 1].releases = {}
  BY CreateInv
<1>2. DOMAIN memEscrows' = DOMAIN memEscrows \cup {Len(memEscrows) + 1}
  BY <1>1 DEF MemInv
<1>3. promisedPurse' = promisedPurse
  BY <1>1, <1>2 DEF promisedPurse, lookup
<1>4. ASSUME NEW r \in ReleaseLocators PROVE promisedClaim'[r] = promisedClaim[r]
  BY <1>1, <1>2, ClaimStays
<1>5. promisedClaim' = promisedClaim
  BY <1>4, ClaimFunctions
<1>6. promisedDue' \in SUBSET Locators
  BY DEF promisedDue
<1>7. Promise!TimePasses
  BY <1>3, <1>5, <1>6 DEF Promise!TimePasses
<1> QED  BY <1>7 DEF PromiseStep, Promise!PromiseNext

LEMMA DepositStep ==
  ASSUME MemInv, ClaimsAre, ClaimsAre', NEW e \in Locators, NEW n \in Amount, Deposit(e, n)
  PROVE  PromiseStep
<1>1. MemInv'
  BY DepositDoes
<1>2. PICK k : /\ Becomes(e, k) /\ k.balance = memEscrows[e].balance + n
               /\ k.releases = memEscrows[e].releases /\ releaseID' = releaseID
  BY DepositDoes
<1>3. /\ promisedPurse' = [promisedPurse EXCEPT ![e] = promisedPurse[e] + n]
      /\ UNCHANGED promisedDue
  BY <1>2, PurseBecomes
<1>4. ASSUME NEW r \in ReleaseLocators PROVE promisedClaim'[r] = promisedClaim[r]
  BY <1>1, <1>2, EscrowsBecome, ClaimStays
<1>5. promisedClaim' = promisedClaim
  BY <1>4, ClaimFunctions
<1>6. Promise!Pay(e, n)
  BY <1>3, <1>5 DEF Promise!Pay
<1> QED  BY <1>6 DEF PromiseStep, Promise!PromiseNext

LEMMA RequestStep ==
  ASSUME MemInv, ClaimsAre, ClaimsAre', NEW e \in Locators, NEW n \in Amount, RequestRelease(e, n)
  PROVE  PromiseStep
<1>1. PICK c \in ReleaseLocators : c = releaseID + 1
  BY RequestDoes
<1>2. MemInv' /\ SumFunction(memEscrows[e].releases) + n <= memEscrows[e].balance
  BY RequestDoes
<1>3. PICK k : /\ Becomes(e, k) /\ k.balance = memEscrows[e].balance /\ releaseID' = c
               /\ k.releases = [r \in DOMAIN memEscrows[e].releases \cup {c} |->
                                  IF r = c THEN n ELSE memEscrows[e].releases[r]]
  <2>1. PICK k : /\ Becomes(e, k) /\ k.balance = memEscrows[e].balance
                 /\ releaseID' = releaseID + 1
                 /\ k.releases = [r \in DOMAIN memEscrows[e].releases \cup {releaseID + 1} |->
                       IF r = releaseID + 1 THEN n ELSE memEscrows[e].releases[r]]
    BY RequestDoes
  <2> QED  BY <1>1, <2>1
<1>4. releaseID \in Nat /\ c > releaseID /\ \A r \in ReleaseLocators : r \in Nat
  BY <1>1 DEF MemInv, ReleaseLocators
<1>5. promisedPurse' = promisedPurse /\ UNCHANGED promisedDue
  <2>1. promisedPurse' = [promisedPurse EXCEPT ![e] = promisedPurse[e]] /\ UNCHANGED promisedDue
    BY <1>3, PurseBecomes
  <2>2. promisedPurse = [f \in Locators |-> promisedPurse[f]]
    BY DEF promisedPurse
  <2> QED  BY <2>1, <2>2
<1>6. promisedClaim[c] = [status |-> "free", escrow |-> 0, amount |-> 0]
  BY <1>4 DEF ClaimsAre
<1>7. promisedClaim'[c] = [status |-> "owed", escrow |-> e, amount |-> n]
  <2>1. e \in DOMAIN memEscrows' /\ c \in DOMAIN memEscrows'[e].releases
          /\ memEscrows'[e].releases[c] = n
    BY <1>3, EscrowsBecome
  <2> QED  BY <2>1 DEF ClaimsAre
<1>8. ASSUME NEW r \in ReleaseLocators, r # c PROVE promisedClaim'[r] = promisedClaim[r]
  <2>1. r > releaseID <=> r > releaseID'
    <3>1. PICK m \in Nat : m = releaseID /\ m + 1 = c /\ m + 1 = releaseID'
      BY <1>1, <1>3, <1>4
    <3>2. r \in Nat /\ r # m + 1
      BY <1>4, <1>8, <3>1
    <3> QED  BY <3>1, <3>2
  <2>2. /\ \A f : f \in DOMAIN memEscrows' /\ r \in DOMAIN memEscrows'[f].releases <=>
                  f \in DOMAIN memEscrows /\ r \in DOMAIN memEscrows[f].releases
        /\ \A f \in DOMAIN memEscrows : r \in DOMAIN memEscrows[f].releases =>
             memEscrows'[f].releases[r] = memEscrows[f].releases[r]
    BY <1>3, <1>8, EscrowsBecome
  <2> QED  BY <1>2, <2>1, <2>2, ClaimStays
<1>9. promisedClaim' = [promisedClaim EXCEPT ![c] = [status |-> "owed", escrow |-> e, amount |-> n]]
  BY <1>7, <1>8, ClaimFunctions
<1>10. n <= Promise!Unclaimed(e)
  <2>1. Promise!Unclaimed(e) = memEscrows[e].balance - SumFunction(memEscrows[e].releases)
    BY <1>3, EscrowsBecome, UnclaimedIs
  <2>2. memEscrows[e] \in memoryEscrowState
    BY <1>3, EscrowsBecome DEF MemInv
  <2>3. n \in Int /\ memEscrows[e].balance \in Int
    BY <2>2, StateFields, MemAssumption
  <2>4. SumFunction(memEscrows[e].releases) \in Int
    <3>1. memEscrows[e].releases \in Releases
      BY <2>2, StateFields
    <3> QED  BY <3>1, ReleasesAre, SumInt DEF SumFunction
  <2> QED  BY <1>2, <2>1, <2>3, <2>4
<1>11. Promise!Grant(c, e, n)
  BY <1>5, <1>6, <1>9, <1>10 DEF Promise!Grant, Promise!Free
<1> QED  BY <1>11 DEF PromiseStep, Promise!PromiseNext

LEMMA ApproveStep ==
  ASSUME MemInv, ClaimsAre, ClaimsAre', NEW e \in Locators, NEW r \in ReleaseLocators,
         ApproveRelease(e, r)
  PROVE  PromiseStep
<1>1. MemInv' /\ r \in DOMAIN memEscrows[e].releases
  BY ApproveDoes
<1>2. PICK k : /\ Becomes(e, k) /\ releaseID' = releaseID
               /\ k.balance = memEscrows[e].balance - memEscrows[e].releases[r]
               /\ k.releases = Restrict(memEscrows[e].releases,
                                        DOMAIN memEscrows[e].releases \ {r})
  BY ApproveDoes
<1>3. promisedClaim[r] = [status |-> "owed", escrow |-> e, amount |-> memEscrows[e].releases[r]]
  BY <1>1, <1>2, EscrowsBecome DEF ClaimsAre
<1>4. /\ promisedPurse' = [promisedPurse EXCEPT ![e] =
                             promisedPurse[e] - memEscrows[e].releases[r]]
      /\ UNCHANGED promisedDue
  BY <1>2, PurseBecomes
<1>5. promisedClaim'[r] = [status |-> "spent", escrow |-> 0, amount |-> 0]
  <2>1. r <= releaseID'
    BY <1>1, <1>2, EscrowsBecome DEF MemInv, NumberedSoFar
  <2>2. \A f \in DOMAIN memEscrows' : r \notin DOMAIN memEscrows'[f].releases
    BY <1>1, <1>2, EscrowsBecome DEF MemInv, OneHolder, Restrict
  <2> QED  BY <2>1, <2>2 DEF ClaimsAre
<1>6. ASSUME NEW c \in ReleaseLocators, c # r PROVE promisedClaim'[c] = promisedClaim[c]
  <2>1. /\ \A f : f \in DOMAIN memEscrows' /\ c \in DOMAIN memEscrows'[f].releases <=>
                  f \in DOMAIN memEscrows /\ c \in DOMAIN memEscrows[f].releases
        /\ \A f \in DOMAIN memEscrows : c \in DOMAIN memEscrows[f].releases =>
             memEscrows'[f].releases[c] = memEscrows[f].releases[c]
    BY <1>2, <1>6, EscrowsBecome DEF Restrict
  <2> QED  BY <1>1, <1>2, <2>1, ClaimStays
<1>7. promisedClaim' = [promisedClaim EXCEPT ![r] = [status |-> "spent", escrow |-> 0, amount |-> 0]]
  BY <1>5, <1>6, ClaimFunctions
<1>8. Promise!Settle(r)
  BY <1>3, <1>4, <1>7 DEF Promise!Settle, Promise!Spent
<1> QED  BY <1>8 DEF PromiseStep, Promise!PromiseNext

LEMMA RefundStep ==
  ASSUME MemInv, ClaimsAre, ClaimsAre', NEW e \in Locators, ClaimRefund(e)
  PROVE  PromiseStep
<1>1. MemInv' /\ simClock >= memEscrows[e].timeout
  BY RefundDoes
<1>2. PICK k : Becomes(e, k) /\ releaseID' = releaseID /\ k.balance = 0 /\ DOMAIN k.releases = {}
  BY RefundDoes
<1>3. promisedPurse' = [promisedPurse EXCEPT ![e] = 0] /\ UNCHANGED promisedDue
  BY <1>2, PurseBecomes
<1>4. e \in promisedDue /\ Promise!Owed(e) = DOMAIN memEscrows[e].releases
  BY <1>1, <1>2, EscrowsBecome, OwedAre DEF promisedDue, lookup
<1>5. ASSUME NEW c \in ReleaseLocators, c \in DOMAIN memEscrows[e].releases
      PROVE  promisedClaim'[c] = [status |-> "spent", escrow |-> 0, amount |-> 0]
  <2>1. c <= releaseID'
    BY <1>2, <1>5, EscrowsBecome DEF MemInv, NumberedSoFar
  <2>2. \A f \in DOMAIN memEscrows' : c \notin DOMAIN memEscrows'[f].releases
    BY <1>2, <1>5, EscrowsBecome DEF MemInv, OneHolder
  <2> QED  BY <2>1, <2>2 DEF ClaimsAre
<1>6. ASSUME NEW c \in ReleaseLocators, c \notin DOMAIN memEscrows[e].releases
      PROVE  promisedClaim'[c] = promisedClaim[c]
  <2>1. /\ \A f : f \in DOMAIN memEscrows' /\ c \in DOMAIN memEscrows'[f].releases <=>
                  f \in DOMAIN memEscrows /\ c \in DOMAIN memEscrows[f].releases
        /\ \A f \in DOMAIN memEscrows : c \in DOMAIN memEscrows[f].releases =>
             memEscrows'[f].releases[c] = memEscrows[f].releases[c]
    BY <1>2, <1>6, EscrowsBecome
  <2> QED  BY <1>1, <1>2, <2>1, ClaimStays
<1>7. promisedClaim' = [c \in ReleaseLocators |->
        IF c \in Promise!Owed(e) THEN [status |-> "spent", escrow |-> 0, amount |-> 0]
        ELSE promisedClaim[c]]
  BY <1>4, <1>5, <1>6, ClaimFunctions
<1>8. Promise!Refund(e)
  BY <1>3, <1>4, <1>7 DEF Promise!Refund, Promise!Spent
<1> QED  BY <1>8 DEF PromiseStep, Promise!PromiseNext

LEMMA MemNextInv == MemInv /\ [MemNext]_memVars => MemInv'
<1> SUFFICES ASSUME MemInv, [MemNext]_memVars PROVE MemInv'
  OBVIOUS
<1>1. CASE UNCHANGED memVars
  BY <1>1 DEF memVars, MemInv, OneHolder, NumberedSoFar
<1> QED  BY <1>1, ClockStep, CreateInv, DepositDoes, RequestDoes, ApproveDoes, RefundDoes DEF MemNext

LEMMA MemStep == MemInv /\ ClaimsAre /\ ClaimsAre' /\ [MemNext]_memVars => PromiseStep
<1> SUFFICES ASSUME MemInv, ClaimsAre, ClaimsAre', [MemNext]_memVars PROVE PromiseStep
  OBVIOUS
<1>1. CASE UNCHANGED memVars
  <2>1. UNCHANGED <<promisedPurse, promisedClaim, promisedDue>>
    BY <1>1 DEF memVars, promisedPurse, promisedClaim, promisedDue, HoldersOf, lookup
  <2> QED  BY <2>1 DEF PromiseStep, Promise!promiseVars
<1> QED
  BY <1>1, ClockStep, CreateStep, DepositStep, RequestStep, ApproveStep, RefundStep DEF MemNext

\* The variables of the escrow kept in memory hold what they should, for any number of escrows
\* and releases.
THEOREM MemTypeCorrect == MemSpec => []MemTypeOK
<1>1. MemInv => MemTypeOK
  BY DEF MemInv, MemTypeOK
<1> QED  BY <1>1, MemInitInv, MemNextInv, PTL DEF MemSpec

\* The escrow kept in memory implements the promise of the EscrowAdapter interface: a release
\* is granted on money nobody has claimed, paid once and from its own escrow, and a refund is
\* due, takes what is left and voids the escrow's releases.
THEOREM MemoryKeepsThePromise == MemSpec => KeepsThePromise
<1>1. MemInit => Promise!PromiseInit
  <2> SUFFICES ASSUME MemInit PROVE Promise!PromiseInit
    OBVIOUS
  <2>1. memEscrows = << >> /\ releaseID = 0
    BY DEF MemInit
  <2>2. promisedPurse = [e \in Locators |-> 0]
    BY <2>1 DEF promisedPurse, lookup
  <2>3. promisedClaim = [c \in ReleaseLocators |-> [status |-> "free", escrow |-> 0, amount |-> 0]]
    BY <2>1 DEF promisedClaim, ReleaseLocators
  <2>4. promisedDue \in SUBSET Locators
    BY DEF promisedDue
  <2> QED  BY <2>2, <2>3, <2>4 DEF Promise!PromiseInit, Promise!Free
<1>2. MemInv /\ ClaimsAre /\ ClaimsAre' /\ [MemNext]_memVars =>
        [Promise!PromiseNext]_(Promise!promiseVars)
  BY MemStep DEF PromiseStep
<1> QED  BY <1>1, <1>2, MemInitInv, MemNextInv, ClaimsExact, PTL
         DEF MemSpec, KeepsThePromise, Promise!PromiseSpec

-----------------------------------------------------------------------------
(***************************************************************************)
(* The ledgers side by side, as the run takes them.                        *)
(***************************************************************************)

\* While keys and contracts call the registry by themselves, no program has been started.
ClientsInv == IF ledger = "registry" THEN ClientInit ELSE RegistrationIInv /\ PoolsBounded

\* One of them moves, and the others stay as they are.
LEMMA LedgersStep ==
  ASSUME [LedgersNext]_ledgersVars
  PROVE  /\ [Next]_vars /\ [MemNext]_memVars /\ [StoreNext]_storeVars /\ UNCHANGED ledger
         /\ ledger = "registry" => [RegistryNext]_registryVars /\ UNCHANGED clientVars
         /\ ledger # "registry" => [RegistrationNext]_registrationVars
BY DEF LedgersNext, ledgersVars, registrationVars

LEMMA ClientsStep ==
  ASSUME RegistryInv, ClientsInv, [LedgersNext]_ledgersVars
  PROVE  RegistryInv' /\ ClientsInv'
<1>1. CASE ledger = "registry"
  <2>1. RegistryInv'
    BY <1>1, LedgersStep, RegistryNextInv
  <2>2. ClientInit'
    BY <1>1, LedgersStep DEF ClientsInv, ClientInit, clientVars
  <2> QED  BY <1>1, <2>1, <2>2, LedgersStep DEF ClientsInv
<1>2. CASE ledger # "registry"
  <2>1. RegistrationIInv' /\ PoolsBounded'
    BY <1>2, LedgersStep, RegistrationNextInv, PoolsNext DEF ClientsInv, RegistrationIInv
  <2> QED  BY <1>2, <2>1, LedgersStep DEF ClientsInv, RegistrationIInv
<1> QED  BY <1>1, <1>2

\* Each keeps its own invariant beside the others.
LEMMA LedgersInvariant ==
  LedgersSpec => [](IInv /\ MemInv /\ StoreInv /\ RegistryInv /\ ClientsInv)
<1>1. LedgersInit => IInv /\ MemInv /\ StoreInv /\ RegistryInv /\ ClientsInv
  BY InitIInv, MemInitInv, StoreInitInv, RegistryInitInv, RegistrationInitInv, PoolsInit
     DEF LedgersInit, RegistrationInit, ClientsInv
<1>2. IInv /\ MemInv /\ StoreInv /\ RegistryInv /\ ClientsInv /\ [LedgersNext]_ledgersVars
      => (IInv /\ MemInv /\ StoreInv /\ RegistryInv /\ ClientsInv)'
  BY LedgersStep, NextIInv, MemNextInv, StoreNextInv, ClientsStep
<1> QED  BY <1>1, <1>2, PTL DEF LedgersSpec

\* The variables of the ledgers keep their types.
THEOREM LedgersTypeCorrect == LedgersSpec => []LedgersTypeOK
<1>1. IInv => TypeOK
  BY DEF IInv
<1>2. MemInv => MemTypeOK
  BY DEF MemInv, MemTypeOK
<1>3. StoreInv => StoreTypeOK
  BY DEF StoreInv
<1>4. RegistryInv /\ ClientsInv => RegistryTypeOK /\ ClientTypeOK
  <2>1. ClientInit => CallInv /\ PoolsBounded
    BY CallInitInv, PoolsInit
  <2> QED  BY <2>1, ClientTyped DEF ClientsInv, RegistrationIInv, RegistryInv
<1>5. IInv /\ MemInv /\ StoreInv /\ RegistryInv /\ ClientsInv => LedgersTypeOK
  BY <1>1, <1>2, <1>3, <1>4 DEF LedgersTypeOK
<1> QED  BY <1>5, LedgersInvariant, PTL
=============================================================================
