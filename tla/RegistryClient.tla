----------------------------- MODULE RegistryClient ---------------------------
(***************************************************************************)
(* How an agent gets into the identity registry: RegisterOrUpdate          *)
(* (internal/registry/register_or_update.go, registration.go) and the edge *)
(* programs' EnsureRegistered (internal/edgeapp/registration.go), both     *)
(* over the adapter of internal/registry/contract_evm.go.  A call reads    *)
(* the chain several times, then sends one transaction and waits for it;   *)
(* other agents, the same agent started twice, and the owner of the token  *)
(* act in between.  A transaction whose sender gave up stays in the        *)
(* mempool.  Agents are keys, not contracts: they sign.  AgentURIs are     *)
(* complete and every agent is admitted.                                   *)
(***************************************************************************)
EXTENDS IdentityRegistry, Sequences, FiniteSets, Functions

CONSTANTS Starters,   \* the processes that register an agent
          KeyOf(_),   \* the key of a process
          Wanted(_),  \* the agentURI it registers
          Edge(_),    \* whether it calls EnsureRegistered, else RegisterOrUpdate
          MaxStarts   \* bound on the calls, of all processes

ASSUME ClientAssumption ==
  /\ IsFiniteSet(Starters)
  /\ \A p \in Starters : KeyOf(p) \in Accounts \ Contracts /\ Wanted(p) \in URIs
  /\ MaxStarts \in Nat

VARIABLES stage,     \* stage[p]: where the call of p is
          token,     \* token[p]: the token it works on
          outcome,   \* outcome[p]: how its last call ended
          starts,    \* starts[p]: its calls so far
          mempool,   \* mempool[a]: the transactions of a key that are not mined, by nonce
          disturbed  \* history: disturbed[p]: since the call of p began, the registration of
                     \* its key was touched by another transaction than the one p waits for

clientVars == <<stage, token, outcome, starts, mempool, disturbed>>
registrationVars == <<registryVars, clientVars>>

ClientStages == {"idle", "check", "lookup", "read", "authorise", "sendUpdate", "sendRegister",
                 "wait", "verify"}
Outcomes == {"none", "minted", "updated", "reused", "failed"}

ClientTypeOK ==
  /\ stage \in [Starters -> ClientStages]
  /\ token \in [Starters -> 0..MaxAgents]
  /\ outcome \in [Starters -> Outcomes]
  /\ starts \in [Starters -> 0..MaxStarts]
  /\ \A a \in Accounts : Len(mempool[a]) <= MaxStarts

ClientInit ==
  /\ stage = [p \in Starters |-> "idle"]
  /\ token = [p \in Starters |-> 0]
  /\ outcome = [p \in Starters |-> "none"]
  /\ starts = [p \in Starters |-> 0]
  /\ mempool = [a \in Accounts |-> << >>]
  /\ disturbed = [p \in Starters |-> FALSE]

RegistrationInit == RegistryInit /\ ClientInit

-----------------------------------------------------------------------------

Goto(p, next, id) ==
  /\ stage' = [stage EXCEPT ![p] = next]
  /\ token' = [token EXCEPT ![p] = id]
  /\ UNCHANGED <<outcome, starts, mempool, disturbed, registryVars>>

End(p, result, id) ==
  /\ stage' = [stage EXCEPT ![p] = "idle"]
  /\ token' = [token EXCEPT ![p] = id]
  /\ outcome' = [outcome EXCEPT ![p] = result]
  /\ UNCHANGED <<starts, mempool, disturbed, registryVars>>

Start(p) ==
  /\ stage[p] = "idle"
  /\ SumFunction(starts) < MaxStarts
  /\ starts' = [starts EXCEPT ![p] = @ + 1]
  /\ stage' = [stage EXCEPT ![p] = IF Edge(p) THEN "lookup" ELSE "check"]
  /\ outcome' = [outcome EXCEPT ![p] = "none"]
  /\ disturbed' = [disturbed EXCEPT ![p] = FALSE]
  /\ UNCHANGED <<token, mempool, registryVars>>

\* Every call to the node may fail.  Register takes a failed duplicate check for "not
\* registered", and goes on.
CheckDuplicate(p) ==
  /\ stage[p] = "check"
  /\ \/ tokenOfOwner(KeyOf(p)) # {} /\ Goto(p, "lookup", 0)
     \/ Goto(p, "sendRegister", 0)

\* tokenOfOwnerByIndex(key, 0), which reverts for a key that owns no token.  It is an error
\* after a duplicate was reported; EnsureRegistered registers then.
LookupTokenID(p) ==
  /\ stage[p] = "lookup"
  /\ \/ \E id \in tokenOfOwner(KeyOf(p)) : Goto(p, "read", id)
     \/ Edge(p) /\ tokenOfOwner(KeyOf(p)) = {} /\ Goto(p, "sendRegister", 0)
     \/ End(p, "failed", 0)

\* Faulty variant: any registration is good enough, stale or not.
readAnyURI(p) ==
  /\ stage[p] = "read"
  /\ \/ Exists(token[p]) /\ End(p, "reused", token[p])
     \/ End(p, "failed", token[p])

\* EnsureRegistered may be told not to update: it ends with ErrAgentURIMismatch then.
ReadURI(p) ==
  /\ stage[p] = "read"
  /\ \/ /\ Exists(token[p])
        /\ IF agentURIs[token[p]] = Wanted(p) THEN End(p, "reused", token[p])
           ELSE Goto(p, IF Edge(p) THEN "sendUpdate" ELSE "authorise", token[p])
     \/ End(p, "failed", token[p])

\* OwnerOf, GetApproved and IsApprovedForAll.
Authorise(p) ==
  /\ stage[p] = "authorise"
  /\ \/ isOwnerOrApproved(token[p], KeyOf(p)) /\ Goto(p, "sendUpdate", token[p])
     \/ End(p, "failed", token[p])

Send(p, tx) ==
  /\ mempool' = [mempool EXCEPT ![KeyOf(p)] = Append(@, tx)]
  /\ stage' = [stage EXCEPT ![p] = "wait"]
  /\ UNCHANGED <<token, outcome, starts, disturbed, registryVars>>

\* The gas estimate runs the call on the latest block: a call that reverts there is not sent.
SendRegister(p) ==
  /\ stage[p] = "sendRegister"
  /\ \/ MayRegister(KeyOf(p)) /\ Send(p, [by |-> p, start |-> starts[p], id |-> 0])
     \/ End(p, "failed", 0)

UpdateAgentURI(p) ==
  /\ stage[p] = "sendUpdate"
  /\ \/ /\ isOwnerOrApproved(token[p], KeyOf(p))
        /\ Send(p, [by |-> p, start |-> starts[p], id |-> token[p]])
     \/ End(p, "failed", token[p])

Waiting(tx) == stage[tx.by] = "wait" /\ starts[tx.by] = tx.start

Call(a, tx) ==
  IF tx.id = 0 THEN register(a, Wanted(tx.by)) ELSE setAgentURI(a, tx.id, Wanted(tx.by))

\* The processes whose registration a transaction of key a touches, but for the sender that
\* waits for it: an account that is approved may update the token of another key.
Touched(a, tx) ==
  {p \in Starters : /\ IF tx.id = 0 THEN KeyOf(p) = a ELSE addressToAgentId[KeyOf(p)] = tx.id
                    /\ ~(p = tx.by /\ Waiting(tx))}

\* The agentId of the Registered event in the receipt.
ParsedAgentId(p, ran) == IF ran THEN nextAgentId ELSE token[p]

\* A mined transaction runs or reverts.  Register needs the event of its receipt;
\* UpdateAgentURI does not look at the status of its own.
Mine(a) ==
  /\ mempool[a] # << >>
  /\ LET tx == Head(mempool[a])
         ran == IF tx.id = 0 THEN MayRegister(a) ELSE isOwnerOrApproved(tx.id, a)
     IN /\ IF ran THEN Call(a, tx) ELSE UNCHANGED registryVars
        /\ mempool' = [mempool EXCEPT ![a] = Tail(@)]
        /\ disturbed' = [p \in Starters |-> disturbed[p] \/ (ran /\ p \in Touched(a, tx))]
        /\ UNCHANGED starts
        /\ IF ~Waiting(tx) THEN UNCHANGED <<stage, token, outcome>>
           ELSE LET p == tx.by
                    next == IF tx.id = 0 /\ ran /\ ~Edge(p) THEN "verify" ELSE "idle"
                    result == IF tx.id # 0 THEN "updated"
                              ELSE IF ~ran THEN "failed"
                              ELSE IF Edge(p) THEN "minted" ELSE "none"
                IN /\ stage' = [stage EXCEPT ![p] = next]
                   /\ token' = [token EXCEPT ![p] = IF tx.id = 0 THEN ParsedAgentId(p, ran) ELSE @]
                   /\ outcome' = [outcome EXCEPT ![p] = result]

\* Faulty variant: the end of the context while the transaction is pending is no error.
waitBlindly(p) ==
  /\ stage[p] = "wait"
  /\ End(p, "updated", token[p])

\* The context ends while the transaction is pending.
WaitTimesOut(p) ==
  /\ stage[p] = "wait"
  /\ End(p, "failed", token[p])

VerifyOwner(p) ==
  /\ stage[p] = "verify"
  /\ \/ tokenOwner[token[p]] = KeyOf(p) /\ End(p, "minted", token[p])
     \/ End(p, "failed", token[p])

\* The owners act on their own: whoever loses or gets a token is disturbed.
OwnerActs ==
  /\ TokenCalls
  /\ disturbed' = [p \in Starters |->
                     disturbed[p] \/ addressToAgentId'[KeyOf(p)] # addressToAgentId[KeyOf(p)]]
  /\ UNCHANGED <<stage, token, outcome, starts, mempool>>

ClientStep(p) ==
  \/ CheckDuplicate(p) \/ LookupTokenID(p) \/ ReadURI(p) \/ Authorise(p)
  \/ SendRegister(p) \/ UpdateAgentURI(p) \/ VerifyOwner(p)

\* A transaction is one step to a program: none sees a register call that has not ended.
RegistrationNext ==
  \/ /\ minting = NoMint
     /\ \/ \E p \in Starters : Start(p) \/ ClientStep(p) \/ WaitTimesOut(p)
        \/ \E a \in Accounts : Mine(a)
  \/ OwnerActs

RegistrationSpec == RegistrationInit /\ [][RegistrationNext]_registrationVars

-----------------------------------------------------------------------------

\* A call that ended well left the agent registered with its agentURI, whatever calls to
\* the node failed, timed out and were started over, as long as nothing else touched the
\* registration in the meantime: no owner, no other process, no transaction of an earlier call.
SuccessIsOnChain ==
  \A p \in Starters :
    outcome[p] \in {"minted", "updated", "reused"} /\ ~disturbed[p] =>
      LET id == addressToAgentId[KeyOf(p)] IN
        /\ id # 0
        /\ id = token[p]
        /\ agentURIs[id] = Wanted(p)
=============================================================================
