------------------------------- MODULE MCLedgers -------------------------------
(***************************************************************************)
(* What keeps records, for TLC: the escrow contract, the escrow kept in    *)
(* memory, the store of active services, and the registry of agents, once  *)
(* with whatever keys and contracts do to it and once with the programs    *)
(* that write to it.  They share nothing, and one run checks each of them  *)
(* by itself: `ledger` says which one moves.                               *)
(***************************************************************************)
EXTENDS MCNeuronEscrow, MemoryEscrow, ServiceStore, RegistryClient

CONSTANTS k1, k2,  \* two keys
          s1, s2,  \* two processes that register the first key
          uri1, uri2

VARIABLE ledger

ledgersVars == <<ledger, vars, memVars, storeVars, registrationVars>>

\* One program of the SDK and one of edgeapp, started with one key and different agentURIs.
MCKeyOf(p) == k1
MCWanted(p) == IF p = s2 THEN uri2 ELSE uri1
MCEdge(p) == p = s2

LedgersInit ==
  /\ ledger \in {"contract", "memory", "store", "registry", "clients"}
  /\ Init /\ MemInit /\ StoreInit /\ RegistrationInit

LedgersNext ==
  /\ UNCHANGED ledger
  /\ \/ ledger = "contract" /\ Next /\ UNCHANGED <<memVars, storeVars, registrationVars>>
     \/ ledger = "memory" /\ MemNext /\ UNCHANGED <<vars, storeVars, registrationVars>>
     \/ ledger = "store" /\ StoreNext /\ UNCHANGED <<vars, memVars, registrationVars>>
     \/ /\ ledger = "registry"
        /\ RegistryNext
        /\ UNCHANGED <<vars, memVars, storeVars, clientVars>>
     \/ /\ ledger = "clients"
        /\ RegistrationNext
        /\ minting' = NoMint /\ nextAgentId' <= MaxAgents \* bounds: contracts get tokens by
                                                          \* transfer only, one token fewer
        /\ UNCHANGED <<vars, memVars, storeVars>>

LedgersSpec == LedgersInit /\ [][LedgersNext]_ledgersVars

\* What their variables may hold.
LedgersTypeOK == TypeOK /\ MemTypeOK /\ StoreTypeOK /\ RegistryTypeOK /\ ClientTypeOK
================================================================================
