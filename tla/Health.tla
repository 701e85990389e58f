-------------------------------- MODULE Health --------------------------------
(***************************************************************************)
(* The deadline arithmetic of impl/golang/internal/health: what a          *)
(* heartbeat must satisfy to be published and to be accepted, and what an  *)
(* observer concludes from its record of a peer.  Times are seconds.  A    *)
(* record's currentState follows from its deadline and no decision reads   *)
(* it, so it is left out.                                                  *)
(***************************************************************************)
EXTENDS Naturals

CONSTANTS MinDeadlineDelta, MaxDeadlineDelta, GracePeriod, SuspectToDead

ASSUME HealthAssumption ==
  /\ MinDeadlineDelta \in Nat \ {0} /\ MaxDeadlineDelta \in Nat
  /\ MinDeadlineDelta <= MaxDeadlineDelta
  /\ GracePeriod \in Nat /\ SuspectToDead \in Nat

LivenessState == {"UNKNOWN", "ALIVE", "SUSPECT", "DEAD", "OFFLINE"}
ShutdownSentinel == 0

LivenessRecord == [lastSequence: Nat, lastDeadline: Nat, lastConsensusTimestamp: Nat]
\* The nil record; backend sequences start at 1.
NoRecord == [lastSequence |-> 0, lastDeadline |-> 0, lastConsensusTimestamp |-> 0]

DeltaInRange(deadline, reference) ==
  /\ deadline > reference
  /\ deadline - reference \in MinDeadlineDelta..MaxDeadlineDelta

\* The sentinel bypasses the checks of a deadline, on either side.
ValidateOutboundHeartbeat(deadline, senderClock) ==
  deadline = ShutdownSentinel \/ DeltaInRange(deadline, senderClock)

\* A mutation: the shortest allowed delta is already too short.
validateInboundStrict(deadline, consensusTimestamp) ==
  \/ deadline = ShutdownSentinel
  \/ /\ DeltaInRange(deadline, consensusTimestamp)
     /\ deadline - consensusTimestamp > MinDeadlineDelta

ValidateInboundHeartbeat(deadline, consensusTimestamp) ==
  deadline = ShutdownSentinel \/ DeltaInRange(deadline, consensusTimestamp)

\* A mutation: whatever comes last counts.
anyOrder(record, deadline, consensusTimestamp, sequence) ==
  [lastSequence |-> sequence, lastDeadline |-> deadline,
   lastConsensusTimestamp |-> consensusTimestamp]

\* A heartbeat no newer than the last one leaves the record as it is.
TransitionState(record, deadline, consensusTimestamp, sequence) ==
  IF record.lastSequence > 0 /\ sequence <= record.lastSequence
  THEN record
  ELSE [lastSequence |-> sequence, lastDeadline |-> deadline,
        lastConsensusTimestamp |-> consensusTimestamp]

\* A mutation: suspicion starts at the deadline itself.
noGrace(record, now) ==
  CASE record = NoRecord -> "UNKNOWN"
    [] record # NoRecord /\ record.lastDeadline = ShutdownSentinel -> "OFFLINE"
    [] OTHER -> IF now <= record.lastDeadline THEN "ALIVE"
                ELSE IF now <= record.lastDeadline + SuspectToDead THEN "SUSPECT" ELSE "DEAD"

EvaluateLiveness(record, now) ==
  CASE record = NoRecord -> "UNKNOWN"
    [] record # NoRecord /\ record.lastDeadline = ShutdownSentinel -> "OFFLINE"
    [] OTHER ->
         IF now <= record.lastDeadline + GracePeriod THEN "ALIVE"
         ELSE IF now <= record.lastDeadline + GracePeriod + SuspectToDead THEN "SUSPECT"
         ELSE "DEAD"
=============================================================================
