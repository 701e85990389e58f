------------------------------- MODULE Heartbeat -------------------------------
(***************************************************************************)
(* A seller's heartbeats (runHeartbeat and HeartbeatPublisher), the stdOut *)
(* topic that carries them, and the watch a buyer keeps on them while a    *)
(* stream is open (startSellerLivenessWatch and LivenessTracker).          *)
(*                                                                         *)
(* One clock of whole seconds stands for the clocks of both processes and  *)
(* of the bus.  Tick passes a deadline of no step: how late each of them   *)
(* may come is a constant.                                                 *)
(***************************************************************************)
EXTENDS Health, Integers, Sequences

CONSTANTS Settings,        \* periods of a seller with buses that carry its heartbeats
          PollInterval,    \* LivenessTracker.PollInterval
          Lateness,        \* how late a ticker's loop may run
          Start, Horizon,  \* bounds: the clock runs from Start to Horizon
          MaxLives         \* bound on the runs of the seller's process

ASSUME HeartbeatAssumption ==
  /\ Settings \subseteq
       [period: MinDeadlineDelta..MaxDeadlineDelta,  \* SellerConfig.validate
        consensusDelay: Nat, deliveryDelay: Nat, replays: BOOLEAN]
  /\ \A s \in Settings : Lateness < s.period
  /\ PollInterval \in Nat \ {0} /\ Lateness \in Nat
  /\ Start > 2 * MaxDeadlineDelta  \* Unix time: no deadline is near zero
  /\ Start \in Nat /\ Horizon \in Nat /\ Start <= Horizon /\ MaxLives \in Nat

VARIABLES setting,   \* which of the settings it is
          clock,     \* Unix seconds
          publisher, \* the seller's process: its publisher and its ticker
          missed,    \* history: a publish of this life failed
          inFlight,  \* submitted messages without a consensus timestamp
          stdOut,    \* the messages of the topic, by backend sequence
          watch      \* the buyer's watch of the open stream

heartbeatVars == <<setting, clock, publisher, missed, inFlight, stdOut, watch>>

Period == setting.period \* HeartbeatPeriod

\* From Publish to the consensus timestamp (0 on MemoryBus), and from there to the tracker.
ConsensusDelay == setting.consensusDelay
DeliveryDelay == setting.deliveryDelay

\* The bus replays a topic to its new subscriber (MemoryBus).
Replays == setting.replays

Degraded == {"SUSPECT", "DEAD", "OFFLINE"}

Lives == 1..MaxLives
Submitted == [deadline: Nat, sent: Nat, life: Lives]
Published == [deadline: Nat, stamp: Nat, life: Lives]

NoWatch ==
  [on |-> FALSE, liveFrom |-> 1, replayNext |-> 1, liveNext |-> 1, polled |-> 0,
   record |-> NoRecord, evaluated |-> "UNKNOWN", lastEmitted |-> "UNKNOWN"]

Watch ==
  [on: BOOLEAN, liveFrom: Nat, replayNext: Nat, liveNext: Nat, polled: Nat,
   record: LivenessRecord, evaluated: LivenessState, lastEmitted: LivenessState]

HeartbeatTypeOK ==
  /\ setting \in Settings
  /\ clock \in Start..Horizon
  /\ publisher \in [up: BOOLEAN, life: 0..MaxLives, lastPublishTime: 0..Horizon, due: Nat]
  /\ missed \in BOOLEAN
  /\ inFlight \subseteq Submitted
  /\ stdOut \in Seq(Published)
  /\ watch \in Watch

HeartbeatInit ==
  /\ setting \in Settings
  /\ clock = Start
  /\ publisher = [up |-> FALSE, life |-> 0, lastPublishTime |-> 0, due |-> 0]
  /\ missed = FALSE
  /\ inFlight = {}
  /\ stdOut = <<>>
  /\ watch = NoWatch

(***************************************************************************)
(* The seller.                                                             *)
(***************************************************************************)
\* PublishHeartbeat: no retry when the adapter fails.
PublishHeartbeat(deadline, life, ok) ==
  IF ok /\ ValidateOutboundHeartbeat(deadline, clock)
  THEN inFlight' = inFlight \cup {[deadline |-> deadline, sent |-> clock, life |-> life]}
  ELSE UNCHANGED inFlight

\* MemoryBus orders a message before Publish returns.
PublishReturned == ConsensusDelay = 0 => inFlight = {}

\* uint64 subtraction is exact here: the clock never runs backwards.
RateLimited(p) ==
  p.lastPublishTime > 0 /\ clock - p.lastPublishTime < MinDeadlineDelta

\* HeartbeatPublisher.Publish of the deadline one period ahead, p being the publisher
\* with its ticker already advanced.
Emit(p, alreadyMissed) ==
  IF RateLimited(p)
  THEN publisher' = p /\ missed' = alreadyMissed /\ UNCHANGED inFlight
  ELSE \E ok \in BOOLEAN :
         /\ PublishHeartbeat(clock + Period, p.life, ok)
         /\ publisher' = IF ok THEN [p EXCEPT !.lastPublishTime = clock] ELSE p
         /\ missed' = (alreadyMissed \/ ~ok)

\* The first heartbeat goes out at once, and the ticker starts after it.
StartHeartbeat ==
  /\ PublishReturned /\ ~publisher.up /\ publisher.life < MaxLives
  /\ Emit([up |-> TRUE, life |-> publisher.life + 1, lastPublishTime |-> 0,
           due |-> clock + Period], FALSE)
  /\ UNCHANGED <<setting, clock, stdOut, watch>>

HeartbeatTick ==
  /\ PublishReturned /\ publisher.up /\ clock >= publisher.due
  /\ Emit([publisher EXCEPT !.due = @ + Period], missed)
  /\ UNCHANGED <<setting, clock, stdOut, watch>>

\* The sentinel goes around the rate limiter; a failure to publish it is logged.
Shutdown ==
  /\ PublishReturned /\ publisher.up
  /\ \E ok \in BOOLEAN : PublishHeartbeat(ShutdownSentinel, publisher.life, ok)
  /\ publisher' = [publisher EXCEPT !.up = FALSE]
  /\ UNCHANGED <<setting, clock, missed, stdOut, watch>>

Crash ==
  /\ publisher.up
  /\ publisher' = [publisher EXCEPT !.up = FALSE]
  /\ UNCHANGED <<setting, clock, missed, inFlight, stdOut, watch>>

\* The backend orders and stamps what was submitted, in whatever order it likes.
Consensus ==
  \E m \in inFlight :
    /\ stdOut' = Append(stdOut, [deadline |-> m.deadline, stamp |-> clock, life |-> m.life])
    /\ inFlight' = inFlight \ {m}
    /\ UNCHANGED <<setting, clock, publisher, missed, watch>>

(***************************************************************************)
(* The buyer's watch.                                                      *)
(***************************************************************************)
\* A mutation: a seller that was reported already is not reported again.
emitOnce(next, last) ==
  \/ next \in Degraded /\ last \notin Degraded
  \/ next = "ALIVE" /\ last \in {"SUSPECT", "DEAD"}
shouldEmit(next, last) ==
  \/ next \in Degraded
  \/ next = "ALIVE" /\ last \in {"SUSPECT", "DEAD"}

\* What follows a delivery or a poll: the state is evaluated and, when it is news, emitted.
\* An event changes lastEmitted.
Evaluate(w) ==
  LET state == EvaluateLiveness(w.record, clock)
      emits == state # "UNKNOWN" /\ state # w.lastEmitted /\ shouldEmit(state, w.lastEmitted)
  IN [w EXCEPT !.evaluated = state,
               !.lastEmitted = IF emits THEN state ELSE @]

\* A heartbeat the observer rejects is dropped before anything is evaluated.
ProcessDelivery(w, deadline, consensusTimestamp, sequence) ==
  IF ValidateInboundHeartbeat(deadline, consensusTimestamp)
  THEN Evaluate([w EXCEPT !.record =
                   TransitionState(@, deadline, consensusTimestamp, sequence)])
  ELSE w

\* A stream opens: Subscribe with FromSequence nil, and a fresh tracker.
StartWatch ==
  /\ ~watch.on
  /\ watch' = [NoWatch EXCEPT !.on = TRUE, !.polled = clock,
                              !.liveFrom = Len(stdOut) + 1, !.liveNext = Len(stdOut) + 1]
  /\ UNCHANGED <<setting, clock, publisher, missed, inFlight, stdOut>>

ReplayPending == Replays /\ watch.on /\ watch.replayNext < watch.liveFrom

\* A message of the history comes without a consensus timestamp; live messages may come
\* before it.
DeliverReplay ==
  /\ ReplayPending
  /\ watch' = ProcessDelivery([watch EXCEPT !.replayNext = @ + 1],
                              stdOut[watch.replayNext].deadline, 0, watch.replayNext)
  /\ UNCHANGED <<setting, clock, publisher, missed, inFlight, stdOut>>

DeliverLive ==
  /\ watch.on /\ watch.liveNext <= Len(stdOut)
  /\ watch' = ProcessDelivery([watch EXCEPT !.liveNext = @ + 1],
                              stdOut[watch.liveNext].deadline, stdOut[watch.liveNext].stamp,
                              watch.liveNext)
  /\ UNCHANGED <<setting, clock, publisher, missed, inFlight, stdOut>>

Poll ==
  /\ watch.on /\ watch.polled < clock
  /\ watch' = Evaluate([watch EXCEPT !.polled = clock])
  /\ UNCHANGED <<setting, clock, publisher, missed, inFlight, stdOut>>

\* The stream ends: for a reason of its own, or because the watch cancelled it.
EndWatch ==
  /\ watch.on
  /\ watch' = NoWatch
  /\ UNCHANGED <<setting, clock, publisher, missed, inFlight, stdOut>>

\* A second passes, unless a step is due in this one.
Tick ==
  /\ clock < Horizon
  /\ publisher.up => clock < publisher.due + Lateness
  /\ \A m \in inFlight : clock < m.sent + ConsensusDelay
  /\ watch.on =>
       /\ clock < watch.polled + PollInterval
       /\ ~ReplayPending
       /\ watch.liveNext <= Len(stdOut) => clock < stdOut[watch.liveNext].stamp + DeliveryDelay
  /\ clock' = clock + 1
  /\ UNCHANGED <<setting, publisher, missed, inFlight, stdOut, watch>>

HeartbeatNext ==
  \/ StartHeartbeat \/ HeartbeatTick \/ Shutdown \/ Crash \/ Consensus
  \/ StartWatch \/ DeliverReplay \/ DeliverLive \/ Poll \/ EndWatch
  \/ Tick

HeartbeatSpec == HeartbeatInit /\ [][HeartbeatNext]_heartbeatVars

(***************************************************************************)
(* What the watch may conclude.                                            *)
(***************************************************************************)
\* How much longer than a period two heartbeats are apart at most.  A late tick makes the
\* next one rate limited, when the period does not leave room for both.
Slack(s) ==
  IF s.period >= MinDeadlineDelta + Lateness THEN Lateness
  ELSE Lateness + MinDeadlineDelta - 1

\* The timing the code relies on: the backend orders a heartbeat before the next one is
\* submitted and leaves of its period what a deadline needs, and the grace period covers the
\* time from the one to the other.
Prompt ==
  \A s \in Settings :
    /\ s.consensusDelay < MinDeadlineDelta
    /\ s.consensusDelay + MinDeadlineDelta <= s.period
    /\ Slack(s) + s.consensusDelay + s.deliveryDelay <= GracePeriod

\* The last heartbeat the observer took is from the present run of the seller, which lost none.
HearsTheSeller ==
  /\ watch.on /\ publisher.up /\ ~missed
  /\ watch.record # NoRecord
  /\ stdOut[watch.record.lastSequence].life = publisher.life

\* No false suspicion: as long as a running seller gets its heartbeats out, the ticker's
\* lateness, the consensus and the delivery together do not exhaust the grace period, and the
\* stream is not torn down (runHeartbeat, EvaluateLiveness).
NoFalseSuspicion ==
  HearsTheSeller => EvaluateLiveness(watch.record, clock) = "ALIVE"

\* What the publisher lets out, the observer takes: the two measure the delta of a deadline
\* from different moments (V-PUB-05 by the sender's clock, V-OBS-06 by consensus), and still
\* no heartbeat delivered live is dropped ("the first heartbeat is sent immediately so
\* observers see liveness without waiting a full period", heartbeat.go:25-26).
HeartbeatsAreTaken ==
  watch.on => \A i \in watch.liveFrom..(watch.liveNext - 1) : watch.record.lastSequence >= i

\* A seller the watch has heard of and that falls silent is reported in time: SUSPECT or DEAD
\* one poll after the grace period, DEAD one poll after that of suspicion
\* (LivenessTracker.tickEvaluate), also when it went offline and came back before.
SilenceIsReported ==
  watch.on /\ watch.record.lastDeadline # ShutdownSentinel =>
    LET silent == watch.record.lastDeadline + GracePeriod + PollInterval
    IN /\ clock > silent => watch.lastEmitted \in {"SUSPECT", "DEAD"}
       /\ clock > silent + SuspectToDead => watch.lastEmitted = "DEAD"

\* The events tell the state: whoever has only the events knows what the tracker last
\* evaluated, but for a seller that came back from OFFLINE (shouldEmit says nothing of it).
EventsTellTheState ==
  watch.evaluated \in Degraded \/ watch.lastEmitted \in {"SUSPECT", "DEAD"}
    => watch.evaluated = watch.lastEmitted

\* The throttle keeps back no event that matters and lets none out that is wrong.
WatchReports == SilenceIsReported /\ EventsTellTheState

\* Whatever order history and live messages come in, the observer goes by the newest of those
\* that were delivered and are acceptable, as if they had come in the topic's order
\* (TransitionState, FR-H17; LivenessTracker.Run reads one channel for both).
NewestCounts ==
  LET history == IF Replays THEN 1..(watch.replayNext - 1) ELSE {}
      live == watch.liveFrom..(watch.liveNext - 1)
      acceptable ==
        {i \in history : ValidateInboundHeartbeat(stdOut[i].deadline, 0)}
          \cup {i \in live : ValidateInboundHeartbeat(stdOut[i].deadline, stdOut[i].stamp)}
  IN IF acceptable = {}
     THEN watch.record = NoRecord
     ELSE \E newest \in acceptable :
            /\ \A i \in acceptable : i <= newest
            /\ watch.record.lastSequence = newest
            /\ watch.record.lastDeadline = stdOut[newest].deadline

\* "emits a LivenessEvent every time the seller's evaluated state crosses from ALIVE into
\* SUSPECT, DEAD, or OFFLINE" (edgeapp/liveness.go:34-36).
EveryCrossingEmits ==
  [][watch.evaluated = "ALIVE" /\ watch'.evaluated \in Degraded
       => watch'.lastEmitted # watch.lastEmitted]_heartbeatVars
=============================================================================
