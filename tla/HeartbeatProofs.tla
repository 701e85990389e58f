---------------------------- MODULE HeartbeatProofs ----------------------------
(***************************************************************************)
(* What a buyer's watch concludes of a seller's heartbeats, for any        *)
(* periods, delays, grace periods and lateness, any number of lives and    *)
(* either kind of bus.                                                     *)
(*                                                                         *)
(* The invariant has four parts.  Shape: the types, and how far the watch  *)
(* has come in the topic.  Judged: what the tracker has evaluated and      *)
(* emitted belongs to its record and to a moment since its last poll.      *)
(* OnTheWay: how old a message can be.  Beating: the messages of the       *)
(* running seller follow each other closely enough, so that one that is    *)
(* not the last has a successor on the way.  The last needs Prompt, the    *)
(* timing the code relies on.                                              *)
(***************************************************************************)
EXTENDS Heartbeat, SequenceTheorems, TLAPS

\* How far the watch has come in the topic.
Progress ==
  /\ watch.replayNext \in 1..watch.liveFrom
  /\ watch.liveFrom <= watch.liveNext /\ watch.liveNext <= Len(stdOut) + 1

Shape ==
  /\ HeartbeatTypeOK /\ Progress
  /\ publisher.up => publisher.life \in Lives
  /\ ~watch.on => watch = NoWatch

-----------------------------------------------------------------------------
(***************************************************************************)
(* Types                                                                   *)
(***************************************************************************)

\* What the assumptions say of the constants and of the chosen setting.
LEMMA SettingFacts ==
  ASSUME HeartbeatTypeOK
  PROVE  /\ Period \in Nat /\ Period >= MinDeadlineDelta /\ Period <= MaxDeadlineDelta
         /\ ConsensusDelay \in Nat /\ DeliveryDelay \in Nat /\ Replays \in BOOLEAN
         /\ Lateness \in Nat /\ Lateness < Period
         /\ MinDeadlineDelta \in Nat \ {0} /\ MaxDeadlineDelta \in Nat
         /\ GracePeriod \in Nat /\ SuspectToDead \in Nat /\ PollInterval \in Nat
         /\ Start \in Nat /\ Horizon \in Nat /\ MaxLives \in Nat /\ Start > 2 * MaxDeadlineDelta
         /\ clock \in Nat /\ clock >= Start /\ clock <= Horizon
<1>1. setting \in Settings /\ clock \in Start..Horizon
  BY DEF HeartbeatTypeOK
<1>2. /\ MinDeadlineDelta \in Nat \ {0} /\ MaxDeadlineDelta \in Nat
      /\ GracePeriod \in Nat /\ SuspectToDead \in Nat /\ PollInterval \in Nat
      /\ Start \in Nat /\ Horizon \in Nat /\ MaxLives \in Nat /\ Start > 2 * MaxDeadlineDelta
      /\ Lateness \in Nat
  BY HealthAssumption, HeartbeatAssumption
<1>3. /\ setting \in [period: MinDeadlineDelta..MaxDeadlineDelta,
                      consensusDelay: Nat, deliveryDelay: Nat, replays: BOOLEAN]
      /\ Lateness < setting.period
  BY <1>1, HeartbeatAssumption
<1>4. /\ setting.period \in MinDeadlineDelta..MaxDeadlineDelta
      /\ setting.consensusDelay \in Nat /\ setting.deliveryDelay \in Nat
      /\ setting.replays \in BOOLEAN
  BY <1>3
<1>5. Period \in Nat /\ Period >= MinDeadlineDelta /\ Period <= MaxDeadlineDelta /\ Lateness < Period
  BY <1>2, <1>3, <1>4 DEF Period
<1>6. ConsensusDelay \in Nat /\ DeliveryDelay \in Nat /\ Replays \in BOOLEAN
  BY <1>4 DEF ConsensusDelay, DeliveryDelay, Replays
<1>7. clock \in Nat /\ clock >= Start /\ clock <= Horizon
  BY <1>1, <1>2
<1> QED  BY <1>2, <1>5, <1>6, <1>7

\* A message of the topic.
LEMMA PublishedFacts ==
  ASSUME HeartbeatTypeOK, NEW i \in 1..Len(stdOut)
  PROVE  /\ stdOut[i] \in Published /\ stdOut[i].deadline \in Nat /\ stdOut[i].stamp \in Nat
         /\ stdOut[i].life \in Lives
<1>1. stdOut \in Seq(Published)
  BY DEF HeartbeatTypeOK
<1>2. stdOut[i] \in Published
  BY <1>1, ElementOfSeq
<1> QED  BY <1>2 DEF Published

\* The fields of the watch and of the publisher.
LEMMA WatchFacts ==
  ASSUME HeartbeatTypeOK
  PROVE  /\ watch.on \in BOOLEAN /\ watch.liveFrom \in Nat /\ watch.replayNext \in Nat
         /\ watch.liveNext \in Nat /\ watch.polled \in Nat /\ watch.record \in LivenessRecord
         /\ watch.evaluated \in LivenessState /\ watch.lastEmitted \in LivenessState
         /\ watch.record.lastSequence \in Nat /\ watch.record.lastDeadline \in Nat
         /\ Len(stdOut) \in Nat /\ watch \in Watch
<1>1. watch \in Watch /\ stdOut \in Seq(Published)
  BY DEF HeartbeatTypeOK
<1>2. watch.record \in LivenessRecord
  BY <1>1 DEF Watch
<1> QED  BY <1>1, <1>2, LenProperties DEF Watch, LivenessRecord

LEMMA PublisherFacts ==
  ASSUME HeartbeatTypeOK
  PROVE  /\ publisher.up \in BOOLEAN /\ publisher.life \in 0..MaxLives /\ publisher.due \in Nat
         /\ publisher.lastPublishTime \in Nat /\ publisher.lastPublishTime <= Horizon
         /\ publisher.life \in Nat
<1>1. publisher \in [up: BOOLEAN, life: 0..MaxLives, lastPublishTime: 0..Horizon, due: Nat]
  BY DEF HeartbeatTypeOK
<1>2. /\ publisher.up \in BOOLEAN /\ publisher.life \in 0..MaxLives /\ publisher.due \in Nat
      /\ publisher.lastPublishTime \in 0..Horizon
  BY <1>1
<1> QED  BY <1>2, SettingFacts

-----------------------------------------------------------------------------
(***************************************************************************)
(* The tracker                                                             *)
(***************************************************************************)

\* What EvaluateLiveness may answer.
LEMMA LivenessFacts ==
  ASSUME NEW r \in LivenessRecord, NEW t \in Nat
  PROVE  /\ EvaluateLiveness(r, t) \in LivenessState
         /\ EvaluateLiveness(r, t) = "UNKNOWN" <=> r = NoRecord
         /\ r # NoRecord /\ r.lastDeadline # 0 /\ t <= r.lastDeadline + GracePeriod
              => EvaluateLiveness(r, t) = "ALIVE"
         /\ r # NoRecord /\ r.lastDeadline # 0 /\ t > r.lastDeadline + GracePeriod
              => EvaluateLiveness(r, t) \in {"SUSPECT", "DEAD"}
         /\ r # NoRecord /\ r.lastDeadline # 0 /\ t > r.lastDeadline + GracePeriod + SuspectToDead
              => EvaluateLiveness(r, t) = "DEAD"
<1>1. r.lastDeadline \in Nat /\ GracePeriod \in Nat /\ SuspectToDead \in Nat
  BY HealthAssumption DEF LivenessRecord
<1>2. CASE r = NoRecord
  <2>1. EvaluateLiveness(r, t) = "UNKNOWN"
    BY <1>2 DEF EvaluateLiveness
  <2> QED  BY <1>2, <2>1 DEF LivenessState
<1>3. CASE r # NoRecord /\ r.lastDeadline = 0
  <2>1. EvaluateLiveness(r, t) = "OFFLINE"
    BY <1>3 DEF EvaluateLiveness, ShutdownSentinel
  <2> QED  BY <1>3, <2>1 DEF LivenessState
<1>4. CASE r # NoRecord /\ r.lastDeadline # 0
  <2>1. EvaluateLiveness(r, t)
          = IF t <= r.lastDeadline + GracePeriod THEN "ALIVE"
            ELSE IF t <= r.lastDeadline + GracePeriod + SuspectToDead THEN "SUSPECT" ELSE "DEAD"
    BY <1>4 DEF EvaluateLiveness, ShutdownSentinel
  <2> QED  BY <1>1, <1>4, <2>1 DEF LivenessState
<1> QED  BY <1>2, <1>3, <1>4

\* A record takes a message that is newer than its last, and no other.
Advances(s, r, d, n) ==
  /\ s \in LivenessRecord
  /\ r.lastSequence >= n => s = r
  /\ r.lastSequence < n => s.lastSequence = n /\ s.lastDeadline = d
  /\ s.lastSequence # 0 /\ s # NoRecord

LEMMA TransitionFacts ==
  ASSUME NEW r \in LivenessRecord, NEW d \in Nat, NEW c \in Nat, NEW n \in Nat \ {0}
  PROVE  Advances(TransitionState(r, d, c, n), r, d, n)
<1> DEFINE s == TransitionState(r, d, c, n)
<1>1. r.lastSequence \in Nat
  BY DEF LivenessRecord
<1>2. CASE r.lastSequence >= n
  BY <1>1, <1>2 DEF Advances, TransitionState, NoRecord
<1>3. CASE r.lastSequence < n
  <2>1. s = [lastSequence |-> n, lastDeadline |-> d, lastConsensusTimestamp |-> c]
    BY <1>1, <1>3 DEF TransitionState
  <2> HIDE DEF s
  <2>2. s \in LivenessRecord /\ s.lastSequence = n /\ s.lastDeadline = d
    BY <2>1 DEF LivenessRecord
  <2>3. s # NoRecord
    BY <2>2 DEF NoRecord
  <2> QED  BY <1>1, <1>3, <2>2, <2>3 DEF Advances, s
<1> QED  BY <1>1, <1>2, <1>3

\* An event is emitted when the state is news that matters.
Emitted(last, state) ==
  IF state # "UNKNOWN" /\ state # last /\ shouldEmit(state, last) THEN state ELSE last

\* Evaluating changes what was evaluated and emitted, nothing else.
Evaluated(v, w) ==
  /\ v \in Watch /\ v.on = w.on /\ v.liveFrom = w.liveFrom
  /\ v.replayNext = w.replayNext /\ v.liveNext = w.liveNext /\ v.polled = w.polled
  /\ v.record = w.record /\ v.evaluated = EvaluateLiveness(w.record, clock)
  /\ v.lastEmitted = Emitted(w.lastEmitted, v.evaluated)

LEMMA EvaluateFacts ==
  ASSUME NEW w \in Watch, clock \in Nat
  PROVE  Evaluated(Evaluate(w), w)
<1> DEFINE state == EvaluateLiveness(w.record, clock)
           last == Emitted(w.lastEmitted, state)
           v == [w EXCEPT !.evaluated = state, !.lastEmitted = last]
<1>1. w.record \in LivenessRecord /\ w.lastEmitted \in LivenessState
  BY DEF Watch
<1>2. state \in LivenessState
  BY <1>1, LivenessFacts
<1>3. last \in LivenessState
  BY <1>1, <1>2 DEF Emitted
<1>4. Evaluate(w) = v
  BY DEF Evaluate, Emitted
<1> HIDE DEF state, last
<1>5. /\ v \in Watch /\ v.on = w.on /\ v.liveFrom = w.liveFrom
      /\ v.replayNext = w.replayNext /\ v.liveNext = w.liveNext /\ v.polled = w.polled
      /\ v.record = w.record /\ v.evaluated = state /\ v.lastEmitted = last
  BY <1>2, <1>3 DEF Watch
<1> HIDE DEF v
<1> QED  BY <1>4, <1>5 DEF Evaluated, state, last

\* A delivery moves the record and evaluates it, unless the observer rejects it.
Delivered(v, w, d, c, n) ==
  IF ValidateInboundHeartbeat(d, c)
  THEN /\ v \in Watch /\ v.on = w.on /\ v.liveFrom = w.liveFrom
       /\ v.replayNext = w.replayNext /\ v.liveNext = w.liveNext /\ v.polled = w.polled
       /\ v.record = TransitionState(w.record, d, c, n)
       /\ v.evaluated = EvaluateLiveness(v.record, clock)
       /\ v.lastEmitted = Emitted(w.lastEmitted, v.evaluated)
  ELSE v = w

LEMMA DeliveryFacts ==
  ASSUME NEW w \in Watch, clock \in Nat, NEW d \in Nat, NEW c \in Nat, NEW n \in Nat \ {0}
  PROVE  Delivered(ProcessDelivery(w, d, c, n), w, d, c, n)
<1> DEFINE r == TransitionState(w.record, d, c, n)
           x == [w EXCEPT !.record = r]
           v == ProcessDelivery(w, d, c, n)
<1>1. w.record \in LivenessRecord
  BY DEF Watch
<1>2. r \in LivenessRecord
  BY <1>1, TransitionFacts DEF Advances
<1>3. CASE ~ValidateInboundHeartbeat(d, c)
  BY <1>3 DEF ProcessDelivery, Delivered
<1>4. CASE ValidateInboundHeartbeat(d, c)
  <2>1. v = Evaluate(x)
    BY <1>4 DEF ProcessDelivery
  <2> HIDE DEF r, v
  <2>2. /\ x \in Watch /\ x.on = w.on /\ x.liveFrom = w.liveFrom /\ x.record = r
        /\ x.replayNext = w.replayNext /\ x.liveNext = w.liveNext /\ x.polled = w.polled
        /\ x.lastEmitted = w.lastEmitted
    BY <1>2 DEF Watch
  <2> HIDE DEF x
  <2>3. Evaluated(v, x)
    BY <2>1, <2>2, EvaluateFacts
  <2>4. /\ v \in Watch /\ v.on = w.on /\ v.liveFrom = w.liveFrom
        /\ v.replayNext = w.replayNext /\ v.liveNext = w.liveNext /\ v.polled = w.polled
        /\ v.record = r /\ v.evaluated = EvaluateLiveness(v.record, clock)
        /\ v.lastEmitted = Emitted(w.lastEmitted, v.evaluated)
    BY <2>2, <2>3 DEF Evaluated
  <2>5. Delivered(v, w, d, c, n)
    BY <1>4, <2>4 DEF Delivered, r
  <2> QED  BY <2>5 DEF v
<1> QED  BY <1>3, <1>4

-----------------------------------------------------------------------------
(***************************************************************************)
(* Shape                                                                   *)
(***************************************************************************)
Publisher == [up: BOOLEAN, life: 0..MaxLives, lastPublishTime: 0..Horizon, due: Nat]

\* The three outcomes of a tick: the rate limiter keeps the heartbeat back, it is submitted, or
\* its submission fails.
Kept(p, m) == RateLimited(p) /\ publisher' = p /\ missed' = m /\ inFlight' = inFlight
Sent(p, m) ==
  /\ ~RateLimited(p) /\ publisher' = [p EXCEPT !.lastPublishTime = clock] /\ missed' = m
  /\ inFlight' = inFlight \cup {[deadline |-> clock + Period, sent |-> clock, life |-> p.life]}
Lost(p) == publisher' = p /\ missed' = TRUE /\ inFlight' = inFlight

\* A deadline one period ahead is valid for the publisher.
LEMMA EmitOutcomes ==
  ASSUME HeartbeatTypeOK, NEW p, NEW m \in BOOLEAN, Emit(p, m)
  PROVE  Kept(p, m) \/ Sent(p, m) \/ Lost(p)
<1>1. CASE RateLimited(p)
  BY <1>1 DEF Emit, Kept
<1>2. CASE ~RateLimited(p)
  <2>1. ValidateOutboundHeartbeat(clock + Period, clock)
    BY SettingFacts DEF ValidateOutboundHeartbeat, DeltaInRange
  <2>2. PICK ok \in BOOLEAN :
          /\ PublishHeartbeat(clock + Period, p.life, ok)
          /\ publisher' = IF ok THEN [p EXCEPT !.lastPublishTime = clock] ELSE p
          /\ missed' = (m \/ ~ok)
    BY <1>2 DEF Emit
  <2>3. CASE ok
    BY <1>2, <2>1, <2>2, <2>3 DEF PublishHeartbeat, Sent
  <2>4. CASE ~ok
    BY <2>2, <2>4 DEF PublishHeartbeat, Lost
  <2> QED  BY <2>3, <2>4
<1> QED  BY <1>1, <1>2

\* The three outcomes keep the types of the publisher.
LEMMA EmitShape ==
  ASSUME HeartbeatTypeOK, NEW p \in Publisher, p.life \in Lives, p.up, NEW m \in BOOLEAN,
         Kept(p, m) \/ Sent(p, m) \/ Lost(p)
  PROVE  /\ publisher' \in Publisher /\ publisher'.up /\ publisher'.life = p.life
         /\ publisher'.due = p.due /\ publisher'.life \in Lives
         /\ missed' \in BOOLEAN /\ inFlight' \subseteq Submitted
         /\ Sent(p, m) => publisher'.lastPublishTime = clock
<1>1. clock \in 0..Horizon /\ clock + Period \in Nat /\ clock \in Nat
  BY SettingFacts
<1>2. inFlight \subseteq Submitted
  BY DEF HeartbeatTypeOK
<1>3. CASE Kept(p, m)
  BY <1>2, <1>3 DEF Kept, Sent
<1>4. CASE Lost(p)
  <2>1. publisher' = p /\ missed' = TRUE /\ inFlight' = inFlight
    BY <1>4 DEF Lost
  <2>2. Sent(p, m) => publisher'.lastPublishTime = clock
    <3> HAVE Sent(p, m)
    <3>1. publisher' = [p EXCEPT !.lastPublishTime = clock]
      BY DEF Sent
    <3> QED  BY <3>1 DEF Publisher
  <2> QED  BY <1>2, <2>1, <2>2
<1>5. CASE Sent(p, m)
  <2>1. [deadline |-> clock + Period, sent |-> clock, life |-> p.life] \in Submitted
    BY <1>1 DEF Submitted
  <2>2. publisher' = [p EXCEPT !.lastPublishTime = clock]
    BY <1>5 DEF Sent
  <2>3. /\ publisher' \in Publisher /\ publisher'.up /\ publisher'.life = p.life
        /\ publisher'.due = p.due /\ publisher'.lastPublishTime = clock
    BY <1>1, <2>2 DEF Publisher
  <2> QED  BY <1>2, <1>5, <2>1, <2>3 DEF Sent
<1> QED  BY <1>3, <1>4, <1>5

\* The publisher that a run of the process starts with, and the one whose ticker has advanced.
First == [up |-> TRUE, life |-> publisher.life + 1, lastPublishTime |-> 0, due |-> clock + Period]
Advanced == [publisher EXCEPT !.due = @ + Period]

LEMMA StartOutcomes ==
  ASSUME HeartbeatTypeOK, StartHeartbeat
  PROVE  /\ First \in Publisher /\ First.up /\ First.life = publisher.life + 1
         /\ First.life \in Lives /\ First.lastPublishTime = 0 /\ First.due = clock + Period
         /\ Sent(First, FALSE) \/ Lost(First)
<1>1. /\ publisher.life + 1 \in Lives /\ publisher.life + 1 \in 0..MaxLives
      /\ clock + Period \in Nat /\ 0 \in 0..Horizon
  BY PublisherFacts, SettingFacts DEF StartHeartbeat, Lives
<1>2. Emit(First, FALSE)
  BY DEF StartHeartbeat, First
<1>3. First \in Publisher
  BY <1>1 DEF First, Publisher
<1>4. /\ First.up /\ First.life = publisher.life + 1 /\ First.lastPublishTime = 0
      /\ First.due = clock + Period
  BY DEF First
<1>5. ~RateLimited(First)
  BY <1>4 DEF RateLimited
<1> HIDE DEF First
<1>6. Sent(First, FALSE) \/ Lost(First)
  BY <1>2, <1>5, EmitOutcomes DEF Kept
<1> QED  BY <1>1, <1>3, <1>4, <1>6

LEMMA TickOutcomes ==
  ASSUME Shape, HeartbeatTick
  PROVE  /\ Advanced \in Publisher /\ Advanced.up /\ Advanced.life = publisher.life
         /\ Advanced.life \in Lives /\ Advanced.lastPublishTime = publisher.lastPublishTime
         /\ Advanced.due = publisher.due + Period
         /\ Kept(Advanced, missed) \/ Sent(Advanced, missed) \/ Lost(Advanced)
<1>1. HeartbeatTypeOK /\ publisher.up /\ missed \in BOOLEAN /\ publisher \in Publisher
  BY DEF Shape, HeartbeatTick, HeartbeatTypeOK, Publisher
<1>2. Emit(Advanced, missed)
  BY DEF HeartbeatTick, Advanced
<1>3. publisher.due + Period \in Nat
  BY <1>1, PublisherFacts, SettingFacts
<1>4. /\ Advanced \in Publisher /\ Advanced.up /\ Advanced.life = publisher.life
      /\ Advanced.lastPublishTime = publisher.lastPublishTime
      /\ Advanced.due = publisher.due + Period
  BY <1>1, <1>3 DEF Advanced, Publisher
<1>5. Advanced.life \in Lives
  BY <1>1, <1>4 DEF Shape
<1> HIDE DEF Advanced
<1> QED  BY <1>1, <1>2, <1>4, <1>5, EmitOutcomes

\* The steps of the seller keep the shape.
LEMMA SellerShape ==
  ASSUME Shape, StartHeartbeat \/ HeartbeatTick \/ Shutdown \/ Crash
  PROVE  Shape'
<1>1. HeartbeatTypeOK /\ publisher \in Publisher /\ inFlight \subseteq Submitted
  BY DEF Shape, HeartbeatTypeOK, Publisher
<1>2. setting' = setting /\ clock' = clock /\ stdOut' = stdOut /\ watch' = watch
  BY DEF StartHeartbeat, HeartbeatTick, Shutdown, Crash
<1>3. /\ publisher' \in Publisher /\ missed' \in BOOLEAN /\ inFlight' \subseteq Submitted
      /\ publisher'.up => publisher'.life \in Lives
  <2>1. CASE StartHeartbeat
    BY <1>1, <2>1, StartOutcomes, EmitShape
  <2>2. CASE HeartbeatTick
    <3>1. missed \in BOOLEAN
      BY <1>1 DEF HeartbeatTypeOK
    <3> QED  BY <1>1, <2>2, <3>1, TickOutcomes, EmitShape
  <2>3. CASE Shutdown
    <3>1. publisher' = [publisher EXCEPT !.up = FALSE] /\ missed' = missed /\ publisher.life \in Lives
      BY <2>3 DEF Shutdown, Shape
    <3>2. publisher' \in Publisher /\ ~publisher'.up
      BY <1>1, <3>1 DEF Publisher
    <3>3. PICK ok \in BOOLEAN : PublishHeartbeat(ShutdownSentinel, publisher.life, ok)
      BY <2>3 DEF Shutdown
    <3>4. [deadline |-> ShutdownSentinel, sent |-> clock, life |-> publisher.life] \in Submitted
      BY <1>1, <3>1, SettingFacts DEF Submitted, ShutdownSentinel
    <3>5. inFlight' \subseteq Submitted
      BY <1>1, <3>3, <3>4 DEF PublishHeartbeat
    <3> QED  BY <1>1, <3>1, <3>2, <3>5 DEF HeartbeatTypeOK
  <2>4. CASE Crash
    <3>1. publisher' = [publisher EXCEPT !.up = FALSE] /\ missed' = missed /\ inFlight' = inFlight
      BY <2>4 DEF Crash
    <3>2. publisher' \in Publisher /\ ~publisher'.up
      BY <1>1, <3>1 DEF Publisher
    <3> QED  BY <1>1, <3>1, <3>2 DEF HeartbeatTypeOK
  <2> QED  BY <2>1, <2>2, <2>3, <2>4
<1>4. HeartbeatTypeOK'
  BY <1>1, <1>2, <1>3 DEF HeartbeatTypeOK, Publisher
<1>5. Progress' /\ (~watch'.on => watch' = NoWatch)
  BY <1>2 DEF Shape, Progress
<1> QED  BY <1>3, <1>4, <1>5 DEF Shape

\* Ordering a message moves it from the one set to the end of the other.
LEMMA ConsensusOutcome ==
  ASSUME HeartbeatTypeOK, NEW m \in inFlight,
         stdOut' = Append(stdOut, [deadline |-> m.deadline, stamp |-> clock, life |-> m.life])
  PROVE  /\ m \in Submitted /\ m.deadline \in Nat /\ m.sent \in Nat /\ m.life \in Lives
         /\ stdOut' \in Seq(Published) /\ Len(stdOut') = Len(stdOut) + 1
         /\ \A i \in 1..Len(stdOut) : stdOut'[i] = stdOut[i]
         /\ stdOut'[Len(stdOut) + 1].deadline = m.deadline
         /\ stdOut'[Len(stdOut) + 1].stamp = clock
         /\ stdOut'[Len(stdOut) + 1].life = m.life
<1>1. m \in Submitted /\ stdOut \in Seq(Published)
  BY DEF HeartbeatTypeOK
<1>2. m.deadline \in Nat /\ m.sent \in Nat /\ m.life \in Lives
  BY <1>1 DEF Submitted
<1> DEFINE n == [deadline |-> m.deadline, stamp |-> clock, life |-> m.life]
<1>3. n \in Published /\ n.deadline = m.deadline /\ n.stamp = clock /\ n.life = m.life
  BY <1>2, SettingFacts DEF Published
<1> HIDE DEF n
<1>4. stdOut' = Append(stdOut, n)
  BY DEF n
<1> QED  BY <1>1, <1>2, <1>3, <1>4, AppendProperties

LEMMA ConsensusShape ==
  ASSUME Shape, Consensus
  PROVE  Shape'
<1>1. PICK m \in inFlight :
        /\ stdOut' = Append(stdOut, [deadline |-> m.deadline, stamp |-> clock, life |-> m.life])
        /\ inFlight' = inFlight \ {m}
        /\ UNCHANGED <<setting, clock, publisher, missed, watch>>
  BY DEF Consensus
<1>2. HeartbeatTypeOK
  BY DEF Shape
<1>3. stdOut' \in Seq(Published) /\ Len(stdOut') = Len(stdOut) + 1
  BY <1>1, <1>2, ConsensusOutcome
<1>4. HeartbeatTypeOK'
  BY <1>1, <1>2, <1>3 DEF HeartbeatTypeOK
<1>5. Progress'
  BY <1>1, <1>2, <1>3, WatchFacts DEF Shape, Progress
<1> QED  BY <1>1, <1>4, <1>5 DEF Shape

\* The message that comes next from the history, and the live one.
LEMMA ReplayMessage ==
  ASSUME Shape, DeliverReplay
  PROVE  /\ watch.replayNext \in 1..Len(stdOut) /\ watch.replayNext \in Nat \ {0}
         /\ watch.replayNext < watch.liveFrom /\ stdOut[watch.replayNext].deadline \in Nat
<1>1. HeartbeatTypeOK
  BY DEF Shape
<1>2. /\ watch.replayNext \in 1..Len(stdOut) /\ watch.replayNext \in Nat \ {0}
      /\ watch.replayNext < watch.liveFrom
  BY <1>1, WatchFacts DEF Shape, Progress, DeliverReplay, ReplayPending
<1> QED  BY <1>1, <1>2, PublishedFacts

LEMMA LiveMessage ==
  ASSUME Shape, DeliverLive
  PROVE  /\ watch.liveNext \in 1..Len(stdOut) /\ watch.liveNext \in Nat \ {0}
         /\ stdOut[watch.liveNext].deadline \in Nat /\ stdOut[watch.liveNext].stamp \in Nat
<1>1. HeartbeatTypeOK
  BY DEF Shape
<1>2. watch.liveNext \in 1..Len(stdOut) /\ watch.liveNext \in Nat \ {0}
  BY <1>1, WatchFacts DEF Shape, Progress, DeliverLive
<1> QED  BY <1>1, <1>2, PublishedFacts

\* The watch after message n has come, with deadline d and timestamp c.
Taken(n, d, c) ==
  LET r == TransitionState(watch.record, d, c, n)
  IN /\ watch' \in Watch /\ watch'.on /\ watch'.liveFrom = watch.liveFrom
     /\ watch'.polled = watch.polled
     /\ IF ValidateInboundHeartbeat(d, c)
        THEN /\ watch'.record = r /\ watch'.evaluated = EvaluateLiveness(r, clock)
             /\ watch'.lastEmitted = Emitted(watch.lastEmitted, watch'.evaluated)
        ELSE /\ watch'.record = watch.record /\ watch'.evaluated = watch.evaluated
             /\ watch'.lastEmitted = watch.lastEmitted

\* The record keeps the message, unless it has a newer one.
LEMMA TakenFacts ==
  ASSUME NEW n \in Nat \ {0}, NEW d \in Nat, NEW c \in Nat, Taken(n, d, c),
         ValidateInboundHeartbeat(d, c), watch.record \in LivenessRecord
  PROVE  /\ watch'.record # NoRecord /\ watch'.record.lastSequence # 0
         /\ watch.record.lastSequence >= n => watch'.record = watch.record
         /\ watch.record.lastSequence < n =>
              watch'.record.lastSequence = n /\ watch'.record.lastDeadline = d
<1> DEFINE r == TransitionState(watch.record, d, c, n)
<1>1. Advances(r, watch.record, d, n)
  BY TransitionFacts
<1> HIDE DEF r
<1>2. watch'.record = r
  BY DEF Taken, r
<1> QED  BY <1>1, <1>2 DEF Advances

LEMMA ReplayOutcome ==
  ASSUME Shape, DeliverReplay
  PROVE  /\ Taken(watch.replayNext, stdOut[watch.replayNext].deadline, 0)
         /\ watch'.replayNext = watch.replayNext + 1 /\ watch'.liveNext = watch.liveNext
<1> DEFINE n == watch.replayNext
           d == stdOut[n].deadline
           w == [watch EXCEPT !.replayNext = n + 1]
           v == ProcessDelivery(w, d, 0, n)
<1>1. /\ watch \in Watch /\ watch.on /\ n \in Nat \ {0} /\ n + 1 \in Nat /\ clock \in Nat
  <2>1. HeartbeatTypeOK /\ watch.on /\ n \in Nat \ {0}
    BY ReplayMessage DEF Shape, DeliverReplay, ReplayPending
  <2>2. watch \in Watch /\ clock \in Nat
    BY <2>1, WatchFacts, SettingFacts
  <2>3. n + 1 \in Nat
    BY <2>1
  <2> QED  BY <2>1, <2>2, <2>3
<1>2. d \in Nat
  BY ReplayMessage
<1>3. watch' = v
  BY DEF DeliverReplay
<1>4. /\ w \in Watch /\ w.on = watch.on /\ w.liveFrom = watch.liveFrom /\ w.polled = watch.polled
      /\ w.replayNext = n + 1 /\ w.liveNext = watch.liveNext /\ w.record = watch.record
      /\ w.evaluated = watch.evaluated /\ w.lastEmitted = watch.lastEmitted
  BY <1>1 DEF Watch
<1> HIDE DEF w, d, n
<1>5. Delivered(v, w, d, 0, n)
  BY <1>1, <1>2, <1>4, DeliveryFacts
<1> HIDE DEF v
<1>6. Taken(n, d, 0) /\ v.replayNext = w.replayNext /\ v.liveNext = w.liveNext
  BY <1>1, <1>3, <1>4, <1>5 DEF Taken, Delivered
<1> QED  BY <1>3, <1>4, <1>6 DEF n, d

LEMMA LiveOutcome ==
  ASSUME Shape, DeliverLive
  PROVE  /\ Taken(watch.liveNext, stdOut[watch.liveNext].deadline, stdOut[watch.liveNext].stamp)
         /\ watch'.replayNext = watch.replayNext /\ watch'.liveNext = watch.liveNext + 1
<1> DEFINE n == watch.liveNext
           d == stdOut[n].deadline
           c == stdOut[n].stamp
           w == [watch EXCEPT !.liveNext = n + 1]
           v == ProcessDelivery(w, d, c, n)
<1>1. /\ watch \in Watch /\ watch.on /\ n \in Nat \ {0} /\ n + 1 \in Nat /\ clock \in Nat
  <2>1. HeartbeatTypeOK /\ watch.on /\ n \in Nat \ {0}
    BY LiveMessage DEF Shape, DeliverLive
  <2>2. watch \in Watch /\ clock \in Nat
    BY <2>1, WatchFacts, SettingFacts
  <2>3. n + 1 \in Nat
    BY <2>1
  <2> QED  BY <2>1, <2>2, <2>3
<1>2. d \in Nat /\ c \in Nat
  BY LiveMessage
<1>3. watch' = v
  BY DEF DeliverLive
<1>4. /\ w \in Watch /\ w.on = watch.on /\ w.liveFrom = watch.liveFrom /\ w.polled = watch.polled
      /\ w.liveNext = n + 1 /\ w.replayNext = watch.replayNext /\ w.record = watch.record
      /\ w.evaluated = watch.evaluated /\ w.lastEmitted = watch.lastEmitted
  BY <1>1 DEF Watch
<1> HIDE DEF w, d, c, n
<1>5. Delivered(v, w, d, c, n)
  BY <1>1, <1>2, <1>4, DeliveryFacts
<1> HIDE DEF v
<1>6. Taken(n, d, c) /\ v.replayNext = w.replayNext /\ v.liveNext = w.liveNext
  BY <1>1, <1>3, <1>4, <1>5 DEF Taken, Delivered
<1> QED  BY <1>3, <1>4, <1>6 DEF n, d, c

LEMMA PollOutcome ==
  ASSUME Shape, Poll
  PROVE  /\ watch' \in Watch /\ watch'.on /\ watch'.liveFrom = watch.liveFrom
         /\ watch'.replayNext = watch.replayNext /\ watch'.liveNext = watch.liveNext
         /\ watch'.polled = clock /\ watch'.record = watch.record
         /\ watch'.evaluated = EvaluateLiveness(watch.record, clock)
         /\ watch'.lastEmitted = Emitted(watch.lastEmitted, watch'.evaluated)
<1> DEFINE w == [watch EXCEPT !.polled = clock]
<1>1. HeartbeatTypeOK /\ watch \in Watch /\ watch.on /\ clock \in Nat
  BY WatchFacts, SettingFacts DEF Shape, Poll
<1>2. /\ w \in Watch /\ w.on = watch.on /\ w.liveFrom = watch.liveFrom /\ w.polled = clock
      /\ w.replayNext = watch.replayNext /\ w.liveNext = watch.liveNext
      /\ w.record = watch.record /\ w.lastEmitted = watch.lastEmitted
  BY <1>1 DEF Watch
<1>3. watch' = Evaluate(w)
  BY DEF Poll
<1> HIDE DEF w
<1>4. Evaluated(watch', w)
  BY <1>1, <1>2, <1>3, EvaluateFacts
<1> QED  BY <1>1, <1>2, <1>4 DEF Evaluated

LEMMA StartWatchOutcome ==
  ASSUME Shape, StartWatch
  PROVE  /\ watch' \in Watch /\ watch'.on /\ watch'.liveFrom = Len(stdOut) + 1
         /\ watch'.replayNext = 1 /\ watch'.liveNext = Len(stdOut) + 1
         /\ watch'.polled = clock /\ watch'.record = NoRecord
         /\ watch'.evaluated = "UNKNOWN" /\ watch'.lastEmitted = "UNKNOWN"
<1>1. Len(stdOut) + 1 \in Nat /\ clock \in Nat
  BY WatchFacts, SettingFacts DEF Shape
<1>2. NoRecord \in LivenessRecord /\ "UNKNOWN" \in LivenessState
  BY DEF NoRecord, LivenessRecord, LivenessState
<1>3. watch' = [on |-> TRUE, liveFrom |-> Len(stdOut) + 1, replayNext |-> 1,
                liveNext |-> Len(stdOut) + 1, polled |-> clock, record |-> NoRecord,
                evaluated |-> "UNKNOWN", lastEmitted |-> "UNKNOWN"]
  BY DEF StartWatch, NoWatch
<1> QED  BY <1>1, <1>2, <1>3 DEF Watch

LEMMA NoWatchFacts ==
  /\ NoWatch \in Watch /\ ~NoWatch.on /\ NoWatch.liveFrom = 1 /\ NoWatch.replayNext = 1
  /\ NoWatch.liveNext = 1 /\ NoWatch.record = NoRecord /\ NoWatch.polled = 0
  /\ NoWatch.evaluated = "UNKNOWN" /\ NoWatch.lastEmitted = "UNKNOWN"
<1>1. NoRecord \in LivenessRecord /\ "UNKNOWN" \in LivenessState
  BY DEF NoRecord, LivenessRecord, LivenessState
<1> QED  BY <1>1 DEF NoWatch, Watch

\* The steps of the watch keep the shape.
LEMMA WatchShape ==
  ASSUME Shape, StartWatch \/ DeliverReplay \/ DeliverLive \/ Poll \/ EndWatch
  PROVE  Shape'
<1>1. HeartbeatTypeOK /\ Len(stdOut) \in Nat /\ watch.liveFrom \in Nat /\ watch.replayNext \in Nat
      /\ watch.liveNext \in Nat
  BY WatchFacts DEF Shape
<1>2. /\ setting' = setting /\ clock' = clock /\ publisher' = publisher /\ missed' = missed
      /\ inFlight' = inFlight /\ stdOut' = stdOut
  BY DEF StartWatch, DeliverReplay, DeliverLive, Poll, EndWatch
<1>3. watch' \in Watch /\ Progress' /\ (~watch'.on => watch' = NoWatch)
  <2>1. CASE StartWatch
    BY <1>1, <1>2, <2>1, StartWatchOutcome DEF Progress
  <2>2. CASE DeliverReplay
    BY <1>1, <1>2, <2>2, ReplayOutcome, ReplayMessage DEF Shape, Progress, Taken
  <2>3. CASE DeliverLive
    BY <1>1, <1>2, <2>3, LiveOutcome, LiveMessage DEF Shape, Progress, Taken
  <2>4. CASE Poll
    BY <1>1, <1>2, <2>4, PollOutcome DEF Shape, Progress
  <2>5. CASE EndWatch
    <3>1. watch' = NoWatch
      BY <2>5 DEF EndWatch
    <3> QED  BY <1>1, <1>2, <3>1, NoWatchFacts DEF Progress
  <2> QED  BY <2>1, <2>2, <2>3, <2>4, <2>5
<1>4. HeartbeatTypeOK'
  BY <1>1, <1>2, <1>3 DEF HeartbeatTypeOK
<1> QED  BY <1>2, <1>3, <1>4 DEF Shape

LEMMA TickShape ==
  ASSUME Shape, Tick
  PROVE  Shape'
<1>1. /\ setting' = setting /\ clock' = clock + 1 /\ publisher' = publisher /\ missed' = missed
      /\ inFlight' = inFlight /\ stdOut' = stdOut /\ watch' = watch /\ clock < Horizon
  BY DEF Tick
<1>2. HeartbeatTypeOK
  BY DEF Shape
<1>3. clock' \in Start..Horizon
  BY <1>1, <1>2, SettingFacts
<1>4. HeartbeatTypeOK'
  BY <1>1, <1>2, <1>3 DEF HeartbeatTypeOK
<1> QED  BY <1>1, <1>4 DEF Shape, Progress

LEMMA InitShape ==
  ASSUME HeartbeatInit
  PROVE  Shape
<1>1. /\ setting \in Settings /\ clock = Start /\ missed = FALSE /\ inFlight = {} /\ stdOut = <<>>
      /\ publisher = [up |-> FALSE, life |-> 0, lastPublishTime |-> 0, due |-> 0] /\ watch = NoWatch
  BY DEF HeartbeatInit
<1>2. Start \in Nat /\ Horizon \in Nat /\ Start <= Horizon /\ MaxLives \in Nat
  BY HeartbeatAssumption
<1>3. publisher \in Publisher /\ ~publisher.up
  BY <1>1, <1>2 DEF Publisher
<1>4. HeartbeatTypeOK
  <2>1. clock \in Start..Horizon /\ inFlight \subseteq Submitted /\ stdOut \in Seq(Published)
    BY <1>1, <1>2
  <2> QED  BY <1>1, <1>3, <2>1, NoWatchFacts DEF HeartbeatTypeOK, Publisher
<1>5. Progress
  BY <1>1, NoWatchFacts DEF Progress
<1> QED  BY <1>1, <1>3, <1>4, <1>5 DEF Shape

-----------------------------------------------------------------------------
(***************************************************************************)
(* What is evaluated and reported                                          *)
(***************************************************************************)
Judged ==
  /\ watch.record.lastSequence = 0 <=> watch.record = NoRecord
  /\ watch.record = NoRecord => watch.evaluated = "UNKNOWN" /\ watch.lastEmitted = "UNKNOWN"
  /\ watch.on => watch.polled <= clock /\ clock <= watch.polled + PollInterval
  /\ watch.record # NoRecord =>
       \E t \in watch.polled..clock : watch.evaluated = EvaluateLiveness(watch.record, t)
  /\ EventsTellTheState

\* An event is kept back only when it says nothing new.
LEMMA EmittedFacts ==
  ASSUME NEW state \in LivenessState, NEW last \in LivenessState, state # "UNKNOWN",
         state \in Degraded \/ Emitted(last, state) \in {"SUSPECT", "DEAD"}
  PROVE  state = Emitted(last, state)
  BY DEF Emitted, shouldEmit, Degraded, LivenessState

\* The watch after its record was evaluated.
LEMMA JudgedNow ==
  ASSUME Shape, Shape', clock' = clock, watch.on, watch'.on,
         watch'.polled \in {watch.polled, clock},
         watch'.record.lastSequence = 0 <=> watch'.record = NoRecord,
         watch'.record = NoRecord => watch.lastEmitted = "UNKNOWN",
         watch'.evaluated = EvaluateLiveness(watch'.record, clock),
         watch'.lastEmitted = Emitted(watch.lastEmitted, watch'.evaluated),
         Judged
  PROVE  Judged'
<1>1. HeartbeatTypeOK /\ HeartbeatTypeOK'
  BY DEF Shape
<1>2. /\ clock \in Nat /\ PollInterval \in Nat /\ watch.polled \in Nat
      /\ watch.lastEmitted \in LivenessState
  BY <1>1, SettingFacts, WatchFacts
<1>3. watch' \in Watch
  BY <1>1 DEF HeartbeatTypeOK
<1>4. watch'.record \in LivenessRecord /\ watch'.evaluated \in LivenessState
  BY <1>3 DEF Watch
<1>5. watch.polled <= clock /\ clock <= watch.polled + PollInterval
  BY DEF Judged
<1>6. watch'.polled <= clock /\ clock <= watch'.polled + PollInterval /\ clock \in watch'.polled..clock
  BY <1>2, <1>5
<1>7. watch'.evaluated = "UNKNOWN" <=> watch'.record = NoRecord
  BY <1>2, <1>4, LivenessFacts
<1>8. watch'.record = NoRecord => watch'.evaluated = "UNKNOWN" /\ watch'.lastEmitted = "UNKNOWN"
  BY <1>7 DEF Emitted
<1>9. EventsTellTheState'
  <2>1. CASE watch'.record = NoRecord
    BY <1>8, <2>1 DEF EventsTellTheState, Degraded
  <2>2. CASE watch'.record # NoRecord
    BY <1>2, <1>4, <1>7, <2>2, EmittedFacts DEF EventsTellTheState
  <2> QED  BY <2>1, <2>2
<1> QED  BY <1>6, <1>8, <1>9 DEF Judged

LEMMA JudgedStep ==
  ASSUME Shape, Shape', Judged, [HeartbeatNext]_heartbeatVars
  PROVE  Judged'
<1>1. HeartbeatTypeOK
  BY DEF Shape
<1>2. /\ clock \in Nat /\ PollInterval \in Nat /\ watch.polled \in Nat /\ Len(stdOut) \in Nat
      /\ watch.record \in LivenessRecord
  BY <1>1, SettingFacts, WatchFacts
<1>3. ASSUME clock' = clock, watch' = watch
      PROVE  Judged'
  BY <1>3 DEF Judged, EventsTellTheState
<1>4. ASSUME NEW n \in Nat \ {0}, NEW d \in Nat, NEW c \in Nat, Taken(n, d, c),
             clock' = clock, watch.on
      PROVE  Judged'
  <2> DEFINE r == TransitionState(watch.record, d, c, n)
  <2>2. CASE ValidateInboundHeartbeat(d, c)
    <3>1. watch'.record # NoRecord /\ watch'.record.lastSequence # 0
      BY <1>2, <1>4, <2>2, TakenFacts
    <3>2. /\ watch'.on /\ watch'.polled = watch.polled /\ watch'.record = r
          /\ watch'.evaluated = EvaluateLiveness(r, clock)
          /\ watch'.lastEmitted = Emitted(watch.lastEmitted, watch'.evaluated)
      BY <1>4, <2>2 DEF Taken
    <3> HIDE DEF r
    <3> QED  BY <1>4, <3>1, <3>2, JudgedNow
  <2>3. CASE ~ValidateInboundHeartbeat(d, c)
    <3>1. /\ watch'.on /\ watch'.polled = watch.polled /\ watch'.record = watch.record
          /\ watch'.evaluated = watch.evaluated /\ watch'.lastEmitted = watch.lastEmitted
      BY <1>4, <2>3 DEF Taken
    <3> QED  BY <1>4, <3>1 DEF Judged, EventsTellTheState
  <2> QED  BY <2>2, <2>3
<1>5. CASE StartHeartbeat \/ HeartbeatTick \/ Shutdown \/ Crash \/ Consensus
  BY <1>3, <1>5 DEF StartHeartbeat, HeartbeatTick, Shutdown, Crash, Consensus
<1>6. CASE StartWatch
  <2>1. /\ watch'.polled = clock /\ watch'.record = NoRecord
        /\ watch'.evaluated = "UNKNOWN" /\ watch'.lastEmitted = "UNKNOWN" /\ clock' = clock
    BY <1>6, StartWatchOutcome DEF StartWatch
  <2> QED  BY <1>2, <2>1 DEF Judged, EventsTellTheState, Degraded, NoRecord
<1>7. CASE DeliverReplay
  <2>1. clock' = clock /\ watch.on
    BY <1>7 DEF DeliverReplay, ReplayPending
  <2> QED  BY <1>4, <1>7, <2>1, ReplayOutcome, ReplayMessage
<1>8. CASE DeliverLive
  <2>1. clock' = clock /\ watch.on
    BY <1>8 DEF DeliverLive
  <2> QED  BY <1>4, <1>8, <2>1, LiveOutcome, LiveMessage
<1>9. CASE Poll
  <2>1. clock' = clock /\ watch.on
    BY <1>9 DEF Poll
  <2>2. /\ watch'.on /\ watch'.polled = clock /\ watch'.record = watch.record
        /\ watch'.evaluated = EvaluateLiveness(watch.record, clock)
        /\ watch'.lastEmitted = Emitted(watch.lastEmitted, watch'.evaluated)
    BY <1>9, PollOutcome
  <2>3. /\ watch'.record.lastSequence = 0 <=> watch'.record = NoRecord
        /\ watch'.record = NoRecord => watch.lastEmitted = "UNKNOWN"
    BY <2>2 DEF Judged
  <2> QED  BY <2>1, <2>2, <2>3, JudgedNow
<1>10. CASE EndWatch
  <2>1. watch' = NoWatch /\ clock' = clock
    BY <1>10 DEF EndWatch
  <2> QED  BY <1>2, <2>1, NoWatchFacts DEF Judged, EventsTellTheState, Degraded, NoRecord
<1>11. CASE Tick
  <2>1. /\ clock' = clock + 1 /\ watch' = watch
        /\ watch.on => clock < watch.polled + PollInterval
    BY <1>11 DEF Tick
  <2>2. watch.on => watch'.polled <= clock' /\ clock' <= watch'.polled + PollInterval
    BY <1>2, <2>1 DEF Judged
  <2>3. watch.polled..clock \subseteq watch'.polled..clock'
    BY <1>2, <2>1
  <2> QED  BY <2>1, <2>2, <2>3 DEF Judged, EventsTellTheState
<1>12. CASE UNCHANGED heartbeatVars
  BY <1>3, <1>12 DEF heartbeatVars
<1> QED  BY <1>5, <1>6, <1>7, <1>8, <1>9, <1>10, <1>11, <1>12 DEF HeartbeatNext

\* A silence as long as the grace period and a poll is seen by the last poll.
LEMMA JudgedReports ==
  ASSUME Shape, Judged
  PROVE  WatchReports
<1>1. HeartbeatTypeOK /\ EventsTellTheState
  BY DEF Shape, Judged
<1> DEFINE r == watch.record
<1>2. /\ clock \in Nat /\ PollInterval \in Nat /\ watch.polled \in Nat /\ r \in LivenessRecord
      /\ r.lastDeadline \in Nat /\ GracePeriod \in Nat /\ SuspectToDead \in Nat
  BY <1>1, SettingFacts, WatchFacts
<1>3. ASSUME watch.on, r.lastDeadline # 0
      PROVE  /\ clock > r.lastDeadline + GracePeriod + PollInterval
                  => watch.lastEmitted \in {"SUSPECT", "DEAD"}
             /\ clock > r.lastDeadline + GracePeriod + PollInterval + SuspectToDead
                  => watch.lastEmitted = "DEAD"
  <2>1. r # NoRecord
    BY <1>3 DEF NoRecord
  <2>2. clock <= watch.polled + PollInterval
    BY <1>3 DEF Judged
  <2>3. PICK t \in watch.polled..clock : watch.evaluated = EvaluateLiveness(r, t)
    BY <2>1 DEF Judged
  <2>4. t \in Nat
    BY <1>2
  <2>5. /\ t > r.lastDeadline + GracePeriod => watch.evaluated \in {"SUSPECT", "DEAD"}
        /\ t > r.lastDeadline + GracePeriod + SuspectToDead => watch.evaluated = "DEAD"
    BY <1>2, <1>3, <2>1, <2>3, <2>4, LivenessFacts
  <2>6. watch.evaluated \in {"SUSPECT", "DEAD"} => watch.lastEmitted = watch.evaluated
    BY <1>1 DEF EventsTellTheState, Degraded
  <2>7. /\ clock > r.lastDeadline + GracePeriod + PollInterval => t > r.lastDeadline + GracePeriod
        /\ clock > r.lastDeadline + GracePeriod + PollInterval + SuspectToDead
             => t > r.lastDeadline + GracePeriod + SuspectToDead
    BY <1>2, <2>2
  <2> QED  BY <2>5, <2>6, <2>7
<1>4. SilenceIsReported
  BY <1>3 DEF SilenceIsReported, ShutdownSentinel
<1> QED  BY <1>1, <1>4 DEF WatchReports

-----------------------------------------------------------------------------
(***************************************************************************)
(* The newest message counts                                               *)
(***************************************************************************)
\* The delivered messages that the observer accepts.
Acceptable ==
  {i \in IF Replays THEN 1..(watch.replayNext - 1) ELSE {} :
     ValidateInboundHeartbeat(stdOut[i].deadline, 0)}
    \cup {i \in watch.liveFrom..(watch.liveNext - 1) :
            ValidateInboundHeartbeat(stdOut[i].deadline, stdOut[i].stamp)}

LEMMA NewestOfAcceptable ==
  NewestCounts <=>
    IF Acceptable = {}
    THEN watch.record = NoRecord
    ELSE \E newest \in Acceptable :
           /\ \A i \in Acceptable : i <= newest
           /\ watch.record.lastSequence = newest
           /\ watch.record.lastDeadline = stdOut[newest].deadline
  BY DEF NewestCounts, Acceptable

LEMMA AcceptableFacts ==
  ASSUME Shape
  PROVE  Acceptable \subseteq 1..Len(stdOut)
  BY WatchFacts DEF Shape, Progress, Acceptable

\* One more acceptable message, and the record that has taken it.
LEMMA NewestAdds ==
  ASSUME Shape, NewestCounts, NEW n \in Nat \ {0}, NEW d \in Nat, NEW c \in Nat, Taken(n, d, c),
         d = stdOut[n].deadline, stdOut' = stdOut,
         Acceptable' = Acceptable \cup {i \in {n} : ValidateInboundHeartbeat(d, c)}
  PROVE  NewestCounts'
<1>1. HeartbeatTypeOK
  BY DEF Shape
<1>2. watch.record \in LivenessRecord
  BY <1>1, WatchFacts
<1>3. CASE ~ValidateInboundHeartbeat(d, c)
  <2>1. Acceptable' = Acceptable /\ watch'.record = watch.record
    BY <1>3 DEF Taken
  <2> QED  BY <2>1, NewestOfAcceptable DEF NewestCounts, Acceptable
<1>4. CASE ValidateInboundHeartbeat(d, c)
  <2>1. Acceptable' = Acceptable \cup {n}
    BY <1>4
  <2>2. /\ watch.record.lastSequence >= n => watch'.record = watch.record
        /\ watch.record.lastSequence < n =>
             watch'.record.lastSequence = n /\ watch'.record.lastDeadline = d
    BY <1>2, <1>4, TakenFacts
  <2>3. PICK newest \in Acceptable' :
          /\ \A i \in Acceptable' : i <= newest
          /\ watch'.record.lastSequence = newest
          /\ watch'.record.lastDeadline = stdOut[newest].deadline
    <3>1. CASE Acceptable = {}
      <4>1. watch.record.lastSequence = 0
        BY <3>1, NewestOfAcceptable DEF NoRecord
      <4> QED  BY <2>1, <2>2, <3>1, <4>1
    <3>2. CASE Acceptable # {}
      <4>1. PICK old \in Acceptable :
              /\ \A i \in Acceptable : i <= old
              /\ watch.record.lastSequence = old
              /\ watch.record.lastDeadline = stdOut[old].deadline
        BY <3>2, NewestOfAcceptable
      <4>2. Acceptable \subseteq Nat
        BY <1>1, AcceptableFacts, WatchFacts
      <4>3. CASE old >= n
        BY <1>2, <2>1, <2>2, <4>1, <4>2, <4>3
      <4>4. CASE old < n
        BY <1>2, <2>1, <2>2, <4>1, <4>2, <4>4
      <4>5. old >= n \/ old < n
        BY <4>1, <4>2
      <4> QED  BY <4>3, <4>4, <4>5, Zenon
    <3> QED  BY <3>1, <3>2
  <2> QED  BY <2>3 DEF NewestCounts, Acceptable
<1> QED  BY <1>3, <1>4

\* A step that leaves the acceptable messages and the record as they are.
LEMMA NewestStays ==
  ASSUME Shape, NewestCounts, Acceptable' = Acceptable, watch'.record = watch.record,
         \A i \in Acceptable : stdOut'[i].deadline = stdOut[i].deadline
  PROVE  NewestCounts'
  BY NewestOfAcceptable DEF NewestCounts, Acceptable

LEMMA NewestStep ==
  ASSUME Shape, Shape', NewestCounts, [HeartbeatNext]_heartbeatVars
  PROVE  NewestCounts'
<1>1. HeartbeatTypeOK
  BY DEF Shape
<1>2. /\ watch.replayNext \in Nat \ {0} /\ watch.liveNext \in Nat /\ watch.liveFrom \in Nat
      /\ watch.liveFrom <= watch.liveNext /\ watch.liveNext <= Len(stdOut) + 1
      /\ watch.replayNext <= watch.liveFrom /\ Len(stdOut) \in Nat
  BY <1>1, WatchFacts DEF Shape, Progress
<1>3. ASSUME setting' = setting, watch' = watch, stdOut' = stdOut
      PROVE  NewestCounts'
  <2>1. Acceptable' = Acceptable
    BY <1>3 DEF Acceptable, Replays
  <2> QED  BY <1>3, <2>1, NewestStays
<1>4. ASSUME setting' = setting, stdOut' = stdOut, watch'.record = NoRecord,
             watch'.replayNext = 1, watch'.liveNext = watch'.liveFrom, watch'.liveFrom \in Nat
      PROVE  NewestCounts'
  <2>1. Acceptable' = {}
    BY <1>4 DEF Acceptable
  <2> QED  BY <1>4, <2>1 DEF NewestCounts, Acceptable
<1>5. CASE StartHeartbeat \/ HeartbeatTick \/ Shutdown \/ Crash \/ Tick
  BY <1>3, <1>5 DEF StartHeartbeat, HeartbeatTick, Shutdown, Crash, Tick
<1>6. CASE Consensus
  <2>1. PICK m \in inFlight :
          /\ stdOut' = Append(stdOut, [deadline |-> m.deadline, stamp |-> clock, life |-> m.life])
          /\ setting' = setting /\ watch' = watch
    BY <1>6 DEF Consensus
  <2>2. \A i \in 1..Len(stdOut) : stdOut'[i] = stdOut[i]
    BY <1>1, <2>1, ConsensusOutcome
  <2>3. Acceptable' = Acceptable
    BY <1>2, <2>1, <2>2 DEF Acceptable, Replays
  <2> QED  BY <2>1, <2>2, <2>3, AcceptableFacts, NewestStays
<1>7. CASE StartWatch
  BY <1>2, <1>4, <1>7, StartWatchOutcome DEF StartWatch
<1>8. CASE DeliverReplay
  <2> DEFINE n == watch.replayNext
  <2>1. Replays /\ setting' = setting /\ stdOut' = stdOut
    BY <1>8 DEF DeliverReplay, ReplayPending
  <2>2. /\ watch'.replayNext = n + 1 /\ watch'.liveNext = watch.liveNext
        /\ Taken(n, stdOut[n].deadline, 0)
    BY <1>8, ReplayOutcome
  <2>3. watch'.liveFrom = watch.liveFrom
    BY <2>2 DEF Taken
  <2>4. 1..(watch'.replayNext - 1) = 1..(n - 1) \cup {n}
    BY <1>2, <2>2
  <2>5. Acceptable' = Acceptable \cup {i \in {n} : ValidateInboundHeartbeat(stdOut[n].deadline, 0)}
    BY <2>1, <2>2, <2>3, <2>4 DEF Acceptable, Replays
  <2> QED  BY <1>8, <2>1, <2>2, <2>5, ReplayMessage, NewestAdds
<1>9. CASE DeliverLive
  <2> DEFINE n == watch.liveNext
  <2>1. setting' = setting /\ stdOut' = stdOut
    BY <1>9 DEF DeliverLive
  <2>2. /\ watch'.replayNext = watch.replayNext /\ watch'.liveNext = n + 1
        /\ Taken(n, stdOut[n].deadline, stdOut[n].stamp)
    BY <1>9, LiveOutcome
  <2>3. watch'.liveFrom = watch.liveFrom
    BY <2>2 DEF Taken
  <2>4. watch.liveFrom..(watch'.liveNext - 1) = watch.liveFrom..(n - 1) \cup {n}
    BY <1>2, <2>2
  <2>5. Acceptable' =
          Acceptable \cup {i \in {n} : ValidateInboundHeartbeat(stdOut[n].deadline, stdOut[n].stamp)}
    BY <2>1, <2>2, <2>3, <2>4 DEF Acceptable, Replays
  <2> QED  BY <1>9, <2>1, <2>2, <2>5, LiveMessage, NewestAdds
<1>10. CASE Poll
  <2>1. setting' = setting /\ stdOut' = stdOut
    BY <1>10 DEF Poll
  <2>2. /\ watch'.replayNext = watch.replayNext /\ watch'.liveNext = watch.liveNext
        /\ watch'.liveFrom = watch.liveFrom /\ watch'.record = watch.record
    BY <1>10, PollOutcome
  <2>3. Acceptable' = Acceptable
    BY <2>1, <2>2 DEF Acceptable, Replays
  <2> QED  BY <2>1, <2>2, <2>3, NewestStays
<1>11. CASE EndWatch
  <2>1. setting' = setting /\ stdOut' = stdOut /\ watch' = NoWatch
    BY <1>11 DEF EndWatch
  <2> QED  BY <1>4, <2>1, NoWatchFacts
<1>12. CASE UNCHANGED heartbeatVars
  BY <1>3, <1>12 DEF heartbeatVars
<1> QED  BY <1>5, <1>6, <1>7, <1>8, <1>9, <1>10, <1>11, <1>12 DEF HeartbeatNext

-----------------------------------------------------------------------------
(***************************************************************************)
(* How old a message is                                                    *)
(***************************************************************************)
Waiting(m) ==
  /\ m.sent >= Start /\ m.sent <= clock /\ clock <= m.sent + ConsensusDelay
  /\ m.deadline = 0 \/ m.deadline = m.sent + Period
  /\ m.life <= publisher.life

Ordered(m) ==
  /\ m.stamp >= Start /\ m.stamp <= clock
  /\ m.deadline # 0 =>
       m.stamp + Period >= m.deadline /\ m.stamp + Period <= m.deadline + ConsensusDelay
  /\ m.life <= publisher.life

OnTheWay ==
  /\ \A m \in inFlight : Waiting(m)
  /\ \A i \in 1..Len(stdOut) : Ordered(stdOut[i])
  /\ \A i, j \in 1..Len(stdOut) : i <= j => stdOut[i].stamp <= stdOut[j].stamp
  /\ watch.on => \A i \in 1..Len(stdOut) :
       i >= watch.liveNext => clock <= stdOut[i].stamp + DeliveryDelay

\* A step that only submits messages, at this moment, of a life that is not over.
LEMMA OnTheWaySubmits ==
  ASSUME Shape, OnTheWay, setting' = setting, clock' = clock, stdOut' = stdOut, watch' = watch,
         publisher.life <= publisher'.life, publisher'.life \in Nat,
         \A m \in inFlight' : \/ m \in inFlight
                              \/ /\ m.sent = clock /\ m.deadline \in {0, clock + Period}
                                 /\ m.life = publisher'.life
  PROVE  OnTheWay'
<1>1. HeartbeatTypeOK
  BY DEF Shape
<1>2. /\ clock \in Nat /\ Start \in Nat /\ Start <= clock /\ Period \in Nat
      /\ ConsensusDelay \in Nat /\ publisher.life \in Nat
  BY <1>1, SettingFacts, PublisherFacts
<1>3. Period' = Period /\ ConsensusDelay' = ConsensusDelay /\ DeliveryDelay' = DeliveryDelay
  BY DEF Period, ConsensusDelay, DeliveryDelay
<1>4. ASSUME NEW m \in inFlight'
      PROVE  Waiting(m)'
  <2>1. CASE m \in inFlight
    <3>1. Waiting(m) /\ m.life \in Nat
      BY <1>1, <2>1 DEF OnTheWay, HeartbeatTypeOK, Submitted, Lives
    <3> QED  BY <1>2, <1>3, <3>1 DEF Waiting
  <2>2. CASE m \notin inFlight
    BY <1>2, <1>3, <1>4, <2>2 DEF Waiting
  <2> QED  BY <2>1, <2>2
<1>5. ASSUME NEW i \in 1..Len(stdOut)
      PROVE  Ordered(stdOut[i])'
  <2>1. Ordered(stdOut[i]) /\ stdOut[i].life \in Nat
    BY <1>1, PublishedFacts DEF OnTheWay, Lives
  <2> QED  BY <1>2, <1>3, <2>1 DEF Ordered
<1> QED  BY <1>3, <1>4, <1>5 DEF OnTheWay

LEMMA OnTheWayConsensus ==
  ASSUME Shape, OnTheWay, Consensus
  PROVE  OnTheWay'
<1>1. HeartbeatTypeOK
  BY DEF Shape
<1>2. PICK m \in inFlight :
        /\ stdOut' = Append(stdOut, [deadline |-> m.deadline, stamp |-> clock, life |-> m.life])
        /\ inFlight' = inFlight \ {m}
        /\ UNCHANGED <<setting, clock, publisher, missed, watch>>
  BY DEF Consensus
<1> DEFINE last == Len(stdOut) + 1
<1>3. /\ m.deadline \in Nat /\ m.sent \in Nat /\ m.life \in Lives
      /\ Len(stdOut') = last /\ \A i \in 1..Len(stdOut) : stdOut'[i] = stdOut[i]
      /\ stdOut'[last].deadline = m.deadline /\ stdOut'[last].stamp = clock
      /\ stdOut'[last].life = m.life
  BY <1>1, <1>2, ConsensusOutcome
<1>4. /\ clock \in Nat /\ Start \in Nat /\ Start <= clock /\ Period \in Nat /\ ConsensusDelay \in Nat
      /\ DeliveryDelay \in Nat /\ Len(stdOut) \in Nat
  BY <1>1, SettingFacts, WatchFacts
<1>5. /\ Period' = Period /\ ConsensusDelay' = ConsensusDelay /\ DeliveryDelay' = DeliveryDelay
      /\ clock' = clock /\ publisher' = publisher /\ watch' = watch
  BY <1>2 DEF Period, ConsensusDelay, DeliveryDelay
<1>6. 1..Len(stdOut') = 1..Len(stdOut) \cup {last}
  BY <1>3, <1>4
<1>7. Waiting(m)
  BY DEF OnTheWay
<1>8. \A w \in inFlight' : Waiting(w)'
  BY <1>2, <1>5 DEF OnTheWay, Waiting
<1>9. ASSUME NEW i \in 1..Len(stdOut')
      PROVE  /\ Ordered(stdOut[i])' /\ stdOut'[i].stamp \in Nat
             /\ stdOut'[i].stamp <= clock
             /\ watch.on => (i >= watch.liveNext => clock <= stdOut'[i].stamp + DeliveryDelay)
  <2>1. CASE i \in 1..Len(stdOut)
    <3>1. stdOut'[i] = stdOut[i] /\ stdOut[i].stamp \in Nat /\ Ordered(stdOut[i])
      BY <1>1, <1>3, <2>1, PublishedFacts DEF OnTheWay
    <3>2. Ordered(stdOut[i])'
      BY <1>5, <3>1 DEF Ordered
    <3>3. stdOut[i].stamp <= clock
      BY <3>1 DEF Ordered
    <3> QED  BY <2>1, <3>1, <3>2, <3>3 DEF OnTheWay
  <2>2. CASE i = last
    <3>1. Ordered(stdOut[i])'
      <4>1. /\ stdOut'[i].deadline = m.deadline /\ stdOut'[i].stamp = clock
            /\ stdOut'[i].life = m.life
        BY <1>3, <2>2
      <4>2. m.deadline # 0 =>
              clock + Period >= m.deadline /\ clock + Period <= m.deadline + ConsensusDelay
        <5>1. /\ m.deadline # 0 => m.deadline = m.sent + Period
              /\ m.sent <= clock /\ clock <= m.sent + ConsensusDelay
          BY <1>7 DEF Waiting
        <5> QED  BY <1>3, <1>4, <5>1
      <4>3. m.life <= publisher.life
        BY <1>7 DEF Waiting
      <4> QED  BY <1>4, <1>5, <4>1, <4>2, <4>3 DEF Ordered
    <3> QED  BY <1>3, <1>4, <2>2, <3>1
  <2> QED  BY <1>6, <1>9, <2>1, <2>2
<1>10. ASSUME NEW i \in 1..Len(stdOut'), NEW j \in 1..Len(stdOut'), i <= j
       PROVE  stdOut'[i].stamp <= stdOut'[j].stamp
  <2>1. CASE j = last
    BY <1>3, <1>9, <2>1
  <2>2. CASE j # last
    <3>1. i \in 1..Len(stdOut) /\ j \in 1..Len(stdOut)
      BY <1>3, <1>4, <1>10, <2>2
    <3> QED  BY <1>3, <1>10, <3>1 DEF OnTheWay
  <2> QED  BY <2>1, <2>2
<1> QED  BY <1>5, <1>8, <1>9, <1>10 DEF OnTheWay

LEMMA OnTheWayStep ==
  ASSUME Shape, Shape', OnTheWay, [HeartbeatNext]_heartbeatVars
  PROVE  OnTheWay'
<1>1. HeartbeatTypeOK /\ HeartbeatTypeOK'
  BY DEF Shape
<1>2. /\ publisher.life \in Nat /\ publisher'.life \in Nat /\ clock \in Nat /\ Len(stdOut) \in Nat
      /\ watch.liveNext \in Nat /\ DeliveryDelay \in Nat /\ Period \in Nat /\ ConsensusDelay \in Nat
  <2>1. publisher'.life \in 0..MaxLives /\ MaxLives \in Nat
    BY <1>1, SettingFacts DEF HeartbeatTypeOK
  <2>2. publisher'.life \in Nat
    BY <2>1
  <2> QED  BY <1>1, <2>2, SettingFacts, PublisherFacts, WatchFacts
<1>3. CASE StartHeartbeat
  <2>1. setting' = setting /\ clock' = clock /\ stdOut' = stdOut /\ watch' = watch
    BY <1>3 DEF StartHeartbeat
  <2>2. Sent(First, FALSE) \/ Lost(First)
    BY <1>1, <1>3, StartOutcomes
  <2>3. First \in Publisher /\ First.up /\ First.life \in Lives /\ First.life = publisher.life + 1
    BY <1>1, <1>3, StartOutcomes
  <2>4. publisher'.life = First.life
    BY <1>1, <2>2, <2>3, EmitShape
  <2>5. \A m \in inFlight' : \/ m \in inFlight
                             \/ /\ m.sent = clock /\ m.deadline = clock + Period
                                /\ m.life = publisher'.life
    BY <2>2, <2>4 DEF Sent, Lost
  <2> QED  BY <1>2, <2>1, <2>3, <2>4, <2>5, OnTheWaySubmits
<1>4. CASE HeartbeatTick
  <2>1. setting' = setting /\ clock' = clock /\ stdOut' = stdOut /\ watch' = watch
    BY <1>4 DEF HeartbeatTick
  <2>2. /\ Kept(Advanced, missed) \/ Sent(Advanced, missed) \/ Lost(Advanced)
        /\ Advanced \in Publisher /\ Advanced.up /\ Advanced.life \in Lives
        /\ Advanced.life = publisher.life /\ missed \in BOOLEAN
    BY <1>1, <1>4, TickOutcomes DEF HeartbeatTypeOK
  <2>3. publisher'.life = Advanced.life
    BY <1>1, <2>2, EmitShape
  <2>4. \A m \in inFlight' : \/ m \in inFlight
                             \/ /\ m.sent = clock /\ m.deadline = clock + Period
                                /\ m.life = publisher'.life
    BY <2>2, <2>3 DEF Kept, Sent, Lost
  <2> QED  BY <1>2, <2>1, <2>2, <2>3, <2>4, OnTheWaySubmits
<1>5. CASE Shutdown
  <2>1. /\ setting' = setting /\ clock' = clock /\ stdOut' = stdOut /\ watch' = watch
        /\ publisher' = [publisher EXCEPT !.up = FALSE]
    BY <1>5 DEF Shutdown
  <2>2. publisher'.life = publisher.life
    BY <1>1, <2>1 DEF HeartbeatTypeOK
  <2>3. PICK ok \in BOOLEAN : PublishHeartbeat(ShutdownSentinel, publisher.life, ok)
    BY <1>5 DEF Shutdown
  <2>4. \A m \in inFlight' : \/ m \in inFlight
                             \/ m.sent = clock /\ m.deadline = 0 /\ m.life = publisher'.life
    BY <2>2, <2>3 DEF PublishHeartbeat, ShutdownSentinel
  <2> QED  BY <1>2, <2>1, <2>2, <2>4, OnTheWaySubmits
<1>6. CASE Crash
  <2>1. /\ setting' = setting /\ clock' = clock /\ stdOut' = stdOut /\ watch' = watch
        /\ publisher' = [publisher EXCEPT !.up = FALSE] /\ inFlight' = inFlight
    BY <1>6 DEF Crash
  <2>2. publisher'.life = publisher.life
    BY <1>1, <2>1 DEF HeartbeatTypeOK
  <2> QED  BY <1>2, <2>1, <2>2, OnTheWaySubmits
<1>7. CASE Consensus
  BY <1>7, OnTheWayConsensus
<1>8. ASSUME setting' = setting, clock' = clock, publisher' = publisher, inFlight' = inFlight,
             stdOut' = stdOut, watch'.liveNext \in Nat,
             watch'.on => \/ watch'.liveNext = Len(stdOut) + 1
                          \/ watch.on /\ watch'.liveNext >= watch.liveNext
      PROVE  OnTheWay'
  <2>1. Period' = Period /\ ConsensusDelay' = ConsensusDelay /\ DeliveryDelay' = DeliveryDelay
    BY <1>8 DEF Period, ConsensusDelay, DeliveryDelay
  <2>2. (\A m \in inFlight' : Waiting(m)') /\ (\A i \in 1..Len(stdOut') : Ordered(stdOut[i])')
    BY <1>8, <2>1 DEF OnTheWay, Waiting, Ordered
  <2>3. ASSUME watch'.on, NEW i \in 1..Len(stdOut), i >= watch'.liveNext
        PROVE  clock <= stdOut[i].stamp + DeliveryDelay
    <3>1. watch.on /\ i >= watch.liveNext
      BY <1>2, <1>8, <2>3
    <3> QED  BY <3>1 DEF OnTheWay
  <2>4. \A i, j \in 1..Len(stdOut) : i <= j => stdOut[i].stamp <= stdOut[j].stamp
    BY DEF OnTheWay
  <2> QED  BY <1>8, <2>1, <2>2, <2>3, <2>4 DEF OnTheWay
<1>9. watch'.liveNext \in Nat
  BY <1>1 DEF HeartbeatTypeOK, Watch
<1>10. CASE StartWatch \/ DeliverReplay \/ DeliverLive \/ Poll \/ EndWatch
  <2>1. /\ setting' = setting /\ clock' = clock /\ publisher' = publisher /\ inFlight' = inFlight
        /\ stdOut' = stdOut
    BY <1>10 DEF StartWatch, DeliverReplay, DeliverLive, Poll, EndWatch
  <2>2. CASE StartWatch
    <3>1. watch'.liveNext = Len(stdOut) + 1
      BY <2>2, StartWatchOutcome
    <3> QED  BY <1>8, <1>9, <2>1, <3>1
  <2>3. CASE DeliverReplay
    BY <1>2, <1>8, <1>9, <2>1, <2>3, ReplayOutcome DEF DeliverReplay, ReplayPending
  <2>4. CASE DeliverLive
    BY <1>2, <1>8, <1>9, <2>1, <2>4, LiveOutcome DEF DeliverLive
  <2>5. CASE Poll
    BY <1>2, <1>8, <1>9, <2>1, <2>5, PollOutcome DEF Poll
  <2>6. CASE EndWatch
    BY <1>2, <1>8, <1>9, <2>1, <2>6, NoWatchFacts DEF EndWatch
  <2> QED  BY <1>10, <2>2, <2>3, <2>4, <2>5, <2>6
<1>11. CASE Tick
  <2>1. /\ clock' = clock + 1 /\ publisher' = publisher /\ inFlight' = inFlight
        /\ stdOut' = stdOut /\ watch' = watch /\ setting' = setting
        /\ \A m \in inFlight : clock < m.sent + ConsensusDelay
        /\ watch.on /\ watch.liveNext <= Len(stdOut)
             => clock < stdOut[watch.liveNext].stamp + DeliveryDelay
    BY <1>11 DEF Tick
  <2>2. Period' = Period /\ ConsensusDelay' = ConsensusDelay /\ DeliveryDelay' = DeliveryDelay
    BY <2>1 DEF Period, ConsensusDelay, DeliveryDelay
  <2>3. ASSUME NEW m \in inFlight
        PROVE  Waiting(m)'
    <3>1. Waiting(m) /\ m.sent \in Nat /\ clock < m.sent + ConsensusDelay
      BY <1>1, <2>1 DEF OnTheWay, HeartbeatTypeOK, Submitted
    <3> QED  BY <1>2, <2>1, <2>2, <3>1 DEF Waiting
  <2>4. ASSUME NEW i \in 1..Len(stdOut)
        PROVE  Ordered(stdOut[i])'
    <3>1. Ordered(stdOut[i]) /\ stdOut[i].stamp \in Nat
      BY <1>1, PublishedFacts DEF OnTheWay
    <3> QED  BY <1>2, <2>1, <2>2, <3>1 DEF Ordered
  <2>5. ASSUME watch.on, NEW i \in 1..Len(stdOut), i >= watch.liveNext
        PROVE  clock + 1 <= stdOut[i].stamp + DeliveryDelay
    <3> DEFINE n == watch.liveNext
    <3>1. n \in 1..Len(stdOut)
      <4>1. watch.liveNext >= 1
        BY <1>1, WatchFacts DEF Shape, Progress
      <4> QED  BY <1>2, <2>5, <4>1
    <3>2. clock < stdOut[n].stamp + DeliveryDelay
      BY <1>2, <2>1, <2>5, <3>1
    <3>3. stdOut[n].stamp <= stdOut[i].stamp
      BY <2>5, <3>1 DEF OnTheWay
    <3>4. stdOut[n].stamp \in Nat /\ stdOut[i].stamp \in Nat
      BY <1>1, <3>1, PublishedFacts
    <3> DEFINE x == stdOut[n].stamp
               y == stdOut[i].stamp
    <3>5. x \in Nat /\ y \in Nat /\ x <= y /\ clock < x + DeliveryDelay
      BY <3>2, <3>3, <3>4
    <3> HIDE DEF n, x, y
    <3>6. clock + 1 <= y + DeliveryDelay
      BY <1>2, <3>5
    <3> QED  BY <3>6 DEF y
  <2> QED  BY <2>1, <2>2, <2>3, <2>4, <2>5 DEF OnTheWay
<1>12. CASE UNCHANGED heartbeatVars
  BY <1>2, <1>8, <1>9, <1>12 DEF heartbeatVars
<1> QED  BY <1>3, <1>4, <1>5, <1>6, <1>7, <1>10, <1>11, <1>12 DEF HeartbeatNext

-----------------------------------------------------------------------------
(***************************************************************************)
(* What the timing gives                                                   *)
(***************************************************************************)
\* How far apart two heartbeats are at most.
Apart == Period + Slack(setting)

LEMMA PromptFacts ==
  ASSUME HeartbeatTypeOK, Prompt
  PROVE  /\ ConsensusDelay < MinDeadlineDelta /\ ConsensusDelay + MinDeadlineDelta <= Period
         /\ Apart \in Nat /\ Apart >= Period + Lateness
         /\ Period < MinDeadlineDelta + Lateness => Apart = Period + Lateness + MinDeadlineDelta - 1
         /\ Apart + ConsensusDelay + DeliveryDelay <= Period + GracePeriod
<1>1. setting \in Settings
  BY DEF HeartbeatTypeOK
<1>2. /\ setting.consensusDelay < MinDeadlineDelta
      /\ setting.consensusDelay + MinDeadlineDelta <= setting.period
      /\ Slack(setting) + setting.consensusDelay + setting.deliveryDelay <= GracePeriod
  BY <1>1 DEF Prompt
<1>3. /\ Slack(setting) \in Nat /\ Slack(setting) >= Lateness
      /\ Period < MinDeadlineDelta + Lateness => Slack(setting) = Lateness + MinDeadlineDelta - 1
  BY SettingFacts DEF Slack, Period
<1> QED  BY <1>2, <1>3, SettingFacts DEF Apart, Period, ConsensusDelay, DeliveryDelay

\* An acceptable message is taken, and the newest is one; of a prompt seller all are acceptable.
LEMMA PromptIsTaken ==
  ASSUME Prompt, Shape, OnTheWay, NewestCounts
  PROVE  HeartbeatsAreTaken
<1>1. HeartbeatTypeOK
  BY DEF Shape
<1> SUFFICES ASSUME watch.on, NEW i \in watch.liveFrom..(watch.liveNext - 1)
             PROVE  watch.record.lastSequence >= i
  BY DEF HeartbeatsAreTaken
<1>2. i \in 1..Len(stdOut)
  BY <1>1, WatchFacts DEF Shape, Progress
<1>3. Ordered(stdOut[i]) /\ stdOut[i].deadline \in Nat /\ stdOut[i].stamp \in Nat
  BY <1>1, <1>2, PublishedFacts DEF OnTheWay
<1>4. ValidateInboundHeartbeat(stdOut[i].deadline, stdOut[i].stamp)
  BY <1>1, <1>3, PromptFacts, SettingFacts
     DEF Ordered, ValidateInboundHeartbeat, ShutdownSentinel, DeltaInRange
<1>5. i \in Acceptable
  BY <1>4 DEF Acceptable
<1>6. PICK newest \in Acceptable :
        (\A n \in Acceptable : n <= newest) /\ watch.record.lastSequence = newest
  BY <1>5, NewestOfAcceptable
<1>7. i <= newest /\ newest \in Nat
  BY <1>1, <1>5, <1>6, AcceptableFacts, WatchFacts
<1> QED  BY <1>2, <1>6, <1>7

-----------------------------------------------------------------------------
(***************************************************************************)
(* The heartbeats of a running seller                                      *)
(***************************************************************************)
\* The last tick published, or the rate limiter kept it back: then the tick before was late
\* and published, and the next one will publish.
Fresh ==
  /\ publisher.lastPublishTime + Period >= publisher.due
  /\ publisher.lastPublishTime + Period <= publisher.due + Lateness
Skipped ==
  /\ Period < MinDeadlineDelta + Lateness
  /\ publisher.lastPublishTime + 2 * Period <= publisher.due + Lateness
  /\ publisher.lastPublishTime + Period + MinDeadlineDelta > publisher.due

Timed ==
  /\ publisher.lastPublishTime >= Start /\ publisher.lastPublishTime <= clock
  /\ clock <= publisher.due + Lateness
  /\ Fresh \/ Skipped

\* Message i is the last one published, or one not much later comes after it.
Followed(i) ==
  \/ stdOut[i].deadline = publisher.lastPublishTime + Period
  \/ \E j \in 1..Len(stdOut) :
       /\ j > i /\ stdOut[j].life = publisher.life
       /\ stdOut[j].deadline <= stdOut[i].deadline + Apart
  \/ \E m \in inFlight :
       m.life = publisher.life /\ m.deadline <= stdOut[i].deadline + Apart

Running ==
  /\ Timed
  /\ \A m \in inFlight : m.life = publisher.life =>
       m.deadline # 0 /\ m.sent = publisher.lastPublishTime
  /\ \A i \in 1..Len(stdOut) : stdOut[i].life = publisher.life =>
       stdOut[i].deadline # 0 /\ Followed(i)

Beating == publisher.up /\ ~missed => Running

\* The next heartbeat is never further away than Apart.
LEMMA NextIsNear ==
  ASSUME Prompt, HeartbeatTypeOK, Timed
  PROVE  clock <= publisher.lastPublishTime + Apart
  BY PromptFacts, SettingFacts, PublisherFacts DEF Timed, Fresh, Skipped

\* The first heartbeat of a life is its only message.
LEMMA FirstBeats ==
  ASSUME Prompt, Shape, Shape', OnTheWay, StartHeartbeat, ~missed'
  PROVE  Running'
<1>1. HeartbeatTypeOK
  BY DEF Shape
<1>2. /\ clock \in Nat /\ Start \in Nat /\ Start <= clock /\ Period \in Nat \ {0} /\ Lateness \in Nat
      /\ publisher.life \in Nat /\ Start > 0
  <2>1. clock \in Nat /\ Start \in Nat /\ Start <= clock /\ Period \in Nat \ {0} /\ Lateness \in Nat
    BY <1>1, SettingFacts
  <2>2. Start > 0
    BY <1>1, SettingFacts
  <2> QED  BY <1>1, <2>1, <2>2, PublisherFacts
<1>3. setting' = setting /\ clock' = clock /\ stdOut' = stdOut
  BY DEF StartHeartbeat
<1>4. /\ First \in Publisher /\ First.up /\ First.life \in Lives
      /\ First.life = publisher.life + 1 /\ First.due = clock + Period
  BY <1>1, StartOutcomes
<1>5. Sent(First, FALSE)
  BY <1>1, StartOutcomes DEF Lost
<1>6. /\ publisher'.life = publisher.life + 1 /\ publisher'.due = clock + Period
      /\ publisher'.lastPublishTime = clock
  BY <1>1, <1>4, <1>5, EmitShape
<1>7. Timed'
  BY <1>2, <1>3, <1>6 DEF Timed, Fresh, Period
<1>8. ASSUME NEW m \in inFlight', m.life = publisher'.life
      PROVE  m.deadline # 0 /\ m.sent = clock
  <2>1. m \notin inFlight
    <3> SUFFICES ASSUME m \in inFlight
                 PROVE  FALSE
      OBVIOUS
    <3>1. m.life <= publisher.life
      BY DEF OnTheWay, Waiting
    <3> QED  BY <1>2, <1>6, <1>8, <3>1
  <2>2. m = [deadline |-> clock + Period, sent |-> clock, life |-> First.life]
    BY <1>5, <2>1 DEF Sent
  <2> QED  BY <1>2, <2>2
<1>9. ASSUME NEW i \in 1..Len(stdOut)
      PROVE  stdOut[i].life # publisher'.life
  <2>1. stdOut[i].life <= publisher.life
    BY DEF OnTheWay, Ordered
  <2> QED  BY <1>2, <1>6, <2>1
<1> QED  BY <1>3, <1>6, <1>7, <1>8, <1>9 DEF Running

\* A tick that is kept back was early, for the one before was late.
LEMMA KeptBeats ==
  ASSUME Prompt, Shape, Running, HeartbeatTick, Kept(Advanced, missed)
  PROVE  Running'
<1>1. HeartbeatTypeOK
  BY DEF Shape
<1>2. /\ clock \in Nat /\ Start \in Nat /\ Period \in Nat /\ Lateness \in Nat /\ Lateness < Period
      /\ MinDeadlineDelta \in Nat /\ MinDeadlineDelta <= Period
      /\ publisher.due \in Nat /\ publisher.lastPublishTime \in Nat
  BY <1>1, SettingFacts, PublisherFacts
<1>3. setting' = setting /\ clock' = clock /\ stdOut' = stdOut /\ clock >= publisher.due
  BY DEF HeartbeatTick
<1>4. /\ Advanced.life = publisher.life /\ Advanced.lastPublishTime = publisher.lastPublishTime
      /\ Advanced.due = publisher.due + Period
  BY TickOutcomes
<1>5. publisher' = Advanced /\ inFlight' = inFlight /\ RateLimited(Advanced)
  BY DEF Kept
<1>6. /\ publisher'.life = publisher.life /\ publisher'.due = publisher.due + Period
      /\ publisher'.lastPublishTime = publisher.lastPublishTime
  BY <1>4, <1>5
<1>7. clock - publisher.lastPublishTime < MinDeadlineDelta
  BY <1>4, <1>5 DEF RateLimited
<1>8. Timed /\ Fresh
  <2>1. Timed
    BY DEF Running
  <2>2. ~Skipped
    BY <1>2, <1>3, <1>7 DEF Skipped
  <2> QED  BY <2>1, <2>2 DEF Timed
<1>9. Timed'
  <2>1. /\ publisher.lastPublishTime >= Start /\ publisher.lastPublishTime <= clock
        /\ clock <= publisher.due + Lateness
    BY <1>8 DEF Timed
  <2>2. /\ Period < MinDeadlineDelta + Lateness
        /\ publisher.lastPublishTime + 2 * Period <= publisher.due + Period + Lateness
        /\ publisher.lastPublishTime + Period + MinDeadlineDelta > publisher.due + Period
    BY <1>2, <1>3, <1>7, <1>8 DEF Fresh
  <2>3. Skipped'
    BY <1>3, <1>6, <2>2 DEF Skipped, Period
  <2> QED  BY <1>2, <1>3, <1>6, <2>1, <2>3 DEF Timed
<1>10. Apart' = Apart /\ Period' = Period
  BY <1>3 DEF Apart, Period
<1> QED  BY <1>3, <1>5, <1>6, <1>9, <1>10 DEF Running, Followed

\* A heartbeat that is submitted follows the one before, which is ordered by now.
LEMMA SentBeats ==
  ASSUME Prompt, Shape, OnTheWay, Running, HeartbeatTick, Sent(Advanced, missed)
  PROVE  Running'
<1>1. HeartbeatTypeOK
  BY DEF Shape
<1>2. /\ clock \in Nat /\ Start \in Nat /\ Start <= clock /\ Period \in Nat \ {0} /\ Lateness \in Nat
      /\ publisher.due \in Nat /\ publisher.lastPublishTime \in Nat /\ MinDeadlineDelta \in Nat
      /\ ConsensusDelay \in Nat /\ Start > 0
  BY <1>1, SettingFacts, PublisherFacts
<1>3. setting' = setting /\ clock' = clock /\ stdOut' = stdOut /\ clock >= publisher.due
  BY DEF HeartbeatTick
<1>4. /\ Advanced \in Publisher /\ Advanced.up /\ Advanced.life \in Lives
      /\ Advanced.life = publisher.life /\ Advanced.lastPublishTime = publisher.lastPublishTime
      /\ Advanced.due = publisher.due + Period /\ missed \in BOOLEAN
  BY <1>1, TickOutcomes DEF HeartbeatTypeOK
<1>5. /\ publisher'.life = publisher.life /\ publisher'.due = publisher.due + Period
      /\ publisher'.lastPublishTime = clock
  BY <1>1, <1>4, EmitShape
<1> DEFINE next == [deadline |-> clock + Period, sent |-> clock, life |-> publisher.life]
<1>6. inFlight' = inFlight \cup {next} /\ ~RateLimited(Advanced)
  BY <1>4 DEF Sent
<1>7. Timed /\ clock <= publisher.due + Lateness /\ publisher.lastPublishTime >= Start
  BY DEF Running, Timed
<1>8. Timed'
  BY <1>2, <1>3, <1>5, <1>7 DEF Timed, Fresh, Period
<1>9. clock >= publisher.lastPublishTime + MinDeadlineDelta
  BY <1>2, <1>4, <1>6, <1>7 DEF RateLimited
<1>10. \A m \in inFlight : m.life # publisher.life
  <2> SUFFICES ASSUME NEW m \in inFlight, m.life = publisher.life
               PROVE  FALSE
    OBVIOUS
  <2>1. m.sent = publisher.lastPublishTime /\ clock <= m.sent + ConsensusDelay
    BY DEF Running, OnTheWay, Waiting
  <2> QED  BY <1>1, <1>2, <1>9, <2>1, PromptFacts
<1>11. ASSUME NEW m \in inFlight', m.life = publisher'.life
       PROVE  m.deadline # 0 /\ m.sent = clock
  BY <1>2, <1>5, <1>6, <1>10, <1>11
<1>12. ASSUME NEW i \in 1..Len(stdOut), stdOut[i].life = publisher.life
       PROVE  stdOut[i].deadline # 0 /\ Followed(i)'
  <2>1. stdOut[i].deadline # 0 /\ Followed(i) /\ stdOut[i].deadline \in Nat
    BY <1>1, <1>12, PublishedFacts DEF Running
  <2>2. Apart' = Apart /\ Period' = Period /\ Apart \in Nat
    BY <1>1, <1>3, PromptFacts DEF Apart, Period
  <2>3. CASE stdOut[i].deadline = publisher.lastPublishTime + Period
    <3>1. clock <= publisher.lastPublishTime + Apart
      BY <1>1, <1>7, NextIsNear
    <3>2. clock + Period <= stdOut[i].deadline + Apart
      BY <1>2, <2>2, <2>3, <3>1
    <3>3. next \in inFlight' /\ next.life = publisher'.life /\ next.deadline = clock + Period
      BY <1>5, <1>6
    <3> HIDE DEF next
    <3> QED  BY <1>3, <2>1, <2>2, <3>2, <3>3 DEF Followed
  <2>4. CASE stdOut[i].deadline # publisher.lastPublishTime + Period
    <3>1. PICK j \in 1..Len(stdOut) :
            /\ j > i /\ stdOut[j].life = publisher.life
            /\ stdOut[j].deadline <= stdOut[i].deadline + Apart
      BY <1>10, <2>1, <2>4 DEF Followed
    <3> QED  BY <1>3, <1>5, <2>1, <2>2, <3>1 DEF Followed
  <2> QED  BY <2>3, <2>4
<1> QED  BY <1>3, <1>5, <1>8, <1>11, <1>12 DEF Running

\* A message that is ordered follows those it followed before.
LEMMA ConsensusBeats ==
  ASSUME Shape, OnTheWay, Running, Consensus
  PROVE  Running'
<1>1. HeartbeatTypeOK
  BY DEF Shape
<1>2. PICK m \in inFlight :
        /\ stdOut' = Append(stdOut, [deadline |-> m.deadline, stamp |-> clock, life |-> m.life])
        /\ inFlight' = inFlight \ {m}
        /\ UNCHANGED <<setting, clock, publisher, missed, watch>>
  BY DEF Consensus
<1> DEFINE last == Len(stdOut) + 1
<1>3. /\ m.deadline \in Nat /\ Len(stdOut') = last /\ \A i \in 1..Len(stdOut) : stdOut'[i] = stdOut[i]
      /\ stdOut'[last].deadline = m.deadline /\ stdOut'[last].life = m.life
  BY <1>1, <1>2, ConsensusOutcome
<1>4. 1..Len(stdOut') = 1..Len(stdOut) \cup {last} /\ last \notin 1..Len(stdOut)
      /\ \A i \in 1..Len(stdOut) : last > i
  BY <1>1, <1>3, WatchFacts
<1>5. Apart' = Apart /\ Period' = Period /\ publisher' = publisher /\ clock' = clock
  BY <1>2 DEF Apart, Period
<1>6. Timed'
  BY <1>5 DEF Running, Timed, Fresh, Skipped
<1>7. ASSUME NEW i \in 1..Len(stdOut'), stdOut'[i].life = publisher.life
      PROVE  stdOut'[i].deadline # 0 /\ Followed(i)'
  <2>1. CASE i = last
    <3>1. m.life = publisher.life
      BY <1>3, <1>7, <2>1
    <3>2. m.deadline # 0 /\ m.sent = publisher.lastPublishTime /\ Waiting(m)
      BY <3>1 DEF Running, OnTheWay
    <3>3. m.deadline = publisher.lastPublishTime + Period
      BY <3>2 DEF Waiting
    <3> QED  BY <1>3, <1>5, <2>1, <3>2, <3>3 DEF Followed
  <2>2. CASE i \in 1..Len(stdOut)
    <3>1. stdOut'[i] = stdOut[i]
      BY <1>3, <2>2
    <3>2. stdOut[i].deadline # 0 /\ Followed(i)
      BY <1>7, <2>2, <3>1 DEF Running
    <3>3. CASE stdOut[i].deadline = publisher.lastPublishTime + Period
      BY <1>5, <3>1, <3>2, <3>3 DEF Followed
    <3>4. CASE \E j \in 1..Len(stdOut) :
                 /\ j > i /\ stdOut[j].life = publisher.life
                 /\ stdOut[j].deadline <= stdOut[i].deadline + Apart
      BY <1>3, <1>4, <1>5, <3>1, <3>2, <3>4 DEF Followed
    <3>5. CASE \E w \in inFlight :
                 w.life = publisher.life /\ w.deadline <= stdOut[i].deadline + Apart
      <4>1. PICK w \in inFlight :
              w.life = publisher.life /\ w.deadline <= stdOut[i].deadline + Apart
        BY <3>5
      <4>2. CASE w = m
        <5>1. /\ last \in 1..Len(stdOut') /\ last > i /\ stdOut'[last].life = publisher'.life
              /\ stdOut'[last].deadline <= stdOut'[i].deadline + Apart'
          BY <1>3, <1>4, <1>5, <2>2, <3>1, <4>1, <4>2
        <5> HIDE DEF last
        <5> QED  BY <3>1, <3>2, <5>1 DEF Followed
      <4>3. CASE w # m
        <5>1. w \in inFlight'
          BY <1>2, <4>3
        <5> QED  BY <1>5, <3>1, <3>2, <4>1, <5>1 DEF Followed
      <4> QED  BY <4>2, <4>3
    <3> QED  BY <3>2, <3>3, <3>4, <3>5 DEF Followed
  <2> QED  BY <1>4, <1>7, <2>1, <2>2
<1> QED  BY <1>2, <1>5, <1>6, <1>7 DEF Running

LEMMA BeatingStep ==
  ASSUME Prompt, Shape, Shape', OnTheWay, Beating, [HeartbeatNext]_heartbeatVars
  PROVE  Beating'
<1>1. HeartbeatTypeOK
  BY DEF Shape
<1>2. CASE StartHeartbeat
  BY <1>2, FirstBeats DEF Beating
<1>3. CASE HeartbeatTick
  <2>1. Kept(Advanced, missed) \/ Sent(Advanced, missed) \/ Lost(Advanced)
    BY <1>3, TickOutcomes
  <2>2. publisher.up
    BY <1>3 DEF HeartbeatTick
  <2>3. CASE Lost(Advanced)
    BY <2>3 DEF Lost, Beating
  <2>4. CASE Kept(Advanced, missed)
    BY <1>3, <2>2, <2>4, KeptBeats DEF Kept, Beating
  <2>5. CASE Sent(Advanced, missed)
    BY <1>3, <2>2, <2>5, SentBeats DEF Sent, Beating
  <2> QED  BY <2>1, <2>3, <2>4, <2>5
<1>4. CASE Shutdown \/ Crash
  <2>1. publisher' = [publisher EXCEPT !.up = FALSE] /\ publisher \in Publisher
    BY <1>1, <1>4 DEF Shutdown, Crash, HeartbeatTypeOK, Publisher
  <2>2. ~publisher'.up
    BY <2>1 DEF Publisher
  <2> QED  BY <2>2 DEF Beating
<1>5. CASE Consensus
  <2>1. publisher' = publisher /\ missed' = missed
    BY <1>5 DEF Consensus
  <2> QED  BY <1>5, <2>1, ConsensusBeats DEF Beating
<1>6. ASSUME setting' = setting, clock' = clock, publisher' = publisher, missed' = missed,
             inFlight' = inFlight, stdOut' = stdOut
      PROVE  Beating'
  <2>1. Apart' = Apart /\ Period' = Period
    BY <1>6 DEF Apart, Period
  <2>2. Running => Running'
    BY <1>6, <2>1 DEF Running, Timed, Fresh, Skipped, Followed
  <2> QED  BY <1>6, <2>2 DEF Beating
<1>7. CASE StartWatch \/ DeliverReplay \/ DeliverLive \/ Poll \/ EndWatch
  BY <1>6, <1>7 DEF StartWatch, DeliverReplay, DeliverLive, Poll, EndWatch
<1>8. CASE Tick
  <2>1. /\ setting' = setting /\ clock' = clock + 1 /\ publisher' = publisher /\ missed' = missed
        /\ inFlight' = inFlight /\ stdOut' = stdOut
        /\ publisher.up => clock < publisher.due + Lateness
    BY <1>8 DEF Tick
  <2>2. Apart' = Apart /\ Period' = Period
    BY <2>1 DEF Apart, Period
  <2>3. ASSUME publisher.up, ~missed
        PROVE  Running'
    <3>1. Running
      BY <2>3 DEF Beating
    <3>2. Timed /\ clock < publisher.due + Lateness
      BY <2>1, <2>3, <3>1 DEF Running
    <3>3. (Fresh \/ Skipped) => (Fresh \/ Skipped)'
      BY <2>1, <2>2 DEF Fresh, Skipped
    <3>4. /\ clock \in Nat /\ Lateness \in Nat /\ publisher.due \in Nat
          /\ publisher.lastPublishTime \in Nat
      BY <1>1, SettingFacts, PublisherFacts
    <3>5. Timed'
      BY <2>1, <3>2, <3>3, <3>4 DEF Timed
    <3> QED  BY <2>1, <2>2, <3>1, <3>5 DEF Running, Followed
  <2> QED  BY <2>1, <2>3 DEF Beating
<1>9. CASE UNCHANGED heartbeatVars
  BY <1>6, <1>9 DEF heartbeatVars
<1> QED  BY <1>2, <1>3, <1>4, <1>5, <1>7, <1>8, <1>9 DEF HeartbeatNext

\* The last heartbeat taken has a successor that is not late itself.
LEMMA BeatingIsAlive ==
  ASSUME Prompt, Shape, Judged, OnTheWay, NewestCounts, Beating
  PROVE  NoFalseSuspicion
<1>1. HeartbeatTypeOK
  BY DEF Shape
<1> SUFFICES ASSUME HearsTheSeller
             PROVE  EvaluateLiveness(watch.record, clock) = "ALIVE"
  BY DEF NoFalseSuspicion
<1> DEFINE r == watch.record
           i == r.lastSequence
<1>2. watch.on /\ Running /\ r # NoRecord /\ stdOut[i].life = publisher.life
  BY DEF HearsTheSeller, Beating
<1>3. i \in Acceptable /\ r.lastDeadline = stdOut[i].deadline
  BY <1>2, NewestOfAcceptable
<1>4. i \in 1..Len(stdOut) /\ i \in Nat
  BY <1>1, <1>3, AcceptableFacts, WatchFacts
<1>5. /\ r \in LivenessRecord /\ Len(stdOut) \in Nat /\ watch.liveFrom \in Nat
      /\ watch.liveNext \in Nat /\ watch.replayNext \in Nat /\ watch.replayNext <= watch.liveFrom
  BY <1>1, WatchFacts DEF Shape, Progress
<1>6. /\ clock \in Nat /\ Period \in Nat /\ ConsensusDelay \in Nat /\ DeliveryDelay \in Nat
      /\ GracePeriod \in Nat /\ Apart \in Nat /\ Start \in Nat /\ MaxDeadlineDelta \in Nat
      /\ Start > 2 * MaxDeadlineDelta /\ publisher.lastPublishTime \in Nat
  BY <1>1, SettingFacts, PromptFacts, PublisherFacts
<1>7. /\ ConsensusDelay <= Period /\ Period <= MaxDeadlineDelta
      /\ Apart + ConsensusDelay + DeliveryDelay <= Period + GracePeriod
  BY <1>1, SettingFacts, PromptFacts
<1> HIDE DEF r, i
<1>8. /\ stdOut[i].deadline \in Nat /\ stdOut[i].deadline # 0 /\ Followed(i)
      /\ Ordered(stdOut[i]) /\ stdOut[i].stamp \in Nat
  BY <1>1, <1>2, <1>4, PublishedFacts DEF Running, OnTheWay
\* A heartbeat that is replayed has no timestamp to be measured from, and is rejected.
<1>9. i >= watch.liveFrom
  <2> SUFFICES ASSUME i < watch.liveFrom
               PROVE  FALSE
    BY <1>4, <1>5
  <2>1. ValidateInboundHeartbeat(stdOut[i].deadline, 0)
    BY <1>3, <1>4, <1>5 DEF Acceptable
  <2>2. stdOut[i].deadline <= MaxDeadlineDelta
    BY <1>6, <1>8, <2>1 DEF ValidateInboundHeartbeat, ShutdownSentinel, DeltaInRange
  <2>3. stdOut[i].stamp >= Start /\ stdOut[i].stamp + Period <= stdOut[i].deadline + ConsensusDelay
    BY <1>8 DEF Ordered
  <2> QED  BY <1>6, <1>7, <1>8, <2>2, <2>3
<1>10. clock <= stdOut[i].deadline + GracePeriod
  <2>1. CASE stdOut[i].deadline = publisher.lastPublishTime + Period
    <3>1. clock <= publisher.lastPublishTime + Apart
      BY <1>1, <1>2, NextIsNear DEF Running
    <3> QED  BY <1>6, <1>7, <2>1, <3>1
  <2>2. CASE \E j \in 1..Len(stdOut) :
               /\ j > i /\ stdOut[j].life = publisher.life
               /\ stdOut[j].deadline <= stdOut[i].deadline + Apart
    <3>1. PICK j \in 1..Len(stdOut) :
            /\ j > i /\ stdOut[j].life = publisher.life
            /\ stdOut[j].deadline <= stdOut[i].deadline + Apart
      BY <2>2
    <3>2. /\ stdOut[j].deadline \in Nat /\ stdOut[j].deadline # 0 /\ stdOut[j].stamp \in Nat
          /\ Ordered(stdOut[j]) /\ j \in Nat
      BY <1>1, <1>2, <1>5, <3>1, PublishedFacts DEF Running, OnTheWay
    <3>3. j >= watch.liveNext
      <4> SUFFICES ASSUME j < watch.liveNext
                   PROVE  FALSE
        BY <1>5, <3>2
      <4>1. j \in watch.liveFrom..(watch.liveNext - 1)
        BY <1>4, <1>5, <1>9, <3>1, <3>2
      <4>2. i >= j
        BY <1>2, <4>1, PromptIsTaken DEF HeartbeatsAreTaken, i, r
      <4> QED  BY <1>4, <3>1, <3>2, <4>2
    <3>4. clock <= stdOut[j].stamp + DeliveryDelay
      BY <1>2, <3>3 DEF OnTheWay
    <3>5. stdOut[j].stamp + Period <= stdOut[j].deadline + ConsensusDelay
      BY <3>2 DEF Ordered
    <3> DEFINE x == stdOut[i].deadline
               y == stdOut[j].deadline
               z == stdOut[j].stamp
    <3>6. /\ x \in Nat /\ y \in Nat /\ z \in Nat /\ y <= x + Apart
          /\ clock <= z + DeliveryDelay /\ z + Period <= y + ConsensusDelay
      BY <1>8, <3>1, <3>2, <3>4, <3>5
    <3> HIDE DEF x, y, z
    <3>7. clock <= x + GracePeriod
      BY <1>6, <1>7, <3>6
    <3> QED  BY <3>7 DEF x
  <2>3. CASE \E m \in inFlight :
               m.life = publisher.life /\ m.deadline <= stdOut[i].deadline + Apart
    <3>1. PICK m \in inFlight :
            m.life = publisher.life /\ m.deadline <= stdOut[i].deadline + Apart
      BY <2>3
    <3>2. m.deadline # 0 /\ Waiting(m) /\ m.sent \in Nat /\ m.deadline \in Nat
      BY <1>1, <1>2, <3>1 DEF Running, OnTheWay, HeartbeatTypeOK, Submitted
    <3>3. m.deadline = m.sent + Period /\ clock <= m.sent + ConsensusDelay
      BY <3>2 DEF Waiting
    <3> QED  BY <1>6, <1>7, <1>8, <3>1, <3>2, <3>3
  <2> QED  BY <1>8, <2>1, <2>2, <2>3 DEF Followed
<1> QED  BY <1>2, <1>3, <1>5, <1>6, <1>8, <1>10, LivenessFacts DEF r

-----------------------------------------------------------------------------
(***************************************************************************)
(* Theorems                                                                *)
(***************************************************************************)
\* What holds of any timing.
Watching == Shape /\ Judged /\ OnTheWay /\ NewestCounts

LEMMA ShapeStep ==
  ASSUME Shape, [HeartbeatNext]_heartbeatVars
  PROVE  Shape'
<1>1. CASE HeartbeatNext
  BY <1>1, SellerShape, ConsensusShape, WatchShape, TickShape DEF HeartbeatNext
<1>2. CASE UNCHANGED heartbeatVars
  BY <1>2 DEF heartbeatVars, Shape, HeartbeatTypeOK, Progress
<1> QED  BY <1>1, <1>2

LEMMA InitWatching ==
  ASSUME HeartbeatInit
  PROVE  Watching /\ Beating
<1>1. Shape
  BY InitShape
<1>2. /\ watch = NoWatch /\ ~publisher.up /\ inFlight = {} /\ Len(stdOut) = 0
  BY DEF HeartbeatInit
<1>3. Judged
  BY <1>2, NoWatchFacts DEF Judged, EventsTellTheState, Degraded, NoRecord
<1>4. OnTheWay
  BY <1>2, NoWatchFacts DEF OnTheWay
<1>5. Acceptable = {}
  BY <1>1, <1>2, AcceptableFacts
<1>6. NewestCounts
  BY <1>2, <1>5, NewestOfAcceptable, NoWatchFacts
<1>7. Beating
  BY <1>2 DEF Beating
<1> QED  BY <1>1, <1>3, <1>4, <1>6, <1>7 DEF Watching

LEMMA WatchingStep ==
  ASSUME Watching, [HeartbeatNext]_heartbeatVars
  PROVE  Watching'
<1>1. Shape /\ Judged /\ OnTheWay /\ NewestCounts
  BY DEF Watching
<1>2. Shape'
  BY <1>1, ShapeStep
<1>3. Judged'
  BY <1>1, <1>2, JudgedStep
<1>4. OnTheWay'
  BY <1>1, <1>2, OnTheWayStep
<1>5. NewestCounts'
  BY <1>1, <1>2, NewestStep
<1> QED  BY <1>2, <1>3, <1>4, <1>5 DEF Watching

\* Every step of the seller, the topic and the watch keeps the types of Heartbeat's variables
\* (runHeartbeat, HeartbeatPublisher.Publish, LivenessTracker.Run).
THEOREM HeartbeatTypeCorrect == HeartbeatSpec => []HeartbeatTypeOK
<1>1. HeartbeatInit => Watching
  BY InitWatching
<1>2. Watching /\ [HeartbeatNext]_heartbeatVars => Watching'
  BY WatchingStep
<1>3. Watching => HeartbeatTypeOK
  BY DEF Watching, Shape
<1> QED  BY <1>1, <1>2, <1>3, PTL DEF HeartbeatSpec

\* Whatever order history and live messages come in, the record is that of the newest one that
\* was delivered and is acceptable (TransitionState, FR-H17; LivenessTracker.Run).
THEOREM TheNewestCounts == HeartbeatSpec => []NewestCounts
<1>1. HeartbeatInit => Watching
  BY InitWatching
<1>2. Watching /\ [HeartbeatNext]_heartbeatVars => Watching'
  BY WatchingStep
<1>3. Watching => NewestCounts
  BY DEF Watching
<1> QED  BY <1>1, <1>2, <1>3, PTL DEF HeartbeatSpec

\* A seller the watch has heard of is reported SUSPECT and DEAD in time, and whoever has only
\* the events knows the state (LivenessTracker.tickEvaluate, shouldEmit), for any periods,
\* delays and lateness: of the timing only the poll interval matters.
THEOREM SilenceIsAlwaysReported == HeartbeatSpec => []WatchReports
<1>1. HeartbeatInit => Watching
  BY InitWatching
<1>2. Watching /\ [HeartbeatNext]_heartbeatVars => Watching'
  BY WatchingStep
<1>3. Watching => WatchReports
  BY JudgedReports DEF Watching
<1> QED  BY <1>1, <1>2, <1>3, PTL DEF HeartbeatSpec

\* When consensus leaves of a period the shortest delta a deadline may have, no heartbeat that
\* the publisher lets out is rejected by the observer (V-PUB-05 against V-OBS-06).
THEOREM PromptHeartbeatsAreTaken ==
  ASSUME Prompt
  PROVE  HeartbeatSpec => []HeartbeatsAreTaken
<1>1. HeartbeatInit => Watching
  BY InitWatching
<1>2. Watching /\ [HeartbeatNext]_heartbeatVars => Watching'
  BY WatchingStep
<1>3. Watching => HeartbeatsAreTaken
  BY PromptIsTaken DEF Watching
<1> QED  BY <1>1, <1>2, <1>3, PTL DEF HeartbeatSpec

\* When the grace period covers a late tick, one the rate limiter keeps back because of it,
\* consensus and delivery, a running seller that gets its heartbeats out is never suspected,
\* and the buyer's stream is not torn down (runHeartbeat, EvaluateLiveness).
THEOREM PromptSellerStaysAlive ==
  ASSUME Prompt
  PROVE  HeartbeatSpec => []NoFalseSuspicion
<1>1. HeartbeatInit => Watching /\ Beating
  BY InitWatching
<1>2. (Watching /\ Beating) /\ [HeartbeatNext]_heartbeatVars => (Watching /\ Beating)'
  <2> SUFFICES ASSUME Watching, Beating, [HeartbeatNext]_heartbeatVars
               PROVE  Watching' /\ Beating'
    OBVIOUS
  <2>1. Watching'
    BY WatchingStep
  <2>2. Beating'
    BY <2>1, BeatingStep DEF Watching
  <2> QED  BY <2>1, <2>2
<1>3. Watching /\ Beating => NoFalseSuspicion
  BY BeatingIsAlive DEF Watching
<1> QED  BY <1>1, <1>2, <1>3, PTL DEF HeartbeatSpec
===============================================================================
