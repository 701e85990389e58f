------------------------------- MODULE MemoryBus -------------------------------
(***************************************************************************)
(* One topic of the in-memory bus (impl/golang/internal/edgeapp/bus.go):   *)
(* publishers append under the lock and fan out without it, a subscription *)
(* has a goroutine that replays the history and then waits for its context *)
(* to be cancelled.  A message is its sequence number.                     *)
(***************************************************************************)
EXTENDS Naturals, Sequences, SequencesExt

CONSTANTS Publishers,    \* goroutines that publish to the topic
          Subscribers,   \* subscriptions, each with its channel and its context
          BufferCap,     \* capacity of a subscription's channel (64)
          MaxMessages    \* bound on the messages of the topic

ASSUME BusAssumption == BufferCap \in Nat \ {0} /\ MaxMessages \in Nat

VARIABLES nextSeq,    \* the sequence number of the last message
          subs,       \* the subscriptions in the bus's list
          publishing, \* publishing[p]: the message p fans out, and to whom it still has to
          channel,    \* channel[s]: the subscription s
          received,   \* received[s]: history, what the consumer of s took from its channel
          panicked    \* a goroutine panicked, which ends the process

busVars == <<nextSeq, subs, publishing, channel, received, panicked>>

Sequence == 1..MaxMessages
Publishing == [message: 0..MaxMessages, left: SUBSET Subscribers]

\* A subscription.  What is left of the history to replay are the messages from next up to
\* those that are published live.
Channel == [state: {"new", "open", "closed"}, cancelled: BOOLEAN,
            from: 0..MaxMessages, liveFrom: 0..MaxMessages + 1, next: 0..MaxMessages + 1,
            buffer: Seq(Sequence), dropped: BOOLEAN]

NewChannel == [state |-> "new", cancelled |-> FALSE, from |-> 0, liveFrom |-> 0,
               next |-> 0, buffer |-> <<>>, dropped |-> FALSE]

BusTypeOK ==
  /\ nextSeq \in 0..MaxMessages
  /\ subs \subseteq Subscribers
  /\ publishing \in [Publishers -> Publishing]
  /\ channel \in [Subscribers -> Channel]
  /\ received \in [Subscribers -> Seq(Sequence)]
  /\ \A s \in Subscribers :
       /\ Len(channel[s].buffer) <= BufferCap
       /\ s \in subs <=> channel[s].state = "open"
  /\ panicked \in BOOLEAN

BusInit ==
  /\ nextSeq = 0
  /\ subs = {}
  /\ publishing = [p \in Publishers |-> [message |-> 0, left |-> {}]]
  /\ channel = [s \in Subscribers |-> NewChannel]
  /\ received = [s \in Subscribers |-> <<>>]
  /\ panicked = FALSE

\* The part of Publish under the lock: the message joins the log and the list of subscribers
\* is copied.
Publish(p) ==
  /\ ~panicked /\ publishing[p].left = {} /\ nextSeq < MaxMessages
  /\ nextSeq' = nextSeq + 1
  /\ publishing' = [publishing EXCEPT ![p] = [message |-> nextSeq + 1, left |-> subs]]
  /\ UNCHANGED <<subs, channel, received, panicked>>

\* A mutation: the send does not look at the capacity.
sendUnbounded(s, m) == [channel EXCEPT ![s].buffer = Append(@, m)]

\* A send that does not block: a full channel drops the message.
Offer(s, m) ==
  IF Len(channel[s].buffer) < BufferCap
  THEN [channel EXCEPT ![s].buffer = Append(@, m)]
  ELSE [channel EXCEPT ![s].dropped = TRUE]

\* The part of Publish after the lock, for one subscriber of the copied list.  Sending on a
\* channel that was closed meanwhile panics, in a select with a default too.
FanOut(p, s) ==
  /\ ~panicked /\ s \in publishing[p].left
  /\ publishing' = [publishing EXCEPT ![p].left = @ \ {s}]
  /\ IF channel[s].state = "closed"
     THEN panicked' = TRUE /\ UNCHANGED channel
     ELSE channel' = Offer(s, publishing[p].message) /\ UNCHANGED panicked
  /\ UNCHANGED <<nextSeq, subs, received>>

\* A mutation: the replay starts after the sequence number that was asked for.
subscribeAfter(s, from) ==
  /\ ~panicked /\ channel[s].state = "new"
  /\ channel' = [channel EXCEPT ![s] =
                   [NewChannel EXCEPT !.state = "open", !.from = from,
                      !.liveFrom = nextSeq + 1, !.next = from + 1]]
  /\ subs' = subs \cup {s}
  /\ UNCHANGED <<nextSeq, publishing, received, panicked>>

\* Under the lock: the history to replay is copied and the channel joins the list.  Without a
\* FromSequence the history is replayed from the first message.
Subscribe(s, from) ==
  /\ ~panicked /\ channel[s].state = "new"
  /\ channel' = [channel EXCEPT ![s] =
                   [NewChannel EXCEPT !.state = "open", !.from = from,
                      !.liveFrom = nextSeq + 1, !.next = from]]
  /\ subs' = subs \cup {s}
  /\ UNCHANGED <<nextSeq, publishing, received, panicked>>

\* The goroutine of a subscription sends the next message of the history, when there is room.
Replay(s) ==
  /\ ~panicked /\ channel[s].state = "open" /\ channel[s].next < channel[s].liveFrom
  /\ Len(channel[s].buffer) < BufferCap
  /\ channel' = [channel EXCEPT ![s].buffer = Append(@, channel[s].next),
                                ![s].next = @ + 1]
  /\ UNCHANGED <<nextSeq, subs, publishing, received, panicked>>

Cancel(s) ==
  /\ ~panicked /\ channel[s].state = "open" /\ ~channel[s].cancelled
  /\ channel' = [channel EXCEPT ![s].cancelled = TRUE]
  /\ UNCHANGED <<nextSeq, subs, publishing, received, panicked>>

\* A mutation: the replay does not watch the context, and blocks on a full channel.
closeAfterReplay(s) ==
  /\ ~panicked /\ channel[s].state = "open" /\ channel[s].cancelled
  /\ channel[s].next >= channel[s].liveFrom
  /\ channel' = [channel EXCEPT ![s].state = "closed"]
  /\ subs' = subs \ {s}
  /\ UNCHANGED <<nextSeq, publishing, received, panicked>>

\* Under the lock: the goroutine leaves the list and closes the channel; what the history
\* still holds is not sent.
Close(s) ==
  /\ ~panicked /\ channel[s].state = "open" /\ channel[s].cancelled
  /\ channel' = [channel EXCEPT ![s].state = "closed"]
  /\ subs' = subs \ {s}
  /\ UNCHANGED <<nextSeq, publishing, received, panicked>>

\* The consumer; it may take what is left in a closed channel.
Receive(s) ==
  /\ ~panicked /\ channel[s].buffer # <<>>
  /\ received' = [received EXCEPT ![s] = Append(@, Head(channel[s].buffer))]
  /\ channel' = [channel EXCEPT ![s].buffer = Tail(@)]
  /\ UNCHANGED <<nextSeq, subs, publishing, panicked>>

BusNext ==
  \/ \E p \in Publishers : Publish(p) \/ \E s \in Subscribers : FanOut(p, s)
  \/ \E s \in Subscribers :
       \/ \E from \in 1..MaxMessages : Subscribe(s, from)
       \/ Replay(s) \/ Cancel(s) \/ Close(s) \/ Receive(s)

\* The goroutines of a subscription are scheduled; nobody has to publish, to receive or to
\* cancel.
BusFairness == \A s \in Subscribers : WF_busVars(Replay(s) \/ Close(s))

BusSpec == BusInit /\ [][BusNext]_busVars /\ BusFairness

(***************************************************************************)
(* What a subscription gives.                                              *)
(***************************************************************************)
Delivered(s) == received[s] \o channel[s].buffer

\* The copy of the history and the entry in the list are made under one lock, as are the log
\* entry and the copy of the list: no message reaches a subscription twice, as history and live.
DeliveredOnce ==
  \A s \in Subscribers : IsInjective(Delivered(s))

\* ... and none is missed: a subscription that never was full has, once nothing is under way
\* to it, every message from the sequence number it asked for, and every live one.
NothingMissed ==
  \A s \in Subscribers :
    /\ channel[s].state = "open" /\ ~channel[s].dropped
    /\ channel[s].next >= channel[s].liveFrom
    /\ \A p \in Publishers : s \notin publishing[p].left
    => ToSet(Delivered(s)) = {m \in 1..nextSeq : m >= channel[s].from \/ m >= channel[s].liveFrom}

\* A message published while a subscription is being set up reaches it exactly once.
DeliveredExactlyOnce == DeliveredOnce /\ NothingMissed

\* "The channel is closed when ctx is cancelled" (bus.go:83), also while the history is being
\* replayed to a consumer that no longer receives.
CancelledIsClosed ==
  []<>(panicked \/ \A s \in Subscribers : channel[s].cancelled => channel[s].state = "closed")

\* "MemoryBus is safe for concurrent use" (bus.go:18).
SafeForConcurrentUse == ~panicked
=============================================================================
