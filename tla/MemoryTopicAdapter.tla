-------------------------- MODULE MemoryTopicAdapter --------------------------
(***************************************************************************)
(* One topic of the in-process adapter the demos and the data applications *)
(* run on (impl/golang/internal/topic/memory_adapter.go).  It differs from *)
(* MemoryBus in what it does when a consumer is slow: the history is put   *)
(* into the channel under the lock, and a publisher waits for room in one  *)
(* channel after the other.  A message is its sequence number.             *)
(***************************************************************************)
EXTENDS Integers, Sequences, SequencesExt

CONSTANTS TopicWriters,   \* goroutines that publish to the topic
          TopicReaders,   \* subscriptions, each with its channel and its context
          SubBufferSize,  \* subBufferSize (100)
          MaxSeqNum       \* bound on the messages of the topic

ASSUME TopicAssumption == SubBufferSize \in Nat \ {0} /\ MaxSeqNum \in Nat

VARIABLES topicExists,   \* the topic was created
          seqNum,        \* seqNums: the sequence number of the last message
          subList,       \* subs: the channels of the topic, in the order of subscribing
          sending,       \* sending[w]: the message w publishes and the channels still to serve
          subscription,  \* subscription[r]: the channel of r and what its goroutine does
          taken,         \* taken[r]: history, what the consumer of r has taken
          sendPanicked   \* a send met a closed channel, which ends the process

topicVars == <<topicExists, seqNum, subList, sending, subscription, taken, sendPanicked>>

Unsubscribed == [state |-> "none", cancelled |-> FALSE, cap |-> SubBufferSize, queue |-> <<>>,
                 from |-> 0, liveFrom |-> 0]

\* A subscription.  Its queue holds the channel's messages, at most cap of them.
Subscription == [state: {"none", "open", "detached", "closed"}, cancelled: BOOLEAN, cap: Nat,
                 queue: Seq(1..MaxSeqNum), from: 0..MaxSeqNum + 1, liveFrom: 0..MaxSeqNum + 1]

TopicTypeOK ==
  /\ topicExists \in BOOLEAN /\ sendPanicked \in BOOLEAN
  /\ seqNum \in 0..MaxSeqNum
  /\ subList \in Seq(TopicReaders) /\ IsInjective(subList)
  /\ sending \in [TopicWriters -> [message: 0..MaxSeqNum, left: Seq(TopicReaders)]]
  /\ subscription \in [TopicReaders -> Subscription]
  /\ taken \in [TopicReaders -> Seq(1..MaxSeqNum)]
  /\ \A r \in TopicReaders :
       /\ Len(subscription[r].queue) <= subscription[r].cap
       /\ r \in ToSet(subList) <=> subscription[r].state = "open"

TopicInit ==
  /\ topicExists = FALSE /\ seqNum = 0 /\ subList = <<>> /\ sendPanicked = FALSE
  /\ sending = [w \in TopicWriters |-> [message |-> 0, left |-> <<>>]]
  /\ subscription = [r \in TopicReaders |-> Unsubscribed]
  /\ taken = [r \in TopicReaders |-> <<>>]

\* Creating a topic again changes nothing.
CreateTopic ==
  /\ ~sendPanicked /\ ~topicExists
  /\ topicExists' = TRUE
  /\ UNCHANGED <<seqNum, subList, sending, subscription, taken, sendPanicked>>

\* The part of Publish under the lock.  On a topic that does not exist it fails and changes
\* nothing.
PublishToTopic(w) ==
  /\ ~sendPanicked /\ topicExists /\ sending[w].left = <<>> /\ seqNum < MaxSeqNum
  /\ seqNum' = seqNum + 1
  /\ sending' = [sending EXCEPT ![w] = [message |-> seqNum + 1, left |-> subList]]
  /\ UNCHANGED <<topicExists, subList, subscription, taken, sendPanicked>>

\* The part of Publish after the lock: the next channel of the copied list.  The send waits
\* while the channel is full, and panics when it is closed, also when it has waited.
SendDelivery(w) ==
  LET r == Head(sending[w].left) IN
  /\ ~sendPanicked /\ sending[w].left # <<>>
  /\ \/ /\ subscription[r].state = "closed"
        /\ sendPanicked' = TRUE
        /\ UNCHANGED <<sending, subscription>>
     \/ /\ subscription[r].state # "closed" /\ Len(subscription[r].queue) < subscription[r].cap
        /\ subscription' = [subscription EXCEPT ![r].queue = Append(@, sending[w].message)]
        /\ sending' = [sending EXCEPT ![w].left = Tail(@)]
        /\ UNCHANGED sendPanicked
  /\ UNCHANGED <<topicExists, seqNum, subList, taken>>

\* The messages of a log of last messages from a number on, in order.
HistoryFrom(from, last) == SubSeq([i \in 1..last |-> i], from, last)

\* The history a subscription asks for.  A nil FromSequence is a number beyond the log.
backfill(from) == HistoryFrom(from, seqNum)

\* The capacity of the channel: a history longer than the buffer must fit.
bufNeeded(history) ==
  IF Len(history) > SubBufferSize THEN Len(history) + SubBufferSize ELSE SubBufferSize

\* A mutation: the channel joins the list without the history.
subscribeLive(r, from) ==
  /\ ~sendPanicked /\ subscription[r].state = "none"
  /\ subscription' = [subscription EXCEPT ![r] =
                        [Unsubscribed EXCEPT !.state = "open", !.cap = bufNeeded(backfill(from)),
                           !.queue = <<>>, !.from = from, !.liveFrom = seqNum + 1]]
  /\ subList' = Append(subList, r)
  /\ UNCHANGED <<topicExists, seqNum, sending, taken, sendPanicked>>

\* Under the lock: the channel is made, filled with the history and put into the list, whether
\* or not the topic exists.
SubscribeFrom(r, from) ==
  /\ ~sendPanicked /\ subscription[r].state = "none"
  /\ subscription' = [subscription EXCEPT ![r] =
                        [Unsubscribed EXCEPT !.state = "open", !.cap = bufNeeded(backfill(from)),
                           !.queue = backfill(from), !.from = from, !.liveFrom = seqNum + 1]]
  /\ subList' = Append(subList, r)
  /\ UNCHANGED <<topicExists, seqNum, sending, taken, sendPanicked>>

CancelContext(r) ==
  /\ ~sendPanicked /\ subscription[r].state = "open" /\ ~subscription[r].cancelled
  /\ subscription' = [subscription EXCEPT ![r].cancelled = TRUE]
  /\ UNCHANGED <<topicExists, seqNum, subList, sending, taken, sendPanicked>>

\* A mutation: Publish holds the lock while it sends, so the goroutine waits for it.
detachWaits(r) ==
  /\ ~sendPanicked /\ subscription[r].state = "open" /\ subscription[r].cancelled
  /\ \A w \in TopicWriters : sending[w].left = <<>>
  /\ \E i \in 1..Len(subList) : subList[i] = r /\ subList' = RemoveAt(subList, i)
  /\ subscription' = [subscription EXCEPT ![r].state = "detached"]
  /\ UNCHANGED <<topicExists, seqNum, sending, taken, sendPanicked>>

\* The goroutine of a cancelled subscription leaves the list, under the lock ...
Detach(r) ==
  /\ ~sendPanicked /\ subscription[r].state = "open" /\ subscription[r].cancelled
  /\ \E i \in 1..Len(subList) : subList[i] = r /\ subList' = RemoveAt(subList, i)
  /\ subscription' = [subscription EXCEPT ![r].state = "detached"]
  /\ UNCHANGED <<topicExists, seqNum, sending, taken, sendPanicked>>

\* ... and closes the channel after it, whoever may be sending to it.
CloseChannel(r) ==
  /\ ~sendPanicked /\ subscription[r].state = "detached"
  /\ subscription' = [subscription EXCEPT ![r].state = "closed"]
  /\ UNCHANGED <<topicExists, seqNum, subList, sending, taken, sendPanicked>>

\* The consumer; "callers MUST NOT continue to read after the context is cancelled".
TakeDelivery(r) ==
  /\ ~sendPanicked /\ ~subscription[r].cancelled /\ subscription[r].queue # <<>>
  /\ taken' = [taken EXCEPT ![r] = Append(@, Head(subscription[r].queue))]
  /\ subscription' = [subscription EXCEPT ![r].queue = Tail(@)]
  /\ UNCHANGED <<topicExists, seqNum, subList, sending, sendPanicked>>

TopicNext ==
  \/ CreateTopic
  \/ \E w \in TopicWriters : PublishToTopic(w) \/ SendDelivery(w)
  \/ \E r \in TopicReaders :
       \/ \E from \in 1..(MaxSeqNum + 1) : SubscribeFrom(r, from)
       \/ CancelContext(r) \/ Detach(r) \/ CloseChannel(r) \/ TakeDelivery(r)

\* Goroutines run, and a consumer drains its channel until it cancels, as the adapter asks of
\* it; nobody has to publish, to subscribe or to cancel.
TopicFairness ==
  /\ \A w \in TopicWriters : WF_topicVars(SendDelivery(w))
  /\ \A r \in TopicReaders :
       WF_topicVars(Detach(r) \/ CloseChannel(r)) /\ WF_topicVars(TakeDelivery(r))

TopicSpec == TopicInit /\ [][TopicNext]_topicVars /\ TopicFairness

(***************************************************************************)
(* What a subscription gives.                                              *)
(***************************************************************************)
Arrived(r) == taken[r] \o subscription[r].queue

\* "every historical message with seq >= *FromSequence (in order) before live messages"
\* (memory_adapter.go:117): what arrives starts with the whole history asked for, however much
\* is published and by whoever while the subscription is made.
HistoryThenLive ==
  \A r \in TopicReaders : subscription[r].state # "none" =>
    IsPrefix(HistoryFrom(subscription[r].from, subscription[r].liveFrom - 1), Arrived(r))

\* Unlike the bus this adapter drops nothing: once no send to an open subscription is under
\* way, it has every live message exactly once.
NothingDropped ==
  \A r \in TopicReaders : subscription[r].state = "open" =>
    /\ IsInjective(Arrived(r))
    /\ (\A w \in TopicWriters : r \notin ToSet(sending[w].left))
         => subscription[r].liveFrom..seqNum \subseteq ToSet(Arrived(r))

\* The history asked for, then every later message, each once.
HistoryThenEveryLive == HistoryThenLive /\ NothingDropped

\* Backpressure holds a publisher up but not for ever: Publish does not keep the lock, so a
\* consumer that stops because its context was cancelled is detached while publishers wait for
\* it, and the wait ends (in a panic).
PublishReturns ==
  \A w \in TopicWriters : sending[w].left # <<>> ~> (sending[w].left = <<>> \/ sendPanicked)
=============================================================================
