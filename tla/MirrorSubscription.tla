-------------------------- MODULE MirrorSubscription --------------------------
(***************************************************************************)
(* A subscription to a Hedera topic: the poller of the mirror node, which  *)
(* puts chunked messages together (internal/topic/hcs_real_client.go), and *)
(* the goroutine of the adapter, which checks and forwards what the poller *)
(* emits (internal/topic/adapter_hcs.go, dedup.go).  The Kafka and the     *)
(* event-log adapters forward in the same way.                             *)
(***************************************************************************)
EXTENDS Integers, Sequences, FiniteSets, SequencesExt

CONSTANTS Publications,  \* transactions that publish a message, each with its own id
          ChunksOf,      \* [Publications -> chunks of the message]
          MessageOf,     \* [Publications -> signed message]: a retry publishes it again
          Feeds,         \* what may be on the topic: the publications, those whose chunks can
                         \* be decoded, the messages whose JSON and signature are valid, and
                         \* whether the subscription has a deduplication tracker
          PageLimit,     \* messages per page (100)
          OutCap,        \* capacity of the poller's channel (64)
          Ttl,           \* age at which an incomplete group is forgotten (5 min)
          MaxClock       \* bound on the clock

ASSUME MirrorAssumption ==
  /\ ChunksOf \in [Publications -> Nat \ {0}]
  /\ \A f \in Feeds : /\ f.publications \subseteq Publications /\ f.decodable \subseteq Publications
                       /\ f.dedup \in BOOLEAN
  /\ PageLimit \in Nat \ {0} /\ OutCap \in Nat \ {0} /\ Ttl \in Nat /\ MaxClock \in Nat

VARIABLES feed,        \* one of Feeds, chosen at the start
          mirror,      \* the topic: a sequence of chunks [of |-> publication, number |-> k]
          clock,       \* minutes
          poller,      \* pollMirror: what it does, lastSeq, what is left of
                       \* its page, the page's time
          groups,      \* chunkAssembler.buf: the incomplete publications
          emitting,    \* the message being sent on out, or Nothing
          outCh,       \* out: what the poller has sent and the adapter not yet taken
          forwarder,   \* the adapter's goroutine and the message it holds
          seen,        \* DeduplicationTracker.seen
          delivered,   \* what the consumer has received
          ctxDone,     \* the context of the subscription is cancelled
          readAt,      \* history: for each publication, the chunks of it that were read, by
                       \* number, with the time of the page each was on
          emitted      \* history: everything the poller completed

topicSide == <<feed, mirror, clock>>
pollerSide == <<poller, groups, emitting, readAt, emitted>>
adapterSide == <<forwarder, seen, delivered, ctxDone>>
mirrorVars == <<topicSide, pollerSide, outCh, adapterSide>>

Decodable == feed.decodable
Valid == feed.valid
Dedup == feed.dedup

Nothing == [of |-> "none", seq |-> 0]
Emission == [of: Publications, seq: Nat \ {0}]
Chunk == [of: Publications, number: Nat \ {0}]

\* An incomplete publication: when the first chunk of it was read, whatever its number, and the
\* places on the topic of the chunks there are.
Group == [arrived: 0..MaxClock, parts: SUBSET Nat]

\* The numbers of the chunks of p among the first n messages of the topic.
NumbersOf(p, n) == {mirror[i].number : i \in {k \in 1..n : mirror[k].of = p}}

MirrorTypeOK ==
  /\ feed \in Feeds /\ clock \in 0..MaxClock /\ ctxDone \in BOOLEAN
  /\ mirror \in Seq(Chunk)
  /\ poller \in [state: {"none", "idle", "reading"}, start: Nat, lastSeq: Nat, page: Nat,
                 now: 0..MaxClock]
  /\ poller.lastSeq + poller.page <= Len(mirror)
  /\ DOMAIN groups \subseteq Publications /\ groups \in [DOMAIN groups -> Group]
  /\ \A p \in DOMAIN groups : groups[p].parts \subseteq 1..poller.lastSeq
  /\ emitting \in Emission \cup {Nothing}
  /\ outCh \in Seq(Emission) /\ Len(outCh) <= OutCap
  /\ forwarder \in [state: {"none", "waiting", "sending", "stopped"},
                    holds: Emission \cup {Nothing}]
  /\ seen \subseteq Valid
  /\ delivered \in Seq(Emission) /\ emitted \in Seq(Emission)
  /\ DOMAIN readAt = Publications
  /\ \A p \in Publications : /\ DOMAIN readAt[p] \subseteq 1..ChunksOf[p]
                             /\ readAt[p] \in [DOMAIN readAt[p] -> 0..MaxClock]

MirrorInit ==
  /\ feed \in Feeds /\ mirror = <<>> /\ clock = 0
  /\ poller = [state |-> "none", start |-> 0, lastSeq |-> 0, page |-> 0, now |-> 0]
  /\ groups = [p \in {} |-> Nothing]
  /\ emitting = Nothing /\ outCh = <<>>
  /\ forwarder = [state |-> "none", holds |-> Nothing]
  /\ seen = {} /\ delivered = <<>> /\ ctxDone = FALSE
  /\ readAt = [p \in Publications |-> [k \in {} |-> 0]] /\ emitted = <<>>

\* A chunk gets its place on the topic.  Chunks are in any order, those of one publication too.
SubmitChunk(p) ==
  /\ p \in feed.publications
  /\ \E k \in 1..ChunksOf[p] \ NumbersOf(p, Len(mirror)) :
       mirror' = Append(mirror, [of |-> p, number |-> k])
  /\ UNCHANGED <<feed, clock, pollerSide, outCh, adapterSide>>

PassMinute ==
  /\ clock < MaxClock /\ clock' = clock + 1
  /\ UNCHANGED <<feed, mirror, pollerSide, outCh, adapterSide>>

\* SubscribeTopic from a sequence number, inclusive (0 is the beginning).  Without one it asks
\* the mirror for the latest, and is a subscription from the number after it.
SubscribeMirror(from) ==
  /\ poller.state = "none" /\ from <= Len(mirror) + 1
  /\ poller' = [poller EXCEPT !.state = "idle", !.start = from,
                              !.lastSeq = IF from > 0 THEN from - 1 ELSE 0]
  /\ forwarder' = [forwarder EXCEPT !.state = "waiting"]
  /\ UNCHANGED <<topicSide, groups, emitting, readAt, emitted, outCh, seen, delivered, ctxDone>>

\* One page of the messages after lastSeq, in ascending order.  A request that fails changes
\* nothing and is repeated after a pause.
FetchPage ==
  /\ poller.state = "idle"
  /\ poller' = [poller EXCEPT !.state = "reading", !.now = clock,
                  !.page = Min({PageLimit, Len(mirror) - poller.lastSeq})]
  /\ UNCHANGED <<topicSide, groups, emitting, readAt, emitted, outCh, adapterSide>>

\* A mutation: groups are kept by message and not by transaction.
groupOfMessage(p) ==
  IF \E q \in DOMAIN groups : MessageOf[q] = MessageOf[p]
  THEN groups[CHOOSE q \in DOMAIN groups : MessageOf[q] = MessageOf[p]]
  ELSE [arrived |-> poller.now, parts |-> {}]

\* The group a chunk belongs to, by its initial transaction id; its age counts from the page
\* that brought the first chunk.
GroupOf(p) == IF p \in DOMAIN groups THEN groups[p] ELSE [arrived |-> poller.now, parts |-> {}]

\* ingest: lastSeq moves on first; a chunk joins its group, and the last one missing completes
\* the message.  That carries the sequence number of the chunk with the highest number, which
\* need not be the one that completed it.
Ingest ==
  LET p     == mirror[poller.lastSeq + 1].of
      k     == mirror[poller.lastSeq + 1].number
      parts == GroupOf(p).parts \cup {poller.lastSeq + 1}
      done  == {mirror[i].number : i \in parts} = 1..ChunksOf[p]
      whole == [of |-> p, seq |-> CHOOSE i \in parts : mirror[i].number = ChunksOf[p]]
  IN
  /\ poller.state = "reading" /\ poller.page > 0 /\ emitting = Nothing
  /\ poller' = [poller EXCEPT !.lastSeq = @ + 1, !.page = @ - 1]
  /\ groups' = [q \in (DOMAIN groups \ {p}) \cup (IF done THEN {} ELSE {p}) |->
                  IF q = p THEN [GroupOf(p) EXCEPT !.parts = parts] ELSE groups[q]]
  /\ readAt' = [readAt EXCEPT ![p] = [n \in DOMAIN @ \cup {k} |->
                                        IF n = k THEN poller.now ELSE readAt[p][n]]]
  /\ IF done /\ p \in Decodable
     THEN emitting' = whole /\ emitted' = Append(emitted, whole)
     ELSE UNCHANGED <<emitting, emitted>>
  /\ UNCHANGED <<topicSide, outCh, adapterSide>>

\* A mutation: what finds the channel full is dropped.
sendOutOrDrop ==
  /\ emitting # Nothing
  /\ outCh' = IF Len(outCh) < OutCap THEN Append(outCh, emitting) ELSE outCh
  /\ emitting' = Nothing
  /\ UNCHANGED <<topicSide, poller, groups, readAt, emitted, adapterSide>>

\* out <- msg waits for room, without a context to end the wait.
SendOut ==
  /\ emitting # Nothing /\ Len(outCh) < OutCap
  /\ outCh' = Append(outCh, emitting)
  /\ emitting' = Nothing
  /\ UNCHANGED <<topicSide, poller, groups, readAt, emitted, adapterSide>>

\* A mutation: every incomplete group is forgotten.
ExpiredAlways == DOMAIN groups

Expired == {p \in DOMAIN groups : clock - groups[p].arrived > Ttl}

\* At the end of a page the groups that are too old are forgotten, by the clock of then: the
\* page may have taken long.
EndPage ==
  /\ poller.state = "reading" /\ poller.page = 0 /\ emitting = Nothing
  /\ groups' = [p \in DOMAIN groups \ Expired |-> groups[p]]
  /\ poller' = [poller EXCEPT !.state = "idle"]
  /\ UNCHANGED <<topicSide, emitting, readAt, emitted, outCh, adapterSide>>

IsDuplicate(m) == Dedup /\ m \in seen

\* The adapter's goroutine takes a message, also when its context is done and the select has
\* the choice.  What is invalid goes to the error handler, what was seen is skipped; the
\* tracker remembers a message before it is forwarded.
TakeFromOut ==
  LET m == MessageOf[Head(outCh).of] IN
  /\ forwarder.state = "waiting" /\ outCh # <<>>
  /\ outCh' = Tail(outCh)
  /\ IF m \notin Valid \/ IsDuplicate(m)
     THEN UNCHANGED <<forwarder, seen>>
     ELSE /\ forwarder' = [state |-> "sending", holds |-> Head(outCh)]
          /\ seen' = IF Dedup THEN seen \cup {m} ELSE seen
  /\ UNCHANGED <<topicSide, pollerSide, delivered, ctxDone>>

\* deliveryCh has no buffer: the goroutine waits for the consumer, and does not look at its
\* context while it waits.
HandOver ==
  /\ forwarder.state = "sending"
  /\ delivered' = Append(delivered, forwarder.holds)
  /\ forwarder' = [state |-> "waiting", holds |-> Nothing]
  /\ UNCHANGED <<topicSide, pollerSide, outCh, seen, ctxDone>>

CancelSubscription ==
  /\ forwarder.state # "none" /\ ~ctxDone
  /\ ctxDone' = TRUE
  /\ UNCHANGED <<topicSide, pollerSide, outCh, forwarder, seen, delivered>>

\* The goroutine ends and closes deliveryCh; the poller is not told.
StopForwarding ==
  /\ forwarder.state = "waiting" /\ ctxDone
  /\ forwarder' = [forwarder EXCEPT !.state = "stopped"]
  /\ UNCHANGED <<topicSide, pollerSide, outCh, seen, delivered, ctxDone>>

MirrorNext ==
  \/ \E p \in Publications : SubmitChunk(p)
  \/ \E from \in 0..(Len(mirror) + 1) : SubscribeMirror(from)
  \/ PassMinute \/ FetchPage \/ Ingest \/ SendOut \/ EndPage
  \/ TakeFromOut \/ HandOver \/ CancelSubscription \/ StopForwarding

PollerStep == FetchPage \/ Ingest \/ SendOut \/ EndPage
ForwarderStep == TakeFromOut \/ StopForwarding

\* The two goroutines run, and the consumer receives until it cancels.
MirrorFairness ==
  /\ WF_mirrorVars(PollerStep) /\ WF_mirrorVars(ForwarderStep)
  /\ WF_mirrorVars(~ctxDone /\ HandOver)

MirrorSpec == MirrorInit /\ [][MirrorNext]_mirrorVars /\ MirrorFairness

(***************************************************************************)
(* What a subscription gives.                                              *)
(***************************************************************************)
CompletedOf(p) == {i \in 1..Len(emitted) : emitted[i].of = p}

AllRead(p) == DOMAIN readAt[p] = 1..ChunksOf[p]

\* A publication of which every chunk was read, no two further apart than Ttl, is put together
\* exactly once: in whatever order its chunks come and whatever other publications' chunks lie
\* between, wherever pages end, however long the poller waited for its consumer and whenever
\* groups were forgotten.
TimelyIsCompleted ==
  \A p \in Decodable :
    /\ AllRead(p)
    /\ \A k, n \in 1..ChunksOf[p] : readAt[p][k] - readAt[p][n] <= Ttl
    => \E i \in CompletedOf(p) : CompletedOf(p) = {i}

\* All chunks of p are on the topic before the last one of q.
CompleteBefore(p, q) ==
  \E n \in 1..Len(mirror) : /\ mirror[n].of = q
                            /\ \A m \in 1..Len(mirror) : mirror[m].of = p => m < n

InOrder(s) == \A i, j \in 1..Len(s) : i < j => CompleteBefore(s[i].of, s[j].of)

\* No message is made of chunks of two publications or of a part, and its sequence number is
\* the place of the chunk with its highest number.  Messages come out in the order in which the
\* topic completes them.  (So do their sequence numbers, as far as chunks are in order.)
WholeAndInOrder ==
  /\ \A i \in 1..Len(emitted) :
       LET p == emitted[i].of
       IN  AllRead(p) /\ mirror[emitted[i].seq] = [of |-> p, number |-> ChunksOf[p]]
  /\ InOrder(emitted) /\ InOrder(delivered)
  /\ ToSet(delivered) \subseteq ToSet(emitted)

\* With a tracker a message is delivered once however often it was published.
DeliveredOncePerMessage ==
  Dedup => \A i, j \in 1..Len(delivered) :
             MessageOf[delivered[i].of] = MessageOf[delivered[j].of] => i = j

\* What the consumer gets are whole messages, in the order of their completion, and with a
\* tracker each once.
WholeInOrderOnce == WholeAndInOrder /\ DeliveredOncePerMessage

\* A valid message that was completed reaches the consumer, in one of its publications, unless
\* the consumer cancels: what the tracker remembers it has also forwarded.
CompletedIsDelivered ==
  []<>(ctxDone \/ \A p \in Publications :
         CompletedOf(p) # {} /\ MessageOf[p] \in Valid
           => \E i \in 1..Len(delivered) : MessageOf[delivered[i].of] = MessageOf[p])
=============================================================================
