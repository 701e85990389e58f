----------------------------- MODULE TopicsProofs -----------------------------
(***************************************************************************)
(* Proofs about the three transports, for any number of publishers and     *)
(* subscriptions, any capacity, any page length and any number of          *)
(* messages: what a subscription promises holds however publishing,        *)
(* subscribing and reading interleave.                                     *)
(*                                                                         *)
(* The bus of edgeapp.  A message is history of a subscription or live,    *)
(* never both, because the copy of the history and the entry in the list   *)
(* are one step, and so are the log entry and the copy of the list.        *)
(* History that was replayed has been delivered (Replayed); a live message *)
(* has been delivered, or one publisher still has to send it, unless the   *)
(* channel was full (LiveArrives).  What is delivered is one or the other, *)
(* and a live message is nobody's to send again (Origin).                  *)
(*                                                                         *)
(* The in-memory adapter.  It blocks where the bus drops.  What arrives at *)
(* a subscription begins with the history it asked for (Begun); every live *)
(* message has come or one writer has still to send it (LiveComes), none   *)
(* comes twice (ComesOnce), and no two writers send the same (SendsItsOwn).*)
(*                                                                         *)
(* A subscription to a mirror node.  No chunk is on the topic twice        *)
(* (Numbered), in whatever order they are there, so the chunk that         *)
(* completes a publication was missing until then.  What was read of a     *)
(* publication is in its group, or it has been completed, or it is late    *)
(* (Collected): a group is forgotten only when the next chunk would come   *)
(* too late.  A publication that was read as a whole has no chunk behind   *)
(* lastSeq, so it is complete on the topic before the one that is          *)
(* completed next (ReadIsBehind); from the poller to the consumer messages *)
(* stay in this order (InLine), and the tracker knows what was forwarded   *)
(* (Told).                                                                 *)
(***************************************************************************)
EXTENDS MCTopics, SequenceTheorems, TLAPS

(***************************************************************************)
(* The bus.                                                                *)
(***************************************************************************)

\* A publisher still has to send message m to subscription s.
Underway(s, m) == \E p \in Publishers : s \in publishing[p].left /\ publishing[p].message = m

Taken(s) == ToSet(Delivered(s))

\* No two publishers fan out the same message.
OwnMessages ==
  \A p, q \in Publishers, s \in Subscribers :
    /\ s \in publishing[p].left =>
         /\ channel[s].state # "new"
         /\ publishing[p].message \in channel[s].liveFrom..nextSeq
    /\ s \in publishing[p].left /\ s \in publishing[q].left /\ p # q
         => publishing[p].message # publishing[q].message

ChannelBounds ==
  \A s \in Subscribers :
    IF channel[s].state = "new"
    THEN Delivered(s) = <<>> /\ channel[s].liveFrom = 0 /\ channel[s].next = 0
    ELSE /\ channel[s].from \in Nat \ {0} /\ channel[s].liveFrom \in 1..nextSeq + 1
         /\ channel[s].from <= channel[s].next
         /\ channel[s].next <= channel[s].liveFrom \/ channel[s].next = channel[s].from

Replayed ==
  \A s \in Subscribers : \A m \in channel[s].from..(channel[s].next - 1) :
    channel[s].state # "new" => m \in Taken(s)

LiveArrives ==
  \A s \in Subscribers : \A m \in channel[s].liveFrom..nextSeq :
    channel[s].state = "open" /\ ~channel[s].dropped => m \in Taken(s) \/ Underway(s, m)

Origin ==
  \A s \in Subscribers : \A m \in Taken(s) :
    /\ m \in 1..nextSeq
    /\ \/ channel[s].from <= m /\ m < channel[s].next /\ m < channel[s].liveFrom
       \/ channel[s].liveFrom <= m /\ ~Underway(s, m)

BusIInv == BusTypeOK /\ OwnMessages /\ ChannelBounds /\ Replayed /\ LiveArrives /\ Origin /\ DeliveredOnce

-----------------------------------------------------------------------------
(***************************************************************************)
(* Sequences                                                               *)
(***************************************************************************)

\* What is put into the channel comes after everything delivered before.
LEMMA PutIsAppend ==
  ASSUME NEW S, NEW r \in Seq(S), NEW b \in Seq(S), NEW x \in S
  PROVE  r \o Append(b, x) = Append(r \o b, x)
<1>1. <<x>> \in Seq(S)
  OBVIOUS
<1>2. Append(b, x) = b \o <<x>> /\ r \o b \in Seq(S)
  BY AppendIsConcat, ConcatProperties
<1>3. Append(r \o b, x) = (r \o b) \o <<x>>
  BY <1>2, AppendIsConcat
<1> QED  BY <1>1, <1>2, <1>3, ConcatAssociative

\* Taking the first message of the channel changes nothing in what is delivered.
LEMMA TakeKeeps ==
  ASSUME NEW S, NEW r \in Seq(S), NEW b \in Seq(S), b # <<>>
  PROVE  Append(r, Head(b)) \o Tail(b) = r \o b
<1>1. Head(b) \in S /\ Tail(b) \in Seq(S) /\ <<Head(b)>> \in Seq(S)
  BY HeadTailProperties
<1>2. Append(r, Head(b)) = r \o <<Head(b)>>
  BY <1>1, AppendIsConcat
<1>3. b = <<Head(b)>> \o Tail(b)
  OBVIOUS
<1> QED  BY <1>1, <1>2, <1>3, ConcatAssociative

\* A message that was not delivered yet is delivered once more than before.
LEMMA FreshAppend ==
  ASSUME NEW S, NEW d \in Seq(S), NEW x \in S, IsInjective(d), x \notin ToSet(d)
  PROVE  IsInjective(Append(d, x)) /\ ToSet(Append(d, x)) = ToSet(d) \cup {x}
<1>1. /\ Append(d, x) \in Seq(S) /\ Len(Append(d, x)) = Len(d) + 1
      /\ \A i \in 1..Len(d) : Append(d, x)[i] = d[i]
      /\ Append(d, x)[Len(d) + 1] = x
  BY AppendProperties
<1>2. Len(d) \in Nat /\ DOMAIN d = 1..Len(d) /\ DOMAIN Append(d, x) = 1..(Len(d) + 1)
  BY <1>1, LenProperties
<1>3. IsInjective(Append(d, x))
  BY <1>1, <1>2 DEF IsInjective, ToSet
<1>4. ToSet(Append(d, x)) = ToSet(d) \cup {x}
  BY <1>1, <1>2 DEF ToSet
<1> QED  BY <1>3, <1>4

\* What is delivered is a sequence of messages of the topic.
LEMMA DeliveredSeq ==
  ASSUME BusTypeOK, NEW s \in Subscribers
  PROVE  /\ received[s] \in Seq(Sequence) /\ channel[s].buffer \in Seq(Sequence)
         /\ Delivered(s) \in Seq(Sequence) /\ channel[s] \in Channel
<1>1. channel[s] \in Channel /\ received[s] \in Seq(Sequence)
  BY DEF BusTypeOK
<1>2. channel[s].buffer \in Seq(Sequence)
  BY <1>1 DEF Channel
<1> QED  BY <1>1, <1>2, ConcatProperties DEF Delivered

\* Nothing is delivered to a subscription whose channel and history stay as they are.
LEMMA DeliveredFrame ==
  ASSUME NEW s \in Subscribers, received'[s] = received[s], channel'[s].buffer = channel[s].buffer
  PROVE  Delivered(s)' = Delivered(s) /\ Taken(s)' = Taken(s)
BY DEF Delivered, Taken

\* A step replaces the record of one subscription ...
LEMMA ChannelUpdate ==
  ASSUME BusTypeOK, NEW s \in Subscribers, NEW c \in Channel, channel' = [channel EXCEPT ![s] = c]
  PROVE  /\ channel' \in [Subscribers -> Channel] /\ channel'[s] = c
         /\ \A h \in Subscribers : h # s => channel'[h] = channel[h]
<1>1. channel \in [Subscribers -> Channel]
  BY DEF BusTypeOK
<1> HIDE DEF Channel
<1> QED  BY <1>1

\* ... by one that differs in its buffer ...
LEMMA BufferUpdate ==
  ASSUME NEW c \in Channel, NEW b \in Seq(Sequence)
  PROVE  LET d == [c EXCEPT !.buffer = b]
         IN  /\ d \in Channel /\ d.buffer = b /\ d.state = c.state /\ d.from = c.from
             /\ d.liveFrom = c.liveFrom /\ d.next = c.next /\ d.dropped = c.dropped
BY DEF Channel

\* ... or says that a message was dropped ...
LEMMA DropUpdate ==
  ASSUME NEW c \in Channel
  PROVE  LET d == [c EXCEPT !.dropped = TRUE]
         IN  /\ d \in Channel /\ d.buffer = c.buffer /\ d.state = c.state /\ d.from = c.from
             /\ d.liveFrom = c.liveFrom /\ d.next = c.next /\ d.dropped
BY DEF Channel

\* ... or that its context is cancelled ...
LEMMA CancelUpdate ==
  ASSUME NEW c \in Channel
  PROVE  LET d == [c EXCEPT !.cancelled = TRUE]
         IN  /\ d \in Channel /\ d.buffer = c.buffer /\ d.state = c.state /\ d.from = c.from
             /\ d.liveFrom = c.liveFrom /\ d.next = c.next /\ d.dropped = c.dropped
BY DEF Channel

\* ... or that it is closed.
LEMMA CloseUpdate ==
  ASSUME NEW c \in Channel
  PROVE  LET d == [c EXCEPT !.state = "closed"]
         IN  /\ d \in Channel /\ d.buffer = c.buffer /\ d.state = "closed" /\ d.from = c.from
             /\ d.liveFrom = c.liveFrom /\ d.next = c.next /\ d.dropped = c.dropped
BY DEF Channel

\* What is put into a channel is delivered last.
LEMMA PutDelivers ==
  ASSUME BusTypeOK, NEW s \in Subscribers, NEW m \in Sequence,
         received'[s] = received[s], channel'[s].buffer = Append(channel[s].buffer, m)
  PROVE  Delivered(s)' = Append(Delivered(s), m)
<1> DEFINE r == received[s]  b == channel[s].buffer
<1>1. r \in Seq(Sequence) /\ b \in Seq(Sequence)
  BY DeliveredSeq
<1>2. Delivered(s) = r \o b /\ Delivered(s)' = r \o Append(b, m)
  BY DEF Delivered
<1> HIDE DEF r, b
<1>3. r \o Append(b, m) = Append(r \o b, m)
  BY <1>1, PutIsAppend
<1> QED  BY <1>2, <1>3

-----------------------------------------------------------------------------
(***************************************************************************)
(* The steps                                                               *)
(***************************************************************************)

\* At first there are no messages and no subscriptions.
LEMMA InitBusIInv == BusInit => BusIInv
<1> SUFFICES ASSUME BusInit PROVE BusIInv
  OBVIOUS
<1>1. /\ <<>> \in Seq(Sequence) /\ Len(<<>>) = 0
  BY EmptySeq
<1>2. NewChannel \in Channel
  BY <1>1, BusAssumption DEF NewChannel, Channel
<1>3. BusTypeOK
  <2>1. /\ [message |-> 0, left |-> {}] \in Publishing
        /\ NewChannel.buffer = <<>> /\ NewChannel.state = "new"
    BY BusAssumption DEF Publishing, NewChannel
  <2>2. 0 \in 0..MaxMessages /\ 0 <= BufferCap
    BY BusAssumption
  <2> QED  BY <1>1, <1>2, <2>1, <2>2 DEF BusInit, BusTypeOK
<1>4. \A s \in Subscribers : channel[s] = NewChannel /\ received[s] = <<>>
  BY DEF BusInit
<1>5. \A s \in Subscribers : channel[s].buffer = <<>>
  BY <1>4 DEF NewChannel
<1>6. \A s \in Subscribers : Delivered(s) = <<>>
  BY <1>1, <1>4, <1>5, ConcatEmptySeq DEF Delivered
<1>7. \A s \in Subscribers : Taken(s) = {}
  BY <1>6 DEF Taken, ToSet
<1>8. \A s \in Subscribers : /\ channel[s].state = "new" /\ channel[s].liveFrom = 0
                             /\ channel[s].next = 0 /\ channel[s].from = 0
  BY <1>4 DEF NewChannel
<1>9. OwnMessages
  BY DEF BusInit, OwnMessages
<1>10. ChannelBounds /\ Replayed /\ LiveArrives /\ Origin
  BY <1>6, <1>7, <1>8 DEF ChannelBounds, Replayed, LiveArrives, Origin
<1>11. DeliveredOnce
  BY <1>6 DEF DeliveredOnce, IsInjective
<1> QED  BY <1>3, <1>9, <1>10, <1>11 DEF BusIInv

\* A message that is published is underway to every subscription in the list, and to no other.
LEMMA PublishIInv ==
  ASSUME BusIInv, NEW p \in Publishers, Publish(p)
  PROVE  BusIInv'
<1> USE DEF BusIInv
<1>1. /\ nextSeq \in Nat /\ nextSeq' = nextSeq + 1 /\ nextSeq' \in 0..MaxMessages
      /\ publishing[p].left = {} /\ subs \subseteq Subscribers
      /\ publishing' = [publishing EXCEPT ![p] = [message |-> nextSeq + 1, left |-> subs]]
      /\ subs' = subs /\ channel' = channel /\ received' = received /\ panicked' = panicked
  BY BusAssumption DEF Publish, BusTypeOK
<1>2. /\ publishing'[p].message = nextSeq + 1 /\ publishing'[p].left = subs
      /\ \A q \in Publishers : q # p => publishing'[q] = publishing[q]
  BY <1>1 DEF BusTypeOK
<1>3. BusTypeOK'
  <2>1. publishing' \in [Publishers -> Publishing]
    BY <1>1 DEF BusTypeOK, Publishing
  <2> QED  BY <1>1, <2>1 DEF BusTypeOK
<1>4. \A s \in Subscribers : Delivered(s)' = Delivered(s) /\ Taken(s)' = Taken(s)
  BY <1>1, DeliveredFrame
<1>5. \A s \in Subscribers : channel[s].liveFrom \in Nat /\ (s \in subs <=> channel[s].state = "open")
  BY DeliveredSeq, BusAssumption DEF Channel, BusTypeOK
<1>6. \A s \in Subscribers, m \in 1..nextSeq : Underway(s, m)' <=> Underway(s, m)
  BY <1>1, <1>2 DEF Underway
<1>7. \A s \in Subscribers, m \in Nat : s \in subs /\ m = nextSeq + 1 => Underway(s, m)'
  BY <1>2 DEF Underway
<1>8. OwnMessages'
  <2>1. \A q \in Publishers, s \in Subscribers : s \in publishing'[q].left =>
          /\ channel'[s].state # "new" /\ publishing'[q].message \in channel'[s].liveFrom..nextSeq'
    <3> SUFFICES ASSUME NEW q \in Publishers, NEW s \in Subscribers, s \in publishing'[q].left
                 PROVE  /\ channel'[s].state # "new"
                        /\ publishing'[q].message \in channel'[s].liveFrom..nextSeq'
      OBVIOUS
    <3>1. CASE q = p
      <4>1. channel[s].state = "open"
        BY <1>2, <1>5, <3>1
      <4>2. channel[s].liveFrom \in 1..nextSeq + 1
        BY <4>1 DEF ChannelBounds
      <4> QED  BY <1>1, <1>2, <3>1, <4>1, <4>2
    <3>2. CASE q # p
      BY <1>1, <1>2, <1>5, <3>2 DEF OwnMessages
    <3> QED  BY <3>1, <3>2
  <2>2. \A q \in Publishers, s \in Subscribers :
          q # p /\ s \in publishing'[q].left => publishing'[q].message # nextSeq + 1
    BY <1>1, <1>2, <1>5 DEF OwnMessages
  <2>3. \A q, r \in Publishers, s \in Subscribers :
          s \in publishing'[q].left /\ s \in publishing'[r].left /\ q # r
            => publishing'[q].message # publishing'[r].message
    BY <1>2, <2>2 DEF OwnMessages
  <2> QED  BY <2>1, <2>3 DEF OwnMessages
<1>9. ChannelBounds'
  BY <1>1, <1>4, <1>5 DEF ChannelBounds
<1>10. Replayed'
  BY <1>1, <1>4 DEF Replayed
<1>11. LiveArrives'
  <2> SUFFICES ASSUME NEW s \in Subscribers, NEW m \in channel'[s].liveFrom..nextSeq',
                      channel'[s].state = "open", ~channel'[s].dropped
               PROVE  m \in Taken(s)' \/ Underway(s, m)'
    BY DEF LiveArrives
  <2>1. CASE m = nextSeq + 1
    BY <1>1, <1>5, <1>7, <2>1
  <2>2. CASE m # nextSeq + 1
    <3>1. m \in channel[s].liveFrom..nextSeq
      BY <1>1, <1>5, <2>2
    <3>2. m \in 1..nextSeq
      BY <1>1, <3>1 DEF ChannelBounds
    <3> QED  BY <1>1, <1>4, <1>6, <3>1, <3>2 DEF LiveArrives
  <2> QED  BY <2>1, <2>2
<1>12. Origin'
  BY <1>1, <1>4, <1>6 DEF Origin
<1>13. DeliveredOnce'
  BY <1>4 DEF DeliveredOnce
<1> QED  BY <1>3, <1>8, <1>9, <1>10, <1>11, <1>12, <1>13

\* Message m is offered to subscription s: it is not underway to s any more, and now delivered,
\* unless the channel is closed or full.
LEMMA FanOutIInv ==
  ASSUME BusIInv, NEW p \in Publishers, NEW s \in Subscribers, FanOut(p, s)
  PROVE  BusIInv'
<1> USE DEF BusIInv
<1> PICK m : m = publishing[p].message
  OBVIOUS
<1>1. /\ s \in publishing[p].left /\ nextSeq' = nextSeq /\ subs' = subs /\ received' = received
      /\ publishing' = [publishing EXCEPT ![p].left = @ \ {s}]
  BY DEF FanOut
<1>2. /\ publishing[p] \in Publishing
      /\ publishing'[p] = [message |-> m, left |-> publishing[p].left \ {s}]
      /\ \A q \in Publishers : q # p => publishing'[q] = publishing[q]
  BY <1>1 DEF BusTypeOK, Publishing
<1>3. publishing' \in [Publishers -> Publishing]
  BY <1>1, <1>2 DEF BusTypeOK, Publishing
<1>4. /\ channel[s].state # "new" /\ m \in channel[s].liveFrom..nextSeq
      /\ channel[s].liveFrom \in 1..nextSeq + 1 /\ nextSeq \in 0..MaxMessages
      /\ m \in 1..nextSeq /\ m \in Sequence /\ Underway(s, m)
  <2>1. channel[s].state # "new" /\ m \in channel[s].liveFrom..nextSeq /\ nextSeq \in 0..MaxMessages
    BY <1>1 DEF OwnMessages, BusTypeOK
  <2>2. channel[s].liveFrom \in 1..nextSeq + 1
    BY <2>1 DEF ChannelBounds
  <2>3. m \in 1..nextSeq /\ m \in Sequence
    BY <2>1, <2>2, BusAssumption DEF Sequence
  <2>4. Underway(s, m)
    BY <1>1 DEF Underway
  <2> QED  BY <2>1, <2>2, <2>3, <2>4
<1>5. m \notin Taken(s)
  BY <1>4 DEF Origin
<1>6. ~Underway(s, m)'
  <2> SUFFICES ASSUME NEW q \in Publishers, s \in publishing'[q].left, publishing'[q].message = m
               PROVE  FALSE
    BY DEF Underway
  <2>1. q # p
    BY <1>2
  <2>2. s \in publishing[q].left /\ publishing[q].message = m
    BY <1>2, <2>1
  <2> QED  BY <1>1, <2>1, <2>2 DEF OwnMessages
<1>7. \A h \in Subscribers : \A n : Underway(h, n)' => Underway(h, n)
  <2> SUFFICES ASSUME NEW h \in Subscribers, NEW n, NEW q \in Publishers,
                      h \in publishing'[q].left, publishing'[q].message = n
               PROVE  h \in publishing[q].left /\ publishing[q].message = n
    BY DEF Underway
  <2> QED  BY <1>2
<1>8. \A h \in Subscribers : \A n : (h # s \/ n # m) /\ Underway(h, n) => Underway(h, n)'
  <2> SUFFICES ASSUME NEW h \in Subscribers, NEW n, h # s \/ n # m, NEW q \in Publishers,
                      h \in publishing[q].left, publishing[q].message = n
               PROVE  h \in publishing'[q].left /\ publishing'[q].message = n
    BY DEF Underway
  <2> QED  BY <1>2
<1>9. OwnMessages' /\ DeliveredOnce' /\ BusTypeOK' /\ ChannelBounds' /\ Replayed' /\ LiveArrives' /\ Origin'
  <2>1. CASE channel[s].state = "closed"
    <3>1. channel' = channel /\ panicked' = TRUE
      BY <2>1 DEF FanOut
    <3>2. \A h \in Subscribers : Delivered(h)' = Delivered(h) /\ Taken(h)' = Taken(h)
      BY <1>1, <3>1, DeliveredFrame
    <3>3. BusTypeOK'
      BY <1>1, <1>3, <3>1 DEF BusTypeOK
    <3>4. OwnMessages'
      BY <1>1, <1>2, <3>1 DEF OwnMessages
    <3>5. ChannelBounds' /\ Replayed' /\ DeliveredOnce'
      BY <1>1, <3>1, <3>2 DEF ChannelBounds, Replayed, DeliveredOnce
    <3>6. LiveArrives'
      BY <1>1, <1>8, <2>1, <3>1, <3>2 DEF LiveArrives
    <3>7. Origin'
      BY <1>1, <1>7, <3>1, <3>2 DEF Origin
    <3> QED  BY <3>3, <3>4, <3>5, <3>6, <3>7
  <2>2. CASE channel[s].state # "closed"
    <3>1. channel' = Offer(s, m) /\ panicked' = panicked
      BY <2>2 DEF FanOut
    <3>2. channel[s].state = "open"
      BY <1>4, <2>2, DeliveredSeq DEF Channel
    <3>3. CASE Len(channel[s].buffer) >= BufferCap
      <4>1. channel' = [channel EXCEPT ![s].dropped = TRUE]
        BY <3>1, <3>3, DeliveredSeq, LenProperties, BusAssumption DEF Offer
      <4>2. /\ channel' \in [Subscribers -> Channel]
            /\ \A h \in Subscribers : /\ channel'[h].state = channel[h].state
                                      /\ channel'[h].buffer = channel[h].buffer
                                      /\ channel'[h].from = channel[h].from
                                      /\ channel'[h].liveFrom = channel[h].liveFrom
                                      /\ channel'[h].next = channel[h].next
                                      /\ h # s => channel'[h].dropped = channel[h].dropped
            /\ channel'[s].dropped
          <5> DEFINE new == [channel[s] EXCEPT !.dropped = TRUE]
          <5>1. channel' = [channel EXCEPT ![s] = new]
            BY <4>1
          <5>2. /\ new \in Channel /\ new.state = channel[s].state /\ new.from = channel[s].from
                /\ new.liveFrom = channel[s].liveFrom /\ new.next = channel[s].next
                /\ new.dropped /\ new.buffer = channel[s].buffer
            <6>1. channel[s] \in Channel
              BY DeliveredSeq
            <6> QED  BY <6>1, DropUpdate
          <5> HIDE DEF new
          <5>3. /\ channel' \in [Subscribers -> Channel] /\ channel'[s] = new
                /\ \A h \in Subscribers : h # s => channel'[h] = channel[h]
            BY <5>1, <5>2, ChannelUpdate
          <5> QED  BY <5>2, <5>3
      <4>3. \A h \in Subscribers : Delivered(h)' = Delivered(h) /\ Taken(h)' = Taken(h)
        BY <1>1, <4>2, DeliveredFrame
      <4>4. BusTypeOK'
        BY <1>1, <1>3, <3>1, <4>2 DEF BusTypeOK
      <4>5. OwnMessages'
        BY <1>1, <1>2, <4>2 DEF OwnMessages
      <4>6. ChannelBounds' /\ Replayed' /\ DeliveredOnce'
        BY <1>1, <4>2, <4>3 DEF ChannelBounds, Replayed, DeliveredOnce
      <4>7. LiveArrives'
        BY <1>1, <1>8, <4>2, <4>3 DEF LiveArrives
      <4>8. Origin'
        BY <1>1, <1>7, <4>2, <4>3 DEF Origin
      <4> QED  BY <4>4, <4>5, <4>6, <4>7, <4>8
    <3>4. CASE Len(channel[s].buffer) < BufferCap
      <4>1. channel' = [channel EXCEPT ![s].buffer = Append(@, m)]
        BY <3>1, <3>4 DEF Offer
      <4>2. /\ Append(channel[s].buffer, m) \in Seq(Sequence)
            /\ Len(Append(channel[s].buffer, m)) = Len(channel[s].buffer) + 1
            /\ Len(channel[s].buffer) \in Nat
        BY <1>4, DeliveredSeq, AppendProperties, LenProperties
      <4>3. /\ channel' \in [Subscribers -> Channel]
            /\ \A h \in Subscribers : /\ channel'[h].state = channel[h].state
                                      /\ channel'[h].from = channel[h].from
                                      /\ channel'[h].liveFrom = channel[h].liveFrom
                                      /\ channel'[h].next = channel[h].next
                                      /\ channel'[h].dropped = channel[h].dropped
                                      /\ h # s => channel'[h] = channel[h]
            /\ channel'[s].buffer = Append(channel[s].buffer, m)
          <5> DEFINE new == [channel[s] EXCEPT !.buffer = Append(@, m)]
          <5>1. channel' = [channel EXCEPT ![s] = new]
            BY <4>1
          <5>2. /\ new \in Channel /\ new.state = channel[s].state /\ new.from = channel[s].from
                /\ new.liveFrom = channel[s].liveFrom /\ new.next = channel[s].next
                /\ new.dropped = channel[s].dropped /\ new.buffer = Append(channel[s].buffer, m)
            <6>1. channel[s] \in Channel
              BY DeliveredSeq
            <6> QED  BY <4>2, <6>1, BufferUpdate
          <5> HIDE DEF new
          <5>3. /\ channel' \in [Subscribers -> Channel] /\ channel'[s] = new
                /\ \A h \in Subscribers : h # s => channel'[h] = channel[h]
            BY <5>1, <5>2, ChannelUpdate
          <5> QED  BY <5>2, <5>3
      <4>4. \A h \in Subscribers : h # s => Delivered(h)' = Delivered(h) /\ Taken(h)' = Taken(h)
        BY <1>1, <4>3, DeliveredFrame
      <4>5. IsInjective(Delivered(s))' /\ Taken(s)' = Taken(s) \cup {m}
        <5>1. Delivered(s)' = Append(Delivered(s), m)
          BY <1>1, <1>4, <4>3, PutDelivers
        <5> QED  BY <1>4, <1>5, <5>1, DeliveredSeq, FreshAppend DEF Taken, DeliveredOnce
      <4>6. BusTypeOK'
        <5>1. \A h \in Subscribers : Len(channel'[h].buffer) <= BufferCap
          <6>1. Len(channel'[s].buffer) <= BufferCap
            BY <3>4, <4>2, <4>3, BusAssumption
          <6>2. \A h \in Subscribers : h # s => Len(channel'[h].buffer) <= BufferCap
            BY <4>3 DEF BusTypeOK
          <6> QED  BY <6>1, <6>2
        <5> QED  BY <1>1, <1>3, <3>1, <4>3, <5>1 DEF BusTypeOK
      <4>7. OwnMessages'
        BY <1>1, <1>2, <4>3 DEF OwnMessages
      <4>8. ChannelBounds'
        BY <1>1, <3>2, <4>3, <4>4 DEF ChannelBounds
      <4>9. Replayed' /\ DeliveredOnce'
        BY <1>1, <4>3, <4>4, <4>5 DEF Replayed, DeliveredOnce
      <4>10. LiveArrives'
        BY <1>1, <1>8, <4>3, <4>4, <4>5 DEF LiveArrives
      <4>11. Origin'
        BY <1>1, <1>4, <1>6, <1>7, <4>3, <4>4, <4>5 DEF Origin
      <4> QED  BY <4>6, <4>7, <4>8, <4>9, <4>10, <4>11
    <3>5. Len(channel[s].buffer) \in Nat /\ BufferCap \in Nat
      BY DeliveredSeq, LenProperties, BusAssumption
    <3> QED  BY <3>3, <3>4, <3>5
  <2> QED  BY <2>1, <2>2
<1> QED  BY <1>9

\* Steps that publish nothing leave underway what is underway.
LEMMA UnderwayFrame ==
  ASSUME publishing' = publishing, NEW s \in Subscribers, NEW m
  PROVE  Underway(s, m)' <=> Underway(s, m)
BY DEF Underway

\* A new subscription has the messages so far as its history and the next one as its first
\* live message; nothing is delivered to it yet.
LEMMA SubscribeIInv ==
  ASSUME BusIInv, NEW s \in Subscribers, NEW from \in 1..MaxMessages, Subscribe(s, from)
  PROVE  BusIInv'
<1> USE DEF BusIInv
<1>1. /\ channel[s].state = "new" /\ nextSeq' = nextSeq /\ publishing' = publishing
      /\ received' = received /\ panicked' = panicked /\ subs' = subs \cup {s}
      /\ nextSeq \in 0..MaxMessages
  BY DEF Subscribe, BusTypeOK
<1> DEFINE new == [NewChannel EXCEPT !.state = "open", !.from = from,
                                     !.liveFrom = nextSeq + 1, !.next = from]
<1>2. channel' = [channel EXCEPT ![s] = new]
  BY DEF Subscribe
<1>3. <<>> \in Seq(Sequence) /\ Len(<<>>) = 0
  BY EmptySeq
<1>4. /\ channel' \in [Subscribers -> Channel]
      /\ \A h \in Subscribers : h # s => channel'[h] = channel[h]
      /\ channel'[s].state = "open" /\ channel'[s].from = from /\ channel'[s].next = from
      /\ channel'[s].liveFrom = nextSeq + 1 /\ channel'[s].buffer = <<>>
  <2>1. /\ new.state = "open" /\ new.from = from /\ new.next = from
        /\ new.liveFrom = nextSeq + 1 /\ new.buffer = <<>>
    BY DEF NewChannel
  <2>2. nextSeq + 1 \in 0..MaxMessages + 1 /\ from \in 0..MaxMessages /\ from \in 0..MaxMessages + 1
    BY <1>1, BusAssumption
  <2>3. new \in Channel
    BY <1>3, <2>2 DEF NewChannel, Channel
  <2> HIDE DEF new
  <2> QED  BY <1>2, <2>1, <2>3 DEF BusTypeOK
<1>5. \A h \in Subscribers : h # s => Delivered(h)' = Delivered(h) /\ Taken(h)' = Taken(h)
  BY <1>1, <1>4, DeliveredFrame
<1>6. Delivered(s)' = <<>> /\ Taken(s)' = {}
  <2>1. received[s] \o channel[s].buffer = <<>>
    BY <1>1 DEF ChannelBounds, Delivered
  <2>2. received[s] = <<>>
    BY <2>1, DeliveredSeq, ConcatProperties, LenProperties, EmptySeq
  <2>3. Delivered(s)' = <<>>
    BY <1>1, <1>3, <1>4, <2>2, ConcatEmptySeq DEF Delivered
  <2> QED  BY <2>3 DEF Taken, ToSet
<1>7. BusTypeOK'
  <2>1. \A h \in Subscribers : Len(channel'[h].buffer) <= BufferCap
    <3>1. Len(channel'[s].buffer) <= BufferCap
      BY <1>3, <1>4, BusAssumption
    <3>2. \A h \in Subscribers : h # s => Len(channel'[h].buffer) <= BufferCap
      BY <1>4 DEF BusTypeOK
    <3> QED  BY <3>1, <3>2
  <2> QED  BY <1>1, <1>4, <2>1 DEF BusTypeOK
<1>8. OwnMessages'
  <2>1. \A p \in Publishers : s \notin publishing[p].left
    BY <1>1 DEF OwnMessages
  <2> QED  BY <1>1, <1>4, <2>1 DEF OwnMessages
<1>9. ChannelBounds' /\ Replayed' /\ DeliveredOnce'
  <2>1. ChannelBounds'
    BY <1>1, <1>4, <1>5 DEF ChannelBounds
  <2>2. Replayed'
    BY <1>1, <1>4, <1>5 DEF Replayed
  <2>3. IsInjective(<<>>)
    BY DEF IsInjective
  <2> QED  BY <1>5, <1>6, <2>1, <2>2, <2>3 DEF DeliveredOnce
<1>10. LiveArrives'
  BY <1>1, <1>4, <1>5, UnderwayFrame DEF LiveArrives
<1>11. Origin'
  BY <1>1, <1>4, <1>5, <1>6, UnderwayFrame DEF Origin
<1> QED  BY <1>7, <1>8, <1>9, <1>10, <1>11

\* The next message of the history is delivered: it was not before, and it is not live.
LEMMA ReplayIInv ==
  ASSUME BusIInv, NEW s \in Subscribers, Replay(s)
  PROVE  BusIInv'
<1> USE DEF BusIInv
<1> PICK m : m = channel[s].next
  OBVIOUS
<1> PICK next : next = m + 1
  OBVIOUS
<1>1. /\ channel[s].state = "open" /\ m < channel[s].liveFrom /\ Len(channel[s].buffer) < BufferCap
      /\ nextSeq' = nextSeq /\ publishing' = publishing /\ subs' = subs
      /\ received' = received /\ panicked' = panicked /\ nextSeq \in 0..MaxMessages
      /\ channel' = [channel EXCEPT ![s].buffer = Append(@, m), ![s].next = @ + 1]
  BY DEF Replay, BusTypeOK
<1>2. /\ channel[s].from \in Nat \ {0} /\ channel[s].from <= m
      /\ channel[s].liveFrom \in 1..nextSeq + 1 /\ m \in Nat
  BY <1>1, DeliveredSeq, BusAssumption DEF ChannelBounds, Channel
<1>3. m \in 1..nextSeq /\ m \in Sequence /\ next \in 0..MaxMessages + 1
  <2>1. nextSeq \in Nat /\ MaxMessages \in Nat /\ nextSeq <= MaxMessages
    BY <1>1, BusAssumption
  <2>2. channel[s].liveFrom \in Nat /\ channel[s].liveFrom <= nextSeq + 1 /\ 1 <= m
    BY <1>2, <2>1
  <2>3. m \in 1..nextSeq
    BY <1>1, <1>2, <2>1, <2>2
  <2>4. m \in Sequence
    BY <2>1, <2>3 DEF Sequence
  <2>5. next \in 0..MaxMessages + 1
    BY <2>1, <2>3
  <2> QED  BY <2>3, <2>4, <2>5
<1>4. m \notin Taken(s)
  BY <1>1, <1>2 DEF Origin
<1>5. /\ Append(channel[s].buffer, m) \in Seq(Sequence)
      /\ Len(Append(channel[s].buffer, m)) = Len(channel[s].buffer) + 1
      /\ Len(channel[s].buffer) \in Nat
  BY <1>3, DeliveredSeq, AppendProperties, LenProperties
<1>6. /\ channel' \in [Subscribers -> Channel]
      /\ \A h \in Subscribers : h # s => channel'[h] = channel[h]
      /\ channel'[s].state = "open" /\ channel'[s].from = channel[s].from
      /\ channel'[s].liveFrom = channel[s].liveFrom /\ channel'[s].dropped = channel[s].dropped
      /\ channel'[s].buffer = Append(channel[s].buffer, m) /\ channel'[s].next = next
  <2> DEFINE new == [channel[s] EXCEPT !.buffer = Append(@, m), !.next = next]
  <2>1. channel' = [channel EXCEPT ![s] = new]
    BY <1>1
  <2>2. /\ new \in Channel /\ new.state = channel[s].state /\ new.from = channel[s].from
        /\ new.liveFrom = channel[s].liveFrom /\ new.next = next
        /\ new.dropped = channel[s].dropped /\ new.buffer = Append(channel[s].buffer, m)
    <3> DEFINE c == channel[s]  b == Append(channel[s].buffer, m)
    <3>1. c \in Channel /\ b \in Seq(Sequence) /\ next \in 0..MaxMessages + 1
      BY <1>3, <1>5, DeliveredSeq
    <3>2. new = [c EXCEPT !.buffer = b, !.next = next]
      OBVIOUS
    <3> HIDE DEF c, b, new
    <3>3. /\ new \in Channel /\ new.state = c.state /\ new.from = c.from /\ new.buffer = b
          /\ new.liveFrom = c.liveFrom /\ new.next = next /\ new.dropped = c.dropped
      BY <3>1, <3>2 DEF Channel
    <3> QED  BY <3>3 DEF c, b
  <2> HIDE DEF new
  <2>3. /\ channel' \in [Subscribers -> Channel] /\ channel'[s] = new
        /\ \A h \in Subscribers : h # s => channel'[h] = channel[h]
    BY <2>1, <2>2, ChannelUpdate
  <2> QED  BY <1>1, <2>2, <2>3
<1>7. \A h \in Subscribers : h # s => Delivered(h)' = Delivered(h) /\ Taken(h)' = Taken(h)
  BY <1>1, <1>6, DeliveredFrame
<1>8. IsInjective(Delivered(s))' /\ Taken(s)' = Taken(s) \cup {m}
  <2>1. Delivered(s)' = Append(Delivered(s), m)
    BY <1>1, <1>3, <1>6, PutDelivers
  <2> QED  BY <1>3, <1>4, <2>1, DeliveredSeq, FreshAppend DEF Taken, DeliveredOnce
<1>9. BusTypeOK'
  <2>1. Len(channel'[s].buffer) <= BufferCap
    BY <1>1, <1>5, <1>6, BusAssumption
  <2>2. \A h \in Subscribers : h # s => Len(channel'[h].buffer) <= BufferCap
    BY <1>6 DEF BusTypeOK
  <2> QED  BY <1>1, <1>6, <2>1, <2>2 DEF BusTypeOK
<1>10. OwnMessages'
  BY <1>1, <1>6 DEF OwnMessages
<1>11. ChannelBounds'
  BY <1>1, <1>2, <1>6, <1>7 DEF ChannelBounds
<1>12. Replayed' /\ DeliveredOnce'
  <2>1. \A n \in channel'[s].from..(channel'[s].next - 1) : n \in Taken(s)'
    <3> SUFFICES ASSUME NEW n \in channel'[s].from..(channel'[s].next - 1) PROVE n \in Taken(s)'
      OBVIOUS
    <3>1. n \in channel[s].from..m
      BY <1>2, <1>6
    <3>2. CASE n = m
      BY <1>8, <3>2
    <3>3. CASE n # m
      <4>1. n \in channel[s].from..(channel[s].next - 1) /\ channel[s].state # "new"
        BY <1>1, <1>2, <3>1, <3>3
      <4> QED  BY <1>8, <4>1 DEF Replayed
    <3> QED  BY <3>2, <3>3
  <2>2. Replayed'
    BY <1>6, <1>7, <2>1 DEF Replayed
  <2> QED  BY <1>7, <1>8, <2>2 DEF DeliveredOnce
<1>13. LiveArrives'
  BY <1>1, <1>6, <1>7, <1>8, UnderwayFrame DEF LiveArrives
<1>14. Origin'
  <2>1. \A h \in Subscribers : \A n \in Taken(h)' : h # s =>
          /\ n \in 1..nextSeq'
          /\ \/ channel'[h].from <= n /\ n < channel'[h].next /\ n < channel'[h].liveFrom
             \/ channel'[h].liveFrom <= n /\ ~Underway(h, n)'
    BY <1>1, <1>6, <1>7, UnderwayFrame DEF Origin
  <2>2. \A n \in Taken(s)' :
          /\ n \in 1..nextSeq'
          /\ \/ channel'[s].from <= n /\ n < channel'[s].next /\ n < channel'[s].liveFrom
             \/ channel'[s].liveFrom <= n /\ ~Underway(s, n)'
    BY <1>1, <1>2, <1>3, <1>6, <1>8, UnderwayFrame DEF Origin
  <2> QED  BY <2>1, <2>2 DEF Origin
<1> QED  BY <1>9, <1>10, <1>11, <1>12, <1>13, <1>14

\* A subscription ends: nothing moves, and what does not arrive any more is not asked for.
LEMMA EndIInv ==
  ASSUME BusIInv, NEW s \in Subscribers, Cancel(s) \/ Close(s)
  PROVE  BusIInv'
<1> USE DEF BusIInv
<1>1. /\ channel[s].state = "open" /\ nextSeq' = nextSeq /\ publishing' = publishing
      /\ received' = received /\ panicked' = panicked
  BY DEF Cancel, Close
<1>2. /\ channel' \in [Subscribers -> Channel]
      /\ \A h \in Subscribers : /\ channel'[h].state = "open" => channel[h].state = "open"
                                /\ channel'[h].state = "new" <=> channel[h].state = "new"
                                /\ channel'[h].buffer = channel[h].buffer
                                /\ channel'[h].from = channel[h].from
                                /\ channel'[h].liveFrom = channel[h].liveFrom
                                /\ channel'[h].next = channel[h].next
                                /\ channel'[h].dropped = channel[h].dropped
      /\ subs' \subseteq Subscribers
      /\ \A h \in Subscribers : h \in subs' <=> channel'[h].state = "open"
  <2>1. \/ Cancel(s) /\ channel' = [channel EXCEPT ![s] = [channel[s] EXCEPT !.cancelled = TRUE]]
        \/ Close(s) /\ channel' = [channel EXCEPT ![s] = [channel[s] EXCEPT !.state = "closed"]]
    BY DEF Cancel, Close
  <2>0. channel[s] \in Channel
    BY DeliveredSeq
  <2>2. PICK c \in Channel :
          /\ channel' = [channel EXCEPT ![s] = c]
          /\ c.buffer = channel[s].buffer /\ c.from = channel[s].from /\ c.next = channel[s].next
          /\ c.liveFrom = channel[s].liveFrom /\ c.dropped = channel[s].dropped
          /\ (Cancel(s) /\ c.state = "open") \/ (Close(s) /\ c.state = "closed")
    <3>1. CASE Cancel(s) /\ channel' = [channel EXCEPT ![s] = [channel[s] EXCEPT !.cancelled = TRUE]]
      <4> DEFINE d == [channel[s] EXCEPT !.cancelled = TRUE]
      <4>1. /\ d \in Channel /\ d.buffer = channel[s].buffer /\ d.state = channel[s].state
            /\ d.from = channel[s].from /\ d.liveFrom = channel[s].liveFrom
            /\ d.next = channel[s].next /\ d.dropped = channel[s].dropped
        BY <2>0, CancelUpdate
      <4>2. channel' = [channel EXCEPT ![s] = d]
        BY <3>1
      <4> HIDE DEF d
      <4>3. d.state = "open"
        BY <1>1, <4>1
      <4> QED  BY <3>1, <4>1, <4>2, <4>3
    <3>2. CASE Close(s) /\ channel' = [channel EXCEPT ![s] = [channel[s] EXCEPT !.state = "closed"]]
      <4> DEFINE d == [channel[s] EXCEPT !.state = "closed"]
      <4>1. /\ d \in Channel /\ d.buffer = channel[s].buffer /\ d.state = "closed"
            /\ d.from = channel[s].from /\ d.liveFrom = channel[s].liveFrom
            /\ d.next = channel[s].next /\ d.dropped = channel[s].dropped
        BY <2>0, CloseUpdate
      <4>2. channel' = [channel EXCEPT ![s] = d]
        BY <3>2
      <4> HIDE DEF d
      <4> QED  BY <3>2, <4>1, <4>2
    <3> QED  BY <2>1, <3>1, <3>2
  <2>3. /\ channel' \in [Subscribers -> Channel] /\ channel'[s] = c
        /\ \A h \in Subscribers : h # s => channel'[h] = channel[h]
    BY <2>2, ChannelUpdate
  <2>4. /\ subs' \subseteq Subscribers
        /\ \A h \in Subscribers : h \in subs' <=> channel'[h].state = "open"
    <3>1. CASE Cancel(s) /\ c.state = "open"
      BY <2>3, <3>1 DEF Cancel, BusTypeOK
    <3>2. CASE Close(s) /\ c.state = "closed"
      BY <2>3, <3>2 DEF Close, BusTypeOK
    <3> QED  BY <2>2, <3>1, <3>2
  <2> QED  BY <1>1, <2>2, <2>3, <2>4
<1>3. \A h \in Subscribers : Delivered(h)' = Delivered(h) /\ Taken(h)' = Taken(h)
  BY <1>1, <1>2, DeliveredFrame
<1>4. BusTypeOK'
  BY <1>1, <1>2 DEF BusTypeOK
<1>5. OwnMessages'
  BY <1>1, <1>2 DEF OwnMessages
<1>6. ChannelBounds' /\ Replayed' /\ DeliveredOnce'
  BY <1>1, <1>2, <1>3 DEF ChannelBounds, Replayed, DeliveredOnce
<1>7. LiveArrives' /\ Origin'
  BY <1>1, <1>2, <1>3, UnderwayFrame DEF LiveArrives, Origin
<1> QED  BY <1>4, <1>5, <1>6, <1>7

\* The consumer takes a message out of the channel: it has been delivered before.
LEMMA ReceiveIInv ==
  ASSUME BusIInv, NEW s \in Subscribers, Receive(s)
  PROVE  BusIInv'
<1> USE DEF BusIInv
<1>1. /\ channel[s].buffer # <<>> /\ nextSeq' = nextSeq /\ publishing' = publishing /\ subs' = subs
      /\ panicked' = panicked
      /\ received' = [received EXCEPT ![s] = Append(@, Head(channel[s].buffer))]
      /\ channel' = [channel EXCEPT ![s].buffer = Tail(@)]
  BY DEF Receive
<1>2. /\ Head(channel[s].buffer) \in Sequence /\ Tail(channel[s].buffer) \in Seq(Sequence)
      /\ Len(Tail(channel[s].buffer)) = Len(channel[s].buffer) - 1
      /\ Append(received[s], Head(channel[s].buffer)) \in Seq(Sequence)
      /\ Len(channel[s].buffer) \in Nat
  BY <1>1, DeliveredSeq, HeadTailProperties, AppendProperties, LenProperties
<1>3. /\ channel' \in [Subscribers -> Channel] /\ received' \in [Subscribers -> Seq(Sequence)]
      /\ \A h \in Subscribers : /\ channel'[h].state = channel[h].state
                                /\ channel'[h].from = channel[h].from
                                /\ channel'[h].liveFrom = channel[h].liveFrom
                                /\ channel'[h].next = channel[h].next
                                /\ channel'[h].dropped = channel[h].dropped
      /\ \A h \in Subscribers : h # s => channel'[h] = channel[h] /\ received'[h] = received[h]
      /\ channel'[s].buffer = Tail(channel[s].buffer)
      /\ received'[s] = Append(received[s], Head(channel[s].buffer))
  <2> DEFINE new == [channel[s] EXCEPT !.buffer = Tail(@)]
  <2>1. channel' = [channel EXCEPT ![s] = new]
    BY <1>1
  <2>2. /\ new \in Channel /\ new.state = channel[s].state /\ new.from = channel[s].from
        /\ new.liveFrom = channel[s].liveFrom /\ new.next = channel[s].next
        /\ new.dropped = channel[s].dropped /\ new.buffer = Tail(channel[s].buffer)
    <3>1. channel[s] \in Channel
      BY DeliveredSeq
    <3> QED  BY <1>2, <3>1, BufferUpdate
  <2> HIDE DEF new
  <2>3. /\ channel' \in [Subscribers -> Channel] /\ channel'[s] = new
        /\ \A h \in Subscribers : h # s => channel'[h] = channel[h]
    BY <2>1, <2>2, ChannelUpdate
  <2>4. /\ received' \in [Subscribers -> Seq(Sequence)]
        /\ received'[s] = Append(received[s], Head(channel[s].buffer))
        /\ \A h \in Subscribers : h # s => received'[h] = received[h]
    BY <1>1, <1>2 DEF BusTypeOK
  <2> QED  BY <2>2, <2>3, <2>4
<1>4. \A h \in Subscribers : Delivered(h)' = Delivered(h) /\ Taken(h)' = Taken(h)
  <2>1. Append(received[s], Head(channel[s].buffer)) \o Tail(channel[s].buffer)
          = received[s] \o channel[s].buffer
    BY <1>1, DeliveredSeq, TakeKeeps
  <2>2. Delivered(s)' = Delivered(s) /\ Taken(s)' = Taken(s)
    BY <1>3, <2>1 DEF Delivered, Taken
  <2> QED  BY <1>3, <2>2, DeliveredFrame
<1>5. BusTypeOK'
  <2>1. Len(channel'[s].buffer) <= BufferCap
    BY <1>2, <1>3, BusAssumption DEF BusTypeOK
  <2>2. \A h \in Subscribers : h # s => Len(channel'[h].buffer) <= BufferCap
    BY <1>3 DEF BusTypeOK
  <2> QED  BY <1>1, <1>3, <2>1, <2>2 DEF BusTypeOK
<1>6. OwnMessages'
  BY <1>1, <1>3 DEF OwnMessages
<1>7. ChannelBounds' /\ Replayed' /\ DeliveredOnce'
  BY <1>1, <1>3, <1>4 DEF ChannelBounds, Replayed, DeliveredOnce
<1>8. LiveArrives' /\ Origin'
  BY <1>1, <1>3, <1>4, UnderwayFrame DEF LiveArrives, Origin
<1> QED  BY <1>5, <1>6, <1>7, <1>8

-----------------------------------------------------------------------------
(***************************************************************************)
(* The theorems                                                            *)
(***************************************************************************)

\* Every step of the bus keeps the invariant.
LEMMA NextBusIInv == BusIInv /\ [BusNext]_busVars => BusIInv'
<1> SUFFICES ASSUME BusIInv, [BusNext]_busVars PROVE BusIInv'
  OBVIOUS
<1>1. ASSUME NEW p \in Publishers, Publish(p) PROVE BusIInv'
  BY <1>1, PublishIInv
<1>2. ASSUME NEW p \in Publishers, NEW s \in Subscribers, FanOut(p, s) PROVE BusIInv'
  BY <1>2, FanOutIInv
<1>3. ASSUME NEW s \in Subscribers, NEW from \in 1..MaxMessages, Subscribe(s, from) PROVE BusIInv'
  BY <1>3, SubscribeIInv
<1>4. ASSUME NEW s \in Subscribers, Replay(s) \/ Cancel(s) \/ Close(s) \/ Receive(s) PROVE BusIInv'
  BY <1>4, ReplayIInv, EndIInv, ReceiveIInv
<1>5. CASE UNCHANGED busVars
  <2>1. \A s \in Subscribers : Delivered(s)' = Delivered(s) /\ Taken(s)' = Taken(s)
    BY <1>5, DeliveredFrame DEF busVars
  <2>2. BusTypeOK' /\ OwnMessages'
    BY <1>5 DEF BusIInv, busVars, BusTypeOK, OwnMessages
  <2>3. ChannelBounds' /\ Replayed' /\ DeliveredOnce'
    BY <1>5, <2>1 DEF BusIInv, busVars, ChannelBounds, Replayed, DeliveredOnce
  <2>4. LiveArrives' /\ Origin'
    BY <1>5, <2>1, UnderwayFrame DEF BusIInv, busVars, LiveArrives, Origin
  <2> QED  BY <2>2, <2>3, <2>4 DEF BusIInv
<1> QED  BY <1>1, <1>2, <1>3, <1>4, <1>5 DEF BusNext

\* The variables of the bus keep their types; no channel holds more than its capacity (bus.go,
\* Publish: a full channel drops the message).
THEOREM BusTypeCorrect == BusSpec => []BusTypeOK
<1>1. BusIInv => BusTypeOK
  BY DEF BusIInv
<1> QED  BY <1>1, InitBusIInv, NextBusIInv, PTL DEF BusSpec

\* Whatever is published while a subscription is set up, and after, reaches it exactly once,
\* as history or live (bus.go, Publish and Subscribe).
THEOREM ExactlyOnce == BusSpec => []DeliveredExactlyOnce
<1>1. BusIInv => NothingMissed
  <2> SUFFICES ASSUME BusIInv, NEW s \in Subscribers, channel[s].state = "open", ~channel[s].dropped,
                      channel[s].next >= channel[s].liveFrom,
                      \A p \in Publishers : s \notin publishing[p].left
               PROVE  ToSet(Delivered(s))
                        = {m \in 1..nextSeq : m >= channel[s].from \/ m >= channel[s].liveFrom}
    BY DEF NothingMissed
  <2>1. \A m : ~Underway(s, m)
    BY DEF Underway
  <2>2. /\ channel[s].from \in Nat /\ channel[s].liveFrom \in Nat /\ channel[s].next \in Nat
        /\ nextSeq \in Nat
    BY DeliveredSeq, BusAssumption DEF BusIInv, Channel, BusTypeOK
  <2>3. \A m \in 1..nextSeq : m >= channel[s].liveFrom => m \in Taken(s)
    BY <2>1, <2>2 DEF BusIInv, LiveArrives
  <2>4. \A m \in 1..nextSeq : m >= channel[s].from /\ m < channel[s].liveFrom => m \in Taken(s)
    BY <2>2 DEF BusIInv, Replayed
  <2>5. \A m \in Taken(s) : m \in 1..nextSeq /\ (m >= channel[s].from \/ m >= channel[s].liveFrom)
    BY <2>2 DEF BusIInv, Origin
  <2> QED  BY <2>2, <2>3, <2>4, <2>5 DEF Taken
<1>2. BusIInv => DeliveredExactlyOnce
  BY <1>1 DEF BusIInv, DeliveredExactlyOnce
<1> QED  BY <1>2, InitBusIInv, NextBusIInv, PTL DEF BusSpec

(***************************************************************************)
(* The in-memory adapter.                                                  *)
(***************************************************************************)

\* A writer still has to send message m to subscription r.
Awaiting(r, m) == \E w \in TopicWriters : r \in ToSet(sending[w].left) /\ sending[w].message = m

Come(r) == ToSet(Arrived(r))

\* No two writers send the same message to a subscription, and no writer sends it twice.
SendsItsOwn ==
  \A w, v \in TopicWriters, r \in TopicReaders :
    /\ IsInjective(sending[w].left)
    /\ r \in ToSet(sending[w].left) =>
         /\ subscription[r].state # "none"
         /\ sending[w].message \in subscription[r].liveFrom..seqNum
    /\ r \in ToSet(sending[w].left) /\ r \in ToSet(sending[v].left) /\ w # v
         => sending[w].message # sending[v].message

\* What has arrived starts with the history asked for.
Begun ==
  \A r \in TopicReaders :
    IF subscription[r].state = "none"
    THEN taken[r] = <<>> /\ subscription[r].queue = <<>> /\ subscription[r].liveFrom = 0
    ELSE /\ subscription[r].from \in Nat \ {0} /\ subscription[r].liveFrom \in 1..seqNum + 1
         /\ \A i \in 1..(subscription[r].liveFrom - subscription[r].from) :
              i <= Len(Arrived(r)) /\ Arrived(r)[i] = subscription[r].from + i - 1

LiveComes ==
  \A r \in TopicReaders : \A m \in subscription[r].liveFrom..seqNum :
    subscription[r].state = "open" => m \in Come(r) \/ Awaiting(r, m)

ComesOnce ==
  \A r \in TopicReaders :
    /\ IsInjective(Arrived(r))
    /\ \A m \in Come(r) : m \in 1..seqNum /\ (m < subscription[r].liveFrom \/ ~Awaiting(r, m))

Served == SendsItsOwn /\ Begun /\ LiveComes /\ ComesOnce

\* What is sent is what an injective sequence loses with its head.
LEMMA TailLoses ==
  ASSUME NEW S, NEW s \in Seq(S), s # <<>>, IsInjective(s)
  PROVE  /\ Head(s) \in S /\ Tail(s) \in Seq(S) /\ Head(s) \in ToSet(s) /\ IsInjective(Tail(s))
         /\ ToSet(Tail(s)) = ToSet(s) \ {Head(s)}
<1>1. /\ Head(s) \in S /\ Tail(s) \in Seq(S) /\ Len(Tail(s)) = Len(s) - 1 /\ Head(s) = s[1]
      /\ \A i \in 1..Len(Tail(s)) : Tail(s)[i] = s[i + 1]
  BY HeadTailProperties
<1>2. /\ Len(s) \in Nat /\ Len(s) # 0 /\ DOMAIN s = 1..Len(s) /\ DOMAIN Tail(s) = 1..(Len(s) - 1)
  BY <1>1, LenProperties, EmptySeq
<1>3. IsInjective(Tail(s)) /\ Head(s) \in ToSet(s)
  BY <1>1, <1>2 DEF IsInjective, ToSet
<1>4. ToSet(Tail(s)) \subseteq ToSet(s) \ {Head(s)}
  BY <1>1, <1>2 DEF IsInjective, ToSet
<1>5. ASSUME NEW i \in 1..Len(s), s[i] # Head(s) PROVE s[i] \in ToSet(Tail(s))
  <2>1. i - 1 \in 1..(Len(s) - 1) /\ Tail(s)[i - 1] = s[(i - 1) + 1] /\ (i - 1) + 1 = i
    BY <1>1, <1>2, <1>5
  <2> QED  BY <1>2, <2>1 DEF ToSet
<1>6. ToSet(s) \ {Head(s)} \subseteq ToSet(Tail(s))
  BY <1>2, <1>5 DEF ToSet
<1> QED  BY <1>1, <1>3, <1>4, <1>6

\* Leaving the list takes one channel out of it.
LEMMA RemoveLoses ==
  ASSUME NEW S, NEW s \in Seq(S), IsInjective(s), NEW k \in 1..Len(s)
  PROVE  /\ RemoveAt(s, k) \in Seq(S) /\ IsInjective(RemoveAt(s, k))
         /\ ToSet(RemoveAt(s, k)) = ToSet(s) \ {s[k]}
<1> DEFINE t == RemoveAt(s, k)
<1>0. Len(s) \in Nat /\ DOMAIN s = 1..Len(s) /\ \A i \in 1..Len(s) : s[i] \in S
  BY LenProperties, ElementOfSeq
<1>1. /\ SubSeq(s, 1, k - 1) \in Seq(S) /\ Len(SubSeq(s, 1, k - 1)) = k - 1
      /\ \A i \in 1..(k - 1) : SubSeq(s, 1, k - 1)[i] = s[i]
  <2>1. 1 \in Int /\ k - 1 \in Int /\ \A i \in 1..(k - 1) : s[i] \in S
    BY <1>0
  <2> QED  BY <1>0, <2>1, SubSeqProperties
<1>2. /\ SubSeq(s, k + 1, Len(s)) \in Seq(S) /\ Len(SubSeq(s, k + 1, Len(s))) = Len(s) - k
      /\ \A i \in 1..(Len(s) - k) : SubSeq(s, k + 1, Len(s))[i] = s[k + i]
  <2>1. k + 1 \in Int /\ Len(s) \in Int /\ \A i \in (k + 1)..Len(s) : s[i] \in S
    BY <1>0
  <2>2. /\ SubSeq(s, k + 1, Len(s)) \in Seq(S)
        /\ Len(SubSeq(s, k + 1, Len(s))) = IF k + 1 <= Len(s) THEN Len(s) - (k + 1) + 1 ELSE 0
        /\ \A i \in 1..(Len(s) - (k + 1) + 1) : SubSeq(s, k + 1, Len(s))[i] = s[(k + 1) + i - 1]
    BY <2>1, SubSeqProperties
  <2>3. /\ Len(s) - (k + 1) + 1 = Len(s) - k
        /\ k + 1 <= Len(s) \/ Len(s) - k = 0
    <3>1. PICK n \in Nat : n = Len(s)
      BY <1>0
    <3>2. k \in 1..n
      BY <3>1
    <3>3. n - (k + 1) + 1 = n - k /\ (k + 1 <= n \/ n - k = 0)
      BY <3>2
    <3> QED  BY <3>1, <3>3
  <2>4. ASSUME NEW i \in 1..(Len(s) - k) PROVE SubSeq(s, k + 1, Len(s))[i] = s[k + i]
    <3>1. (k + 1) + i - 1 = k + i
      BY <1>0
    <3>2. SubSeq(s, k + 1, Len(s))[i] = s[(k + 1) + i - 1]
      BY <2>2, <2>3
    <3> QED  BY <3>1, <3>2
  <2> QED  BY <2>2, <2>3, <2>4
<1>3. /\ t \in Seq(S) /\ Len(t) = Len(s) - 1
      /\ \A i \in 1..(Len(s) - 1) : t[i] = IF i < k THEN s[i] ELSE s[i + 1]
  <2>1. /\ t \in Seq(S) /\ Len(t) = (k - 1) + (Len(s) - k)
        /\ \A i \in 1..((k - 1) + (Len(s) - k)) :
             t[i] = IF i <= k - 1 THEN SubSeq(s, 1, k - 1)[i]
                                  ELSE SubSeq(s, k + 1, Len(s))[i - (k - 1)]
    <3> DEFINE a == SubSeq(s, 1, k - 1)  b == SubSeq(s, k + 1, Len(s))
    <3>1. a \in Seq(S) /\ b \in Seq(S) /\ Len(a) = k - 1 /\ Len(b) = Len(s) - k /\ t = a \o b
      BY <1>1, <1>2 DEF RemoveAt
    <3> HIDE DEF a, b, t
    <3>2. /\ a \o b \in Seq(S) /\ Len(a \o b) = Len(a) + Len(b)
          /\ \A i \in 1..(Len(a) + Len(b)) :
               (a \o b)[i] = IF i <= Len(a) THEN a[i] ELSE b[i - Len(a)]
      BY <3>1, ConcatProperties
    <3> QED  BY <3>1, <3>2 DEF a, b
  <2>2. (k - 1) + (Len(s) - k) = Len(s) - 1
    BY <1>0
  <2>3. ASSUME NEW i \in 1..(Len(s) - 1) PROVE t[i] = IF i < k THEN s[i] ELSE s[i + 1]
    <3>1. CASE i < k
      BY <1>0, <1>1, <2>1, <2>2, <3>1
    <3>2. CASE ~(i < k)
      <4>1. i - (k - 1) \in 1..(Len(s) - k) /\ k + (i - (k - 1)) = i + 1 /\ ~(i <= k - 1)
        BY <1>0, <3>2
      <4> QED  BY <1>2, <2>1, <2>2, <3>2, <4>1
    <3> QED  BY <3>1, <3>2
  <2> QED  BY <2>1, <2>2, <2>3
<1> HIDE DEF t
<1>4. DOMAIN t = 1..(Len(s) - 1)
  BY <1>3, LenProperties
<1>5. IsInjective(t)
  <2>1. ASSUME NEW i \in 1..(Len(s) - 1), NEW j \in 1..(Len(s) - 1), t[i] = t[j] PROVE i = j
    <3> DEFINE a == IF i < k THEN i ELSE i + 1
               b == IF j < k THEN j ELSE j + 1
    <3>1. a \in 1..Len(s) /\ b \in 1..Len(s) /\ t[i] = s[a] /\ t[j] = s[b]
      BY <1>0, <1>3
    <3> HIDE DEF a, b
    <3>2. a = b
      BY <1>0, <2>1, <3>1 DEF IsInjective
    <3> QED  BY <1>0, <3>2 DEF a, b
  <2> QED  BY <1>4, <2>1 DEF IsInjective
<1>6. ToSet(t) \subseteq ToSet(s) \ {s[k]}
  BY <1>0, <1>3, <1>4 DEF IsInjective, ToSet
<1>7. ASSUME NEW i \in 1..Len(s), s[i] # s[k] PROVE s[i] \in ToSet(t)
  <2>1. CASE i < k
    <3>1. i \in 1..(Len(s) - 1) /\ t[i] = s[i]
      BY <1>0, <1>3, <2>1
    <3> QED  BY <1>4, <3>1 DEF ToSet
  <2>2. CASE i > k
    <3>1. i - 1 \in 1..(Len(s) - 1) /\ ~(i - 1 < k) /\ (i - 1) + 1 = i
      BY <1>0, <2>2
    <3>2. t[i - 1] = s[i]
      BY <1>3, <3>1
    <3> QED  BY <1>4, <3>1, <3>2 DEF ToSet
  <2> QED  BY <1>0, <1>7, <2>1, <2>2
<1>8. ToSet(s) \ {s[k]} \subseteq ToSet(t)
  BY <1>0, <1>7 DEF ToSet
<1> QED  BY <1>3, <1>5, <1>6, <1>8 DEF t

\* The history of a log is its messages from the first one asked for.
LEMMA HistoryIs ==
  ASSUME NEW from \in Nat \ {0}, NEW last \in Nat
  PROVE  /\ HistoryFrom(from, last) \in Seq(1..last)
         /\ Len(HistoryFrom(from, last)) = IF from <= last THEN last - from + 1 ELSE 0
         /\ \A i \in 1..(last - from + 1) : HistoryFrom(from, last)[i] = from + i - 1
<1> DEFINE log == [i \in 1..last |-> i]
<1>1. from \in Int /\ last \in Int /\ \A i \in from..last : i \in 1..last /\ log[i] = i
  OBVIOUS
<1>2. \A i \in 1..(last - from + 1) : from + i - 1 \in from..last
  OBVIOUS
<1>3. /\ SubSeq(log, from, last) \in Seq(1..last)
      /\ Len(SubSeq(log, from, last)) = IF from <= last THEN last - from + 1 ELSE 0
      /\ \A i \in 1..(last - from + 1) : SubSeq(log, from, last)[i] = log[from + i - 1]
  <2> HIDE DEF log
  <2> QED  BY <1>1, SubSeqProperties
<1>4. \A i \in 1..(last - from + 1) : log[from + i - 1] = from + i - 1
  BY <1>1, <1>2
<1> QED  BY <1>3, <1>4 DEF HistoryFrom

\* Being a prefix is agreeing place by place.
LEMMA PrefixIs ==
  ASSUME NEW S, NEW h \in Seq(S), NEW t \in Seq(S),
         \A i \in 1..Len(h) : i <= Len(t) /\ t[i] = h[i]
  PROVE  IsPrefix(h, t)
<1>1. /\ Len(h) \in Nat /\ Len(t) \in Nat /\ Len(h) <= Len(t)
      /\ \A i \in 1..Len(h) : h[i] \in S /\ t[i] \in S
  <2>1. Len(h) \in Nat /\ Len(t) \in Nat /\ \A i \in 1..Len(h) : h[i] \in S
    BY LenProperties, ElementOfSeq
  <2>2. CASE Len(h) = 0
    BY <2>1, <2>2
  <2>3. CASE Len(h) # 0
    <3>1. Len(h) \in 1..Len(h)
      BY <2>1, <2>3
    <3> QED  BY <2>1, <3>1
  <2> QED  BY <2>2, <2>3
<1>2. 1 \in Int /\ Len(h) \in Int
  BY <1>1
<1>3. /\ SubSeq(h, 1, Len(h)) \in Seq(S) /\ SubSeq(t, 1, Len(h)) \in Seq(S)
      /\ Len(SubSeq(h, 1, Len(h))) = Len(SubSeq(t, 1, Len(h)))
      /\ Len(SubSeq(h, 1, Len(h))) = Len(h)
      /\ \A i \in 1..Len(h) : SubSeq(h, 1, Len(h))[i] = h[i] /\ SubSeq(t, 1, Len(h))[i] = t[i]
  <2>1. \A s \in Seq(S) : (\A i \in 1..Len(h) : s[i] \in S) =>
           /\ SubSeq(s, 1, Len(h)) \in Seq(S) /\ Len(SubSeq(s, 1, Len(h))) = Len(h)
           /\ \A i \in 1..Len(h) : SubSeq(s, 1, Len(h))[i] = s[i]
    <3> SUFFICES ASSUME NEW s \in Seq(S), \A i \in 1..Len(h) : s[i] \in S
                 PROVE  /\ SubSeq(s, 1, Len(h)) \in Seq(S) /\ Len(SubSeq(s, 1, Len(h))) = Len(h)
                        /\ \A i \in 1..Len(h) : SubSeq(s, 1, Len(h))[i] = s[i]
      OBVIOUS
    <3>1. /\ SubSeq(s, 1, Len(h)) \in Seq(S)
          /\ Len(SubSeq(s, 1, Len(h))) = IF 1 <= Len(h) THEN Len(h) - 1 + 1 ELSE 0
          /\ \A i \in 1..(Len(h) - 1 + 1) : SubSeq(s, 1, Len(h))[i] = s[1 + i - 1]
      BY <1>2, SubSeqProperties
    <3> QED  BY <1>1, <3>1
  <2> QED  BY <1>1, <2>1
<1>4. \A i \in 1..Len(SubSeq(h, 1, Len(h))) : SubSeq(h, 1, Len(h))[i] = SubSeq(t, 1, Len(h))[i]
  BY <1>3
<1>5. SubSeq(h, 1, Len(h)) = SubSeq(t, 1, Len(h))
  BY <1>3, <1>4, SeqEqual
<1> QED  BY <1>1, <1>5 DEF IsPrefix

\* What has arrived is a sequence of messages of the topic.
LEMMA ArrivedIs ==
  ASSUME TopicTypeOK, NEW r \in TopicReaders
  PROVE  /\ subscription[r] \in Subscription /\ taken[r] \in Seq(1..MaxSeqNum)
         /\ subscription[r].queue \in Seq(1..MaxSeqNum) /\ Arrived(r) \in Seq(1..MaxSeqNum)
<1>1. subscription[r] \in Subscription /\ taken[r] \in Seq(1..MaxSeqNum)
  BY DEF TopicTypeOK
<1>2. subscription[r].queue \in Seq(1..MaxSeqNum)
  BY <1>1 DEF Subscription
<1> QED  BY <1>1, <1>2, ConcatProperties DEF Arrived

\* A step replaces the record of one subscription ...
LEMMA ReaderUpdate ==
  ASSUME TopicTypeOK, NEW r \in TopicReaders, NEW c \in Subscription,
         subscription' = [subscription EXCEPT ![r] = c]
  PROVE  /\ subscription' \in [TopicReaders -> Subscription] /\ subscription'[r] = c
         /\ \A q \in TopicReaders : q # r => subscription'[q] = subscription[q]
<1>1. subscription \in [TopicReaders -> Subscription]
  BY DEF TopicTypeOK
<1> HIDE DEF Subscription
<1> QED  BY <1>1

\* ... by one that is in another state or cancelled ...
LEMMA StateUpdate ==
  ASSUME NEW c \in Subscription, NEW s \in {"none", "open", "detached", "closed"}, NEW b \in BOOLEAN
  PROVE  LET d == [c EXCEPT !.state = s, !.cancelled = b]
         IN  /\ d \in Subscription /\ d.state = s /\ d.queue = c.queue /\ d.cap = c.cap
             /\ d.from = c.from /\ d.liveFrom = c.liveFrom
BY DEF Subscription

\* ... or holds other messages.
LEMMA QueueUpdate ==
  ASSUME NEW c \in Subscription, NEW m \in Seq(1..MaxSeqNum)
  PROVE  LET d == [c EXCEPT !.queue = m]
         IN  /\ d \in Subscription /\ d.state = c.state /\ d.queue = m /\ d.cap = c.cap
             /\ d.from = c.from /\ d.liveFrom = c.liveFrom
BY DEF Subscription

\* A step that sends nothing and lets nothing arrive leaves everything served.
LEMMA ServedFrame ==
  ASSUME Served, seqNum' = seqNum, sending' = sending,
         \A r \in TopicReaders :
           /\ Arrived(r)' = Arrived(r)
           /\ subscription'[r].from = subscription[r].from
           /\ subscription'[r].liveFrom = subscription[r].liveFrom
           /\ subscription'[r].state = "none" <=> subscription[r].state = "none"
           /\ subscription'[r].state = "open" => subscription[r].state = "open"
           /\ subscription[r].state = "none" =>
                taken'[r] = taken[r] /\ subscription'[r].queue = subscription[r].queue
  PROVE  Served'
<1>1. \A r, m : Awaiting(r, m)' <=> Awaiting(r, m)
  BY DEF Awaiting
<1>2. \A r \in TopicReaders : Come(r)' = Come(r)
  BY DEF Come
<1>3. SendsItsOwn'
  BY DEF Served, SendsItsOwn
<1>4. Begun'
  BY DEF Served, Begun
<1>5. LiveComes'
  BY <1>1, <1>2 DEF Served, LiveComes
<1>6. ComesOnce'
  BY <1>1, <1>2 DEF Served, ComesOnce
<1> QED  BY <1>3, <1>4, <1>5, <1>6 DEF Served

TopicIInv == TopicTypeOK /\ Served

\* Nothing is subscribed at the start.
LEMMA InitTopicIInv == TopicInit => TopicIInv
<1> SUFFICES ASSUME TopicInit PROVE TopicIInv
  OBVIOUS
<1>1. SubBufferSize \in Nat /\ MaxSeqNum \in Nat
  BY TopicAssumption
<1>2. Unsubscribed \in Subscription
  BY <1>1 DEF Unsubscribed, Subscription
<1>3. \A S : ToSet(<<>>) = {} /\ <<>> \in Seq(S) /\ IsInjective(<<>>) /\ Len(<<>>) = 0
  BY EmptySeq DEF ToSet, IsInjective
<1>4. TopicTypeOK
  <2>1. \A r \in TopicReaders : subscription[r] = Unsubscribed
    BY DEF TopicInit
  <2>2. Unsubscribed.queue = <<>> /\ Unsubscribed.state = "none" /\ Unsubscribed.cap \in Nat
    BY <1>1 DEF Unsubscribed
  <2>3. 0 \in 0..MaxSeqNum /\ [message |-> 0, left |-> <<>>] \in [message: 0..MaxSeqNum, left: Seq(TopicReaders)]
    BY <1>1, <1>3
  <2>4. \A r \in TopicReaders : /\ Len(subscription[r].queue) <= subscription[r].cap
                                /\ r \in ToSet(subList) <=> subscription[r].state = "open"
    BY <1>3, <2>1, <2>2 DEF TopicInit
  <2>5. /\ sending \in [TopicWriters -> [message: 0..MaxSeqNum, left: Seq(TopicReaders)]]
        /\ subscription \in [TopicReaders -> Subscription]
        /\ taken \in [TopicReaders -> Seq(1..MaxSeqNum)]
    BY <1>2, <1>3, <2>3 DEF TopicInit
  <2>6. /\ topicExists \in BOOLEAN /\ sendPanicked \in BOOLEAN /\ seqNum \in 0..MaxSeqNum
        /\ subList \in Seq(TopicReaders) /\ IsInjective(subList)
    BY <1>3, <2>3 DEF TopicInit
  <2> QED  BY <2>4, <2>5, <2>6 DEF TopicTypeOK
<1>5. \A r \in TopicReaders : Arrived(r) = <<>> /\ Come(r) = {}
  <2>1. \A r \in TopicReaders : taken[r] = <<>> /\ subscription[r].queue = <<>>
    BY DEF TopicInit, Unsubscribed
  <2>2. <<>> \o <<>> = <<>>
    BY <1>3, ConcatEmptySeq
  <2> QED  BY <1>3, <2>1, <2>2 DEF Arrived, Come
<1>6. SendsItsOwn /\ Begun
  BY <1>3 DEF TopicInit, SendsItsOwn, Begun, Unsubscribed
<1>7. LiveComes /\ ComesOnce
  BY <1>3, <1>5 DEF TopicInit, LiveComes, ComesOnce, Unsubscribed
<1> QED  BY <1>4, <1>6, <1>7 DEF TopicIInv, Served

\* Publishing: the message is everybody's to come who is in the list under the same lock.
LEMMA PublishTopicIInv ==
  ASSUME TopicIInv, NEW w \in TopicWriters, PublishToTopic(w)
  PROVE  TopicIInv'
<1>0. PICK m \in Nat : m = seqNum + 1
  BY DEF TopicIInv, TopicTypeOK
<1>1. /\ sending[w].left = <<>> /\ seqNum' = m /\ subList' = subList /\ subscription' = subscription
      /\ taken' = taken /\ topicExists' = topicExists /\ sendPanicked' = sendPanicked
      /\ sending' = [sending EXCEPT ![w] = [message |-> m, left |-> subList]]
      /\ seqNum < MaxSeqNum
  BY <1>0 DEF PublishToTopic
<1>2. /\ seqNum \in Nat /\ MaxSeqNum \in Nat /\ m \in 1..MaxSeqNum
      /\ subList \in Seq(TopicReaders) /\ IsInjective(subList)
      /\ \A r \in TopicReaders : r \in ToSet(subList) <=> subscription[r].state = "open"
  BY <1>0, <1>1, TopicAssumption DEF TopicIInv, TopicTypeOK
<1>3. /\ sending' \in [TopicWriters -> [message: 0..MaxSeqNum, left: Seq(TopicReaders)]]
      /\ sending'[w].message = m /\ sending'[w].left = subList
      /\ \A v \in TopicWriters : v # w => sending'[v] = sending[v]
  BY <1>1, <1>2 DEF TopicIInv, TopicTypeOK
<1>4. TopicTypeOK'
  BY <1>1, <1>2, <1>3 DEF TopicIInv, TopicTypeOK
<1>5. ToSet(sending[w].left) = {}
  BY <1>1 DEF ToSet
<1>6. \A r \in TopicReaders : Arrived(r)' = Arrived(r) /\ Come(r)' = Come(r)
  BY <1>1 DEF Arrived, Come
<1>7. SendsItsOwn'
  <2>1. \A r \in TopicReaders : r \in ToSet(subList) =>
          subscription[r].state # "none" /\ m \in subscription[r].liveFrom..m
    BY <1>0, <1>2 DEF TopicIInv, Served, Begun
  <2>2. \A v \in TopicWriters, r \in TopicReaders : v # w /\ r \in ToSet(sending[v].left) =>
          sending[v].message \in subscription[r].liveFrom..m /\ sending[v].message # m
    BY <1>0, <1>2 DEF TopicIInv, Served, SendsItsOwn, Begun
  <2> QED  BY <1>1, <1>2, <1>3, <2>1, <2>2 DEF TopicIInv, Served, SendsItsOwn
<1>8. /\ \A r \in TopicReaders, n \in 1..seqNum : Awaiting(r, n)' <=> Awaiting(r, n)
      /\ \A r \in TopicReaders : r \in ToSet(subList) => Awaiting(r, m)'
  <2>1. ASSUME NEW r \in TopicReaders, NEW n \in 1..seqNum PROVE Awaiting(r, n)' <=> Awaiting(r, n)
    <3>1. n # m
      BY <1>0, <1>2
    <3> QED  BY <1>3, <1>5, <3>1 DEF Awaiting
  <2> QED  BY <1>3, <2>1 DEF Awaiting
<1>9. Begun'
  <2>1. \A r \in TopicReaders : subscription[r].liveFrom \in 1..seqNum + 1
                                  => subscription[r].liveFrom \in 1..m + 1
    BY <1>0, <1>2
  <2> QED  BY <1>1, <1>6, <2>1 DEF TopicIInv, Served, Begun
<1>10. LiveComes'
  <2> SUFFICES ASSUME NEW r \in TopicReaders, NEW n \in subscription[r].liveFrom..m,
                      subscription[r].state = "open"
               PROVE  n \in Come(r) \/ Awaiting(r, n)'
    BY <1>1, <1>6 DEF LiveComes
  <2>1. CASE n = m
    <3>1. r \in ToSet(subList)
      BY <1>2
    <3> QED  BY <1>8, <2>1, <3>1
  <2>2. CASE n # m
    <3>1. n \in subscription[r].liveFrom..seqNum /\ n \in 1..seqNum
      BY <1>0, <1>2, <2>2 DEF TopicIInv, Served, Begun
    <3> QED  BY <1>8, <3>1 DEF TopicIInv, Served, LiveComes
  <2> QED  BY <2>1, <2>2
<1>11. ComesOnce'
  <2> SUFFICES ASSUME NEW r \in TopicReaders
               PROVE  /\ IsInjective(Arrived(r))
                      /\ \A n \in Come(r) :
                           n \in 1..m /\ (n < subscription[r].liveFrom \/ ~Awaiting(r, n)')
    BY <1>1, <1>6 DEF ComesOnce
  <2>1. \A n \in 1..seqNum : n \in 1..m
    BY <1>0, <1>2
  <2> QED  BY <1>8, <2>1 DEF TopicIInv, Served, ComesOnce
<1> QED  BY <1>4, <1>7, <1>9, <1>10, <1>11 DEF TopicIInv, Served

\* Sending: what was still to come arrives, once.
LEMMA SendTopicIInv ==
  ASSUME TopicIInv, NEW w \in TopicWriters, SendDelivery(w)
  PROVE  TopicIInv'
<1>0. sending[w] \in [message: 0..MaxSeqNum, left: Seq(TopicReaders)] /\ sending[w].left # <<>>
  BY DEF TopicIInv, TopicTypeOK, SendDelivery
<1>9. PICK r \in TopicReaders, m \in 0..MaxSeqNum :
        r = Head(sending[w].left) /\ m = sending[w].message
  BY <1>0, HeadTailProperties
<1>1. /\ sending[w].left # <<>> /\ seqNum' = seqNum /\ subList' = subList /\ taken' = taken
      /\ topicExists' = topicExists
  BY DEF SendDelivery
<1>2. /\ sending[w].left \in Seq(TopicReaders) /\ IsInjective(sending[w].left)
  BY <1>0, <1>9 DEF TopicIInv, Served, SendsItsOwn
<1>3. /\ Tail(sending[w].left) \in Seq(TopicReaders)
      /\ r \in ToSet(sending[w].left) /\ IsInjective(Tail(sending[w].left))
      /\ ToSet(Tail(sending[w].left)) = ToSet(sending[w].left) \ {r}
  BY <1>1, <1>2, <1>9, TailLoses
<1>4. CASE sendPanicked' = TRUE /\ UNCHANGED <<sending, subscription>>
  <2>1. \A q \in TopicReaders : Arrived(q)' = Arrived(q)
    BY <1>1, <1>4 DEF Arrived
  <2>2. TopicTypeOK'
    BY <1>1, <1>4 DEF TopicIInv, TopicTypeOK
  <2>3. Served'
    BY <1>1, <1>4, <2>1, ServedFrame DEF TopicIInv
  <2> QED  BY <2>2, <2>3 DEF TopicIInv
<1>5. CASE /\ Len(subscription[r].queue) < subscription[r].cap
           /\ subscription' = [subscription EXCEPT ![r].queue = Append(@, m)]
           /\ sending' = [sending EXCEPT ![w].left = Tail(@)]
           /\ sendPanicked' = sendPanicked
  <2> DEFINE q1 == Append(subscription[r].queue, m)
             new == [subscription[r] EXCEPT !.queue = q1]
  <2>1. /\ seqNum \in Nat /\ MaxSeqNum \in Nat /\ seqNum <= MaxSeqNum
        /\ subscription[r] \in Subscription /\ taken[r] \in Seq(1..MaxSeqNum)
        /\ subscription[r].queue \in Seq(1..MaxSeqNum) /\ Arrived(r) \in Seq(1..MaxSeqNum)
    BY <1>3, ArrivedIs, TopicAssumption DEF TopicIInv, TopicTypeOK
  <2>2. /\ subscription[r].state # "none" /\ subscription[r].liveFrom \in 1..seqNum + 1
        /\ m \in subscription[r].liveFrom..seqNum /\ m \in 1..seqNum /\ m \in 1..MaxSeqNum
    <3>1. subscription[r].state # "none" /\ m \in subscription[r].liveFrom..seqNum
      BY <1>3, <1>9 DEF TopicIInv, Served, SendsItsOwn
    <3>2. subscription[r].liveFrom \in 1..seqNum + 1
      BY <1>3, <3>1 DEF TopicIInv, Served, Begun
    <3> QED  BY <2>1, <3>1, <3>2
  <2>3. m \notin Come(r)
    <3>1. Awaiting(r, m)
      BY <1>3, <1>9 DEF Awaiting
    <3>2. ~(m < subscription[r].liveFrom)
      BY <2>1, <2>2
    <3> QED  BY <1>3, <3>1, <3>2 DEF TopicIInv, Served, ComesOnce
  <2>4. /\ q1 \in Seq(1..MaxSeqNum) /\ Len(q1) = Len(subscription[r].queue) + 1
        /\ Len(subscription[r].queue) \in Nat
    BY <2>1, <2>2, AppendProperties, LenProperties
  <2>5. /\ new \in Subscription /\ new.state = subscription[r].state /\ new.queue = q1
        /\ new.cap = subscription[r].cap /\ new.from = subscription[r].from
        /\ new.liveFrom = subscription[r].liveFrom
    BY <2>1, <2>4, QueueUpdate
  <2>6. subscription' = [subscription EXCEPT ![r] = new]
    BY <1>5
  <2> HIDE DEF new
  <2>7. /\ subscription' \in [TopicReaders -> Subscription] /\ subscription'[r] = new
        /\ \A q \in TopicReaders : q # r => subscription'[q] = subscription[q]
    BY <1>3, <2>5, <2>6, ReaderUpdate DEF TopicIInv
  <2>8. /\ sending' \in [TopicWriters -> [message: 0..MaxSeqNum, left: Seq(TopicReaders)]]
        /\ sending'[w].message = m /\ sending'[w].left = Tail(sending[w].left)
        /\ \A v \in TopicWriters : v # w => sending'[v] = sending[v]
    BY <1>3, <1>5, <1>9 DEF TopicIInv, TopicTypeOK
  <2>9. /\ Arrived(r)' = Append(Arrived(r), m)
        /\ \A q \in TopicReaders : q # r => Arrived(q)' = Arrived(q) /\ Come(q)' = Come(q)
    <3>0. taken[r] \o Append(subscription[r].queue, m) = Append(taken[r] \o subscription[r].queue, m)
      <4> DEFINE S == 1..MaxSeqNum  a == taken[r]  b == subscription[r].queue
      <4>1. a \in Seq(S) /\ b \in Seq(S) /\ m \in S
        BY <2>1, <2>2
      <4> HIDE DEF S, a, b
      <4>2. a \o Append(b, m) = Append(a \o b, m)
        BY <4>1, PutIsAppend
      <4> QED  BY <4>2 DEF a, b
    <3>1. taken[r] \o q1 = Append(taken[r] \o subscription[r].queue, m)
      BY <3>0
    <3>2. Arrived(r)' = Append(Arrived(r), m)
      BY <1>1, <2>5, <2>7, <3>1 DEF Arrived
    <3>3. \A q \in TopicReaders : q # r => Arrived(q)' = Arrived(q)
      BY <1>1, <2>7 DEF Arrived
    <3> QED  BY <3>2, <3>3 DEF Come
  <2>10. IsInjective(Arrived(r)') /\ Come(r)' = Come(r) \cup {m}
    BY <1>3, <2>1, <2>2, <2>3, <2>9, FreshAppend DEF Come, TopicIInv, Served, ComesOnce
  <2>11. /\ \A i \in 1..Len(Arrived(r)) : Arrived(r)'[i] = Arrived(r)[i]
         /\ Len(Arrived(r)') = Len(Arrived(r)) + 1 /\ Len(Arrived(r)) \in Nat
    BY <2>1, <2>2, <2>9, AppendProperties, LenProperties
  <2>12. TopicTypeOK'
    <3>1. \A q \in TopicReaders :
            /\ Len(subscription'[q].queue) <= subscription'[q].cap
            /\ q \in ToSet(subList') <=> subscription'[q].state = "open"
      <4>1. Len(q1) <= subscription[r].cap
        BY <1>5, <2>1, <2>4 DEF Subscription
      <4> QED  BY <1>1, <2>5, <2>7, <4>1 DEF TopicIInv, TopicTypeOK
    <3> QED  BY <1>1, <1>5, <2>7, <2>8, <3>1 DEF TopicIInv, TopicTypeOK
  <2>13. /\ \A q \in TopicReaders, n \in Int : q # r \/ n # m
              => (Awaiting(q, n)' <=> Awaiting(q, n))
         /\ ~Awaiting(r, m)'
    <3>1. \A q \in TopicReaders, n \in Int : q # r \/ n # m
              => (Awaiting(q, n)' <=> Awaiting(q, n))
      BY <1>3, <1>9, <2>8 DEF Awaiting
    <3>2. \A v \in TopicWriters : v # w /\ r \in ToSet(sending[v].left) => sending[v].message # m
      BY <1>3, <1>9 DEF TopicIInv, Served, SendsItsOwn
    <3> QED  BY <1>3, <1>9, <2>8, <3>1, <3>2 DEF Awaiting
  <2> HIDE DEF q1
  <2>14. SendsItsOwn'
    <3>1. \A v \in TopicWriters : /\ sending'[v].message = sending[v].message
                                  /\ ToSet(sending'[v].left) \subseteq ToSet(sending[v].left)
      BY <1>3, <1>9, <2>8
    <3>2. \A q \in TopicReaders : /\ subscription'[q].state = subscription[q].state
                                  /\ subscription'[q].liveFrom = subscription[q].liveFrom
      BY <2>5, <2>7
    <3>3. \A v \in TopicWriters : IsInjective(sending'[v].left)
      BY <1>3, <2>8 DEF TopicIInv, Served, SendsItsOwn
    <3> QED  BY <1>1, <3>1, <3>2, <3>3 DEF TopicIInv, Served, SendsItsOwn
  <2>15. Begun'
    <3>1. ASSUME NEW i \in 1..(subscription[r].liveFrom - subscription[r].from)
          PROVE  i <= Len(Arrived(r)') /\ Arrived(r)'[i] = subscription[r].from + i - 1
      <4>1. i <= Len(Arrived(r)) /\ Arrived(r)[i] = subscription[r].from + i - 1 /\ i \in Nat /\ i >= 1
        BY <1>3, <2>2, <3>1 DEF TopicIInv, Served, Begun
      <4>2. i \in 1..Len(Arrived(r))
        BY <2>11, <4>1
      <4> QED  BY <2>11, <4>1, <4>2
    <3>2. subscription[r].from \in Nat \ {0}
      BY <1>3, <2>2 DEF TopicIInv, Served, Begun
    <3>3. ASSUME NEW q \in TopicReaders, q # r
          PROVE  /\ subscription'[q] = subscription[q] /\ Arrived(q)' = Arrived(q)
                 /\ taken'[q] = taken[q] /\ seqNum' = seqNum
      BY <1>1, <2>7, <2>9, <3>3
    <3> DEFINE B(q) == IF subscription[q].state = "none"
                       THEN /\ taken[q] = <<>> /\ subscription[q].queue = <<>>
                            /\ subscription[q].liveFrom = 0
                       ELSE /\ subscription[q].from \in Nat \ {0}
                            /\ subscription[q].liveFrom \in 1..seqNum + 1
                            /\ \A i \in 1..(subscription[q].liveFrom - subscription[q].from) :
                                 i <= Len(Arrived(q)) /\ Arrived(q)[i] = subscription[q].from + i - 1
    <3>4. B(r)'
      BY <1>1, <2>2, <2>5, <2>7, <3>1, <3>2
    <3>5. ASSUME NEW q \in TopicReaders, q # r PROVE B(q)'
      <4>1. B(q)
        BY DEF TopicIInv, Served, Begun
      <4> QED  BY <3>3, <3>5, <4>1
    <3>6. \A q \in TopicReaders : B(q)'
      BY <3>4, <3>5
    <3> QED  BY <3>6 DEF Begun
  <2>16. LiveComes'
    <3> SUFFICES ASSUME NEW q \in TopicReaders, NEW n \in subscription[q].liveFrom..seqNum,
                        subscription[q].state = "open"
                 PROVE  n \in Come(q)' \/ Awaiting(q, n)'
      BY <1>1, <2>5, <2>7 DEF LiveComes
    <3>1. n \in Come(q) \/ Awaiting(q, n)
      BY DEF TopicIInv, Served, LiveComes
    <3>2. n \in Int
      OBVIOUS
    <3> QED  BY <2>9, <2>10, <2>13, <3>1, <3>2
  <2>17. ComesOnce'
    <3>1. ASSUME NEW q \in TopicReaders, NEW n \in Come(q)'
          PROVE  n \in 1..seqNum /\ (n < subscription'[q].liveFrom \/ ~Awaiting(q, n)')
      <4>1. subscription'[q].liveFrom = subscription[q].liveFrom
        BY <2>5, <2>7
      <4>2. CASE q = r /\ n = m
        BY <2>2, <2>13, <4>2
      <4>3. CASE ~(q = r /\ n = m)
        <5>1. n \in Come(q)
          BY <2>9, <2>10, <3>1, <4>3
        <5>2. n \in 1..seqNum /\ (n < subscription[q].liveFrom \/ ~Awaiting(q, n))
          BY <5>1 DEF TopicIInv, Served, ComesOnce
        <5> QED  BY <2>13, <4>1, <4>3, <5>2
      <4> QED  BY <4>2, <4>3
    <3>2. \A q \in TopicReaders : IsInjective(Arrived(q)')
      BY <2>9, <2>10 DEF TopicIInv, Served, ComesOnce
    <3> QED  BY <1>1, <3>1, <3>2 DEF ComesOnce
  <2> QED  BY <2>12, <2>14, <2>15, <2>16, <2>17 DEF TopicIInv, Served
<1> QED  BY <1>4, <1>5, <1>9 DEF SendDelivery

\* Subscribing: the history is in the channel before the channel is in the list.
LEMMA SubscribeTopicIInv ==
  ASSUME TopicIInv, NEW r \in TopicReaders, NEW from \in 1..(MaxSeqNum + 1), SubscribeFrom(r, from)
  PROVE  TopicIInv'
<1> DEFINE h == backfill(from)
           new == [Unsubscribed EXCEPT !.state = "open", !.cap = bufNeeded(h), !.queue = h,
                                       !.from = from, !.liveFrom = seqNum + 1]
<1>1. /\ subscription[r].state = "none" /\ seqNum' = seqNum /\ sending' = sending /\ taken' = taken
      /\ topicExists' = topicExists /\ sendPanicked' = sendPanicked
      /\ subList' = Append(subList, r) /\ subscription' = [subscription EXCEPT ![r] = new]
  BY DEF SubscribeFrom
<1>2. /\ seqNum \in Nat /\ MaxSeqNum \in Nat /\ seqNum <= MaxSeqNum /\ SubBufferSize \in Nat
      /\ from \in Nat \ {0} /\ seqNum + 1 \in 0..MaxSeqNum + 1 /\ from \in 0..MaxSeqNum + 1
  BY TopicAssumption DEF TopicIInv, TopicTypeOK
<1>3. /\ h \in Seq(1..seqNum) /\ h \in Seq(1..MaxSeqNum) /\ Len(h) \in Nat /\ DOMAIN h = 1..Len(h)
      /\ Len(h) = IF from <= seqNum THEN seqNum - from + 1 ELSE 0
      /\ \A i \in 1..(seqNum - from + 1) : h[i] = from + i - 1
  <2>1. /\ h \in Seq(1..seqNum)
        /\ Len(h) = IF from <= seqNum THEN seqNum - from + 1 ELSE 0
        /\ \A i \in 1..(seqNum - from + 1) : h[i] = from + i - 1
    BY <1>2, HistoryIs DEF backfill
  <2>2. 1..seqNum \subseteq 1..MaxSeqNum
    BY <1>2
  <2> HIDE DEF h
  <2> QED  BY <2>1, <2>2, SeqMonotonic, LenProperties
<1>4. bufNeeded(h) \in Nat /\ Len(h) <= bufNeeded(h)
  <2> HIDE DEF h
  <2> QED  BY <1>2, <1>3 DEF bufNeeded
<1>5. /\ new \in Subscription /\ new.state = "open" /\ new.queue = h /\ new.cap = bufNeeded(h)
      /\ new.from = from /\ new.liveFrom = seqNum + 1
  <2> DEFINE b == bufNeeded(h)
  <2> HIDE DEF h, b
  <2> QED  BY <1>2, <1>3, <1>4 DEF Unsubscribed, Subscription, b
<1> HIDE DEF new, h
<1>6. /\ subscription' \in [TopicReaders -> Subscription] /\ subscription'[r] = new
      /\ \A q \in TopicReaders : q # r => subscription'[q] = subscription[q]
  BY <1>1, <1>5, ReaderUpdate DEF TopicIInv
<1>7. /\ subList' \in Seq(TopicReaders) /\ IsInjective(subList')
      /\ ToSet(subList') = ToSet(subList) \cup {r}
  <2>1. subList \in Seq(TopicReaders) /\ IsInjective(subList) /\ r \notin ToSet(subList)
    BY <1>1 DEF TopicIInv, TopicTypeOK
  <2> QED  BY <1>1, <2>1, FreshAppend, AppendProperties
<1>8. TopicTypeOK'
  <2>1. \A q \in TopicReaders :
          /\ Len(subscription'[q].queue) <= subscription'[q].cap
          /\ q \in ToSet(subList') <=> subscription'[q].state = "open"
    BY <1>4, <1>5, <1>6, <1>7 DEF TopicIInv, TopicTypeOK
  <2> QED  BY <1>1, <1>6, <1>7, <2>1 DEF TopicIInv, TopicTypeOK
<1>9. /\ Arrived(r)' = h
      /\ \A q \in TopicReaders : q # r => Arrived(q)' = Arrived(q) /\ Come(q)' = Come(q)
  <2>1. taken'[r] = <<>>
    BY <1>1 DEF TopicIInv, Served, Begun
  <2>2. <<>> \o h = h
    BY <1>3, ConcatEmptySeq
  <2>3. Arrived(r)' = h
    BY <1>5, <1>6, <2>1, <2>2 DEF Arrived
  <2> QED  BY <1>1, <1>6, <2>3 DEF Arrived, Come
<1>10. IsInjective(h) /\ \A m \in ToSet(h) : m \in 1..seqNum
  <2>1. \A i \in 1..Len(h) : i \in 1..(seqNum - from + 1) /\ h[i] \in 1..seqNum
    BY <1>2, <1>3, ElementOfSeq
  <2>2. \A i \in 1..Len(h) : h[i] = from + i - 1
    BY <1>3, <2>1
  <2>3. IsInjective(h)
    BY <1>2, <1>3, <2>2 DEF IsInjective
  <2> QED  BY <1>3, <2>1, <2>3 DEF ToSet
<1>11. \A q \in TopicReaders : \A n : Awaiting(q, n)' <=> Awaiting(q, n)
  BY <1>1 DEF Awaiting
<1>12. SendsItsOwn'
  <2>1. \A w \in TopicWriters : r \notin ToSet(sending[w].left)
    BY <1>1 DEF TopicIInv, Served, SendsItsOwn
  <2> QED  BY <1>1, <1>6, <2>1 DEF TopicIInv, Served, SendsItsOwn
<1>13. Begun'
  <2>1. ASSUME NEW i \in 1..(seqNum + 1 - from)
        PROVE  i <= Len(h) /\ h[i] = from + i - 1
    <3>1. i \in 1..(seqNum - from + 1) /\ from <= seqNum
      BY <1>2, <2>1
    <3> QED  BY <1>2, <1>3, <3>1
  <2>2. seqNum + 1 \in 1..(seqNum + 1)
    BY <1>2
  <2>3. ASSUME NEW q \in TopicReaders, q # r
        PROVE  /\ subscription'[q] = subscription[q] /\ Arrived(q)' = Arrived(q)
               /\ taken'[q] = taken[q] /\ seqNum' = seqNum
    BY <1>1, <1>6, <1>9, <2>3
  <2> DEFINE B(q) == IF subscription[q].state = "none"
                     THEN /\ taken[q] = <<>> /\ subscription[q].queue = <<>>
                          /\ subscription[q].liveFrom = 0
                     ELSE /\ subscription[q].from \in Nat \ {0}
                          /\ subscription[q].liveFrom \in 1..seqNum + 1
                          /\ \A i \in 1..(subscription[q].liveFrom - subscription[q].from) :
                               i <= Len(Arrived(q)) /\ Arrived(q)[i] = subscription[q].from + i - 1
  <2>4. B(r)'
    BY <1>1, <1>2, <1>5, <1>6, <1>9, <2>1, <2>2
  <2>5. ASSUME NEW q \in TopicReaders, q # r PROVE B(q)'
    <3>1. B(q)
      BY DEF TopicIInv, Served, Begun
    <3> QED  BY <2>3, <2>5, <3>1
  <2>6. \A q \in TopicReaders : B(q)'
    BY <2>4, <2>5
  <2> QED  BY <2>6 DEF Begun
<1>14. LiveComes'
  <2> SUFFICES ASSUME NEW q \in TopicReaders, NEW n \in subscription'[q].liveFrom..seqNum,
                      subscription'[q].state = "open"
               PROVE  n \in Come(q)' \/ Awaiting(q, n)'
    BY <1>1 DEF LiveComes
  <2>1. q # r
    BY <1>2, <1>5, <1>6
  <2> QED  BY <1>6, <1>9, <1>11, <2>1 DEF TopicIInv, Served, LiveComes
<1>15. ComesOnce'
  <2>1. \A m \in ToSet(h) : m \in 1..seqNum /\ m < seqNum + 1
    BY <1>2, <1>10
  <2>2. Come(r)' = ToSet(h)
    BY <1>9 DEF Come
  <2> QED  BY <1>1, <1>5, <1>6, <1>9, <1>10, <1>11, <2>1, <2>2 DEF TopicIInv, Served, ComesOnce
<1> QED  BY <1>8, <1>12, <1>13, <1>14, <1>15 DEF TopicIInv, Served

\* The end of a subscription: its context, its place in the list, its channel.
LEMMA EndTopicIInv ==
  ASSUME TopicIInv, NEW r \in TopicReaders, CancelContext(r) \/ Detach(r) \/ CloseChannel(r)
  PROVE  TopicIInv'
<1>1. /\ seqNum' = seqNum /\ sending' = sending /\ taken' = taken
      /\ topicExists' = topicExists /\ sendPanicked' = sendPanicked
      /\ subscription[r] \in Subscription
  BY ArrivedIs DEF CancelContext, Detach, CloseChannel, TopicIInv
<1>2. PICK s \in {"open", "detached", "closed"}, b \in BOOLEAN :
        /\ subscription' = [subscription EXCEPT ![r] = [subscription[r] EXCEPT !.state = s, !.cancelled = b]]
        /\ subscription[r].state # "none" /\ (s = "open" => subscription[r].state = "open")
        /\ \/ /\ s = "open" /\ subList' = subList
           \/ /\ s = "closed" /\ subscription[r].state = "detached" /\ subList' = subList
           \/ /\ s = "detached" /\ subscription[r].state = "open"
              /\ \E i \in 1..Len(subList) : subList[i] = r /\ subList' = RemoveAt(subList, i)
  <2>1. CASE CancelContext(r)
    <3>1. [subscription[r] EXCEPT !.cancelled = TRUE]
            = [subscription[r] EXCEPT !.state = "open", !.cancelled = TRUE]
      BY <1>1, <2>1 DEF CancelContext, Subscription
    <3>2. subscription' = [subscription EXCEPT ![r] = [subscription[r] EXCEPT !.cancelled = TRUE]]
      BY <2>1 DEF CancelContext
    <3> QED  BY <2>1, <3>1, <3>2 DEF CancelContext
  <2>2. CASE Detach(r)
    <3>1. [subscription[r] EXCEPT !.state = "detached"]
            = [subscription[r] EXCEPT !.state = "detached", !.cancelled = TRUE]
      BY <1>1, <2>2 DEF Detach, Subscription
    <3>2. subscription' = [subscription EXCEPT ![r] = [subscription[r] EXCEPT !.state = "detached"]]
      BY <2>2 DEF Detach
    <3> QED  BY <2>2, <3>1, <3>2 DEF Detach
  <2>3. CASE CloseChannel(r)
    <3>1. /\ subscription[r].cancelled \in BOOLEAN
          /\ [subscription[r] EXCEPT !.state = "closed"]
            = [subscription[r] EXCEPT !.state = "closed", !.cancelled = subscription[r].cancelled]
      BY <1>1, <2>3 DEF CloseChannel, Subscription
    <3>2. subscription' = [subscription EXCEPT ![r] = [subscription[r] EXCEPT !.state = "closed"]]
      BY <2>3 DEF CloseChannel
    <3> QED  BY <2>3, <3>1, <3>2 DEF CloseChannel
  <2> QED  BY <2>1, <2>2, <2>3
<1> DEFINE new == [subscription[r] EXCEPT !.state = s, !.cancelled = b]
<1>3. /\ new \in Subscription /\ new.state = s /\ new.queue = subscription[r].queue
      /\ new.cap = subscription[r].cap /\ new.from = subscription[r].from
      /\ new.liveFrom = subscription[r].liveFrom
  <2>1. s \in {"none", "open", "detached", "closed"} /\ b \in BOOLEAN
    BY <1>2
  <2> QED  BY <1>1, <2>1 DEF Subscription
<1> HIDE DEF new
<1>4. /\ subscription' \in [TopicReaders -> Subscription] /\ subscription'[r] = new
      /\ \A q \in TopicReaders : q # r => subscription'[q] = subscription[q]
  BY <1>2, <1>3, ReaderUpdate DEF TopicIInv, new
<1>5. /\ subList' \in Seq(TopicReaders) /\ IsInjective(subList')
      /\ \A q \in TopicReaders : q \in ToSet(subList') <=> subscription'[q].state = "open"
  <2>1. /\ subList \in Seq(TopicReaders) /\ IsInjective(subList)
        /\ \A q \in TopicReaders : q \in ToSet(subList) <=> subscription[q].state = "open"
    BY DEF TopicIInv, TopicTypeOK
  <2>2. CASE s # "detached"
    <3>1. subList' = subList /\ \A q \in TopicReaders :
            subscription'[q].state = "open" <=> subscription[q].state = "open"
      BY <1>2, <1>3, <1>4, <2>2
    <3> QED  BY <2>1, <3>1
  <2>3. CASE /\ s = "detached"
             /\ \E i \in 1..Len(subList) : subList[i] = r /\ subList' = RemoveAt(subList, i)
    <3>1. PICK i \in 1..Len(subList) : subList[i] = r /\ subList' = RemoveAt(subList, i)
      BY <2>3
    <3>2. /\ subList' \in Seq(TopicReaders) /\ IsInjective(subList')
          /\ ToSet(subList') = ToSet(subList) \ {r}
      BY <2>1, <3>1, RemoveLoses
    <3> QED  BY <1>3, <1>4, <2>1, <2>3, <3>2
  <2> QED  BY <1>2, <2>2, <2>3
<1>6. TopicTypeOK'
  <2>1. \A q \in TopicReaders : Len(subscription'[q].queue) <= subscription'[q].cap
    BY <1>3, <1>4 DEF TopicIInv, TopicTypeOK
  <2> QED  BY <1>1, <1>4, <1>5, <2>1 DEF TopicIInv, TopicTypeOK
<1>7. \A q \in TopicReaders :
        /\ Arrived(q)' = Arrived(q)
        /\ subscription'[q].from = subscription[q].from
        /\ subscription'[q].liveFrom = subscription[q].liveFrom
        /\ subscription'[q].state = "none" <=> subscription[q].state = "none"
        /\ subscription'[q].state = "open" => subscription[q].state = "open"
        /\ taken'[q] = taken[q] /\ subscription'[q].queue = subscription[q].queue
  BY <1>1, <1>2, <1>3, <1>4 DEF Arrived
<1>8. Served'
  BY <1>1, <1>7, ServedFrame DEF TopicIInv
<1> QED  BY <1>6, <1>8 DEF TopicIInv

\* The consumer takes a message: it has arrived before.
LEMMA TakeTopicIInv ==
  ASSUME TopicIInv, NEW r \in TopicReaders, TakeDelivery(r)
  PROVE  TopicIInv'
<1> DEFINE q0 == subscription[r].queue
           new == [subscription[r] EXCEPT !.queue = Tail(q0)]
<1>1. /\ q0 # <<>> /\ seqNum' = seqNum /\ sending' = sending /\ subList' = subList
      /\ topicExists' = topicExists /\ sendPanicked' = sendPanicked
      /\ taken' = [taken EXCEPT ![r] = Append(@, Head(q0))]
      /\ subscription' = [subscription EXCEPT ![r] = new]
  BY DEF TakeDelivery
<1>2. /\ subscription[r] \in Subscription /\ taken[r] \in Seq(1..MaxSeqNum)
      /\ q0 \in Seq(1..MaxSeqNum)
  BY ArrivedIs DEF TopicIInv
<1>3. /\ Head(q0) \in 1..MaxSeqNum /\ Tail(q0) \in Seq(1..MaxSeqNum) /\ Len(Tail(q0)) = Len(q0) - 1
      /\ Len(q0) \in Nat /\ Append(taken[r], Head(q0)) \in Seq(1..MaxSeqNum)
  BY <1>1, <1>2, HeadTailProperties, LenProperties, AppendProperties
<1>4. /\ new \in Subscription /\ new.state = subscription[r].state /\ new.queue = Tail(q0)
      /\ new.cap = subscription[r].cap /\ new.from = subscription[r].from
      /\ new.liveFrom = subscription[r].liveFrom
  BY <1>2, <1>3, QueueUpdate
<1> HIDE DEF new
<1>5. /\ subscription' \in [TopicReaders -> Subscription] /\ subscription'[r] = new
      /\ \A q \in TopicReaders : q # r => subscription'[q] = subscription[q]
  BY <1>1, <1>4, ReaderUpdate DEF TopicIInv
<1>6. /\ taken' \in [TopicReaders -> Seq(1..MaxSeqNum)]
      /\ taken'[r] = Append(taken[r], Head(q0))
      /\ \A q \in TopicReaders : q # r => taken'[q] = taken[q]
  BY <1>1, <1>3 DEF TopicIInv, TopicTypeOK
<1>7. \A q \in TopicReaders : Arrived(q)' = Arrived(q)
  <2>1. Append(taken[r], Head(q0)) \o Tail(q0) = taken[r] \o q0
    BY <1>1, <1>2, TakeKeeps
  <2>2. Arrived(r)' = Arrived(r)
    BY <1>4, <1>5, <1>6, <2>1 DEF Arrived
  <2> QED  BY <1>5, <1>6, <2>2 DEF Arrived
<1>8. TopicTypeOK'
  <2>1. Len(Tail(q0)) <= subscription[r].cap
    <3>1. Len(q0) <= subscription[r].cap /\ subscription[r].cap \in Nat
      BY <1>2 DEF TopicIInv, TopicTypeOK, Subscription
    <3> QED  BY <1>3, <3>1
  <2>2. \A q \in TopicReaders :
          /\ Len(subscription'[q].queue) <= subscription'[q].cap
          /\ q \in ToSet(subList') <=> subscription'[q].state = "open"
    BY <1>1, <1>4, <1>5, <2>1 DEF TopicIInv, TopicTypeOK
  <2> QED  BY <1>1, <1>5, <1>6, <2>2 DEF TopicIInv, TopicTypeOK
<1>9. subscription[r].state # "none"
  BY <1>1 DEF TopicIInv, Served, Begun
<1>10. \A q \in TopicReaders :
        /\ Arrived(q)' = Arrived(q)
        /\ subscription'[q].from = subscription[q].from
        /\ subscription'[q].liveFrom = subscription[q].liveFrom
        /\ subscription'[q].state = subscription[q].state
        /\ subscription[q].state = "none" =>
             taken'[q] = taken[q] /\ subscription'[q].queue = subscription[q].queue
  BY <1>4, <1>5, <1>6, <1>7, <1>9
<1>11. Served'
  BY <1>1, <1>10, ServedFrame DEF TopicIInv
<1> QED  BY <1>8, <1>11 DEF TopicIInv

\* Every step of the adapter keeps the invariant.
LEMMA NextTopicIInv == TopicIInv /\ [TopicNext]_topicVars => TopicIInv'
<1> SUFFICES ASSUME TopicIInv, [TopicNext]_topicVars PROVE TopicIInv'
  OBVIOUS
<1>1. CASE CreateTopic \/ UNCHANGED topicVars
  <2>1. /\ seqNum' = seqNum /\ sending' = sending /\ subscription' = subscription
        /\ taken' = taken /\ subList' = subList /\ topicExists' \in BOOLEAN
        /\ sendPanicked' = sendPanicked
    BY <1>1 DEF CreateTopic, topicVars, TopicIInv, TopicTypeOK
  <2>2. \A r \in TopicReaders : Arrived(r)' = Arrived(r)
    BY <2>1 DEF Arrived
  <2>3. TopicTypeOK'
    BY <2>1 DEF TopicIInv, TopicTypeOK
  <2>4. Served'
    BY <2>1, <2>2, ServedFrame DEF TopicIInv
  <2> QED  BY <2>3, <2>4 DEF TopicIInv
<1>2. ASSUME NEW w \in TopicWriters, PublishToTopic(w) \/ SendDelivery(w) PROVE TopicIInv'
  BY <1>2, PublishTopicIInv, SendTopicIInv
<1>3. ASSUME NEW r \in TopicReaders, NEW from \in 1..(MaxSeqNum + 1), SubscribeFrom(r, from)
      PROVE  TopicIInv'
  BY <1>3, SubscribeTopicIInv
<1>4. ASSUME NEW r \in TopicReaders,
             CancelContext(r) \/ Detach(r) \/ CloseChannel(r) \/ TakeDelivery(r)
      PROVE  TopicIInv'
  BY <1>4, EndTopicIInv, TakeTopicIInv
<1> QED  BY <1>1, <1>2, <1>3, <1>4 DEF TopicNext

\* The variables of the in-memory adapter keep their types; the history asked for always fits
\* into the channel made for it (memory_adapter.go, Subscribe).
THEOREM TopicTypeCorrect == TopicSpec => []TopicTypeOK
<1>1. TopicIInv => TopicTypeOK
  BY DEF TopicIInv
<1> QED  BY <1>1, InitTopicIInv, NextTopicIInv, PTL DEF TopicSpec

\* A subscription of the in-memory adapter has the history it asked for and then every later
\* message once (memory_adapter.go, Publish and Subscribe).
THEOREM HistoryFirst == TopicSpec => []HistoryThenEveryLive
<1>1. TopicIInv => HistoryThenEveryLive
  <2> SUFFICES ASSUME TopicIInv PROVE HistoryThenEveryLive
    OBVIOUS
  <2>1. ASSUME NEW r \in TopicReaders, subscription[r].state # "none"
        PROVE  IsPrefix(HistoryFrom(subscription[r].from, subscription[r].liveFrom - 1), Arrived(r))
    <3> DEFINE f == subscription[r].from
               l == subscription[r].liveFrom - 1
    <3>1. /\ f \in Nat \ {0} /\ l \in Nat /\ l <= seqNum /\ seqNum \in Nat /\ seqNum <= MaxSeqNum
          /\ MaxSeqNum \in Nat
          /\ \A i \in 1..(l + 1 - f) : i <= Len(Arrived(r)) /\ Arrived(r)[i] = f + i - 1
      <4>1. seqNum \in 0..MaxSeqNum /\ MaxSeqNum \in Nat
        BY TopicAssumption DEF TopicIInv, TopicTypeOK
      <4>2. /\ f \in Nat \ {0} /\ subscription[r].liveFrom \in 1..seqNum + 1
            /\ \A i \in 1..(subscription[r].liveFrom - f) :
                 i <= Len(Arrived(r)) /\ Arrived(r)[i] = f + i - 1
        BY <2>1 DEF TopicIInv, Served, Begun
      <4>3. l + 1 - f = subscription[r].liveFrom - f /\ l \in Nat /\ l <= seqNum
        <5>1. PICK a \in Nat, b \in Nat, n \in Nat :
                /\ a = subscription[r].liveFrom /\ b = f /\ n = seqNum /\ a >= 1 /\ a <= n + 1
          BY <4>1, <4>2
        <5>2. (a - 1) + 1 - b = a - b /\ a - 1 \in Nat /\ a - 1 <= n
          BY <5>1
        <5> QED  BY <5>1, <5>2
      <4>4. seqNum \in Nat /\ seqNum <= MaxSeqNum
        BY <4>1
      <4>5. f \in Nat \ {0}
        BY <4>2
      <4>6. \A i \in 1..(l + 1 - f) : i <= Len(Arrived(r)) /\ Arrived(r)[i] = f + i - 1
        BY <4>2, <4>3
      <4> QED  BY <4>1, <4>3, <4>4, <4>5, <4>6
    <3> HIDE DEF f, l
    <3>2. /\ HistoryFrom(f, l) \in Seq(1..l)
          /\ Len(HistoryFrom(f, l)) = IF f <= l THEN l - f + 1 ELSE 0
          /\ \A i \in 1..(l - f + 1) : HistoryFrom(f, l)[i] = f + i - 1
      BY <3>1, HistoryIs
    <3>3. 1..l \subseteq 1..MaxSeqNum
      BY <3>1
    <3>4. HistoryFrom(f, l) \in Seq(1..MaxSeqNum) /\ Arrived(r) \in Seq(1..MaxSeqNum)
      BY <3>2, <3>3, SeqMonotonic, ArrivedIs DEF TopicIInv
    <3>5. \A i \in 1..Len(HistoryFrom(f, l)) :
            i <= Len(Arrived(r)) /\ Arrived(r)[i] = HistoryFrom(f, l)[i]
      BY <3>1, <3>2
    <3>6. IsPrefix(HistoryFrom(f, l), Arrived(r))
      BY <3>4, <3>5, PrefixIs
    <3> QED  BY <3>6 DEF f, l
  <2>2. ASSUME NEW r \in TopicReaders, subscription[r].state = "open",
               \A w \in TopicWriters : r \notin ToSet(sending[w].left)
        PROVE  subscription[r].liveFrom..seqNum \subseteq ToSet(Arrived(r))
    <3>1. \A m : ~Awaiting(r, m)
      BY <2>2 DEF Awaiting
    <3> QED  BY <2>2, <3>1 DEF TopicIInv, Served, LiveComes, Come
  <2>3. \A r \in TopicReaders : IsInjective(Arrived(r))
    BY DEF TopicIInv, Served, ComesOnce
  <2> QED  BY <2>1, <2>2, <2>3 DEF HistoryThenEveryLive, HistoryThenLive, NothingDropped
<1> QED  BY <1>1, InitTopicIInv, NextTopicIInv, PTL DEF TopicSpec

(***************************************************************************)
(* A subscription to a mirror node.                                        *)
(***************************************************************************)

\* The numbers of the chunks in p's group.
PartNumbers(p) == {mirror[i].number : i \in groups[p].parts}

\* No chunk is on the topic twice.
Numbered ==
  /\ \A i \in 1..Len(mirror) : mirror[i].number \in 1..ChunksOf[mirror[i].of]
  /\ \A i, j \in 1..Len(mirror) : mirror[i] = mirror[j] => i = j

\* The time of the page that is being read, or that the next one will at least have.
PageTime == IF poller.state = "reading" THEN poller.now ELSE clock

\* A publication is past its time: its chunks came too far apart, or will have.
Late(p) ==
  \/ \E k, m \in DOMAIN readAt[p] : readAt[p][k] - readAt[p][m] > Ttl
  \/ ~AllRead(p) /\ \E m \in DOMAIN readAt[p] : PageTime - readAt[p][m] > Ttl

\* The group of p has all that was read of it, and its age counts from one of these readings.
Gathered(p) ==
  /\ p \in DOMAIN groups /\ PartNumbers(p) = DOMAIN readAt[p]
  /\ \E m \in DOMAIN readAt[p] : groups[p].arrived = readAt[p][m]

CompletedOnce(p) == \E i \in CompletedOf(p) : CompletedOf(p) = {i}

Collected(p) == Gathered(p) \/ CompletedOnce(p) \/ Late(p)

\* What was read of a publication are chunks up to lastSeq, and its group has some of them: all,
\* unless it was forgotten.
ReadOn ==
  \A p \in Publications :
    /\ DOMAIN readAt[p] \subseteq NumbersOf(p, poller.lastSeq)
    /\ p \in DOMAIN groups => PartNumbers(p) \subseteq DOMAIN readAt[p]
    /\ p \in Decodable /\ DOMAIN readAt[p] # {} => Collected(p)

Clocked ==
  /\ poller.now <= clock
  /\ \A p \in Publications : \A k \in DOMAIN readAt[p] : readAt[p][k] <= poller.now

\* What was emitted is whole; a group is a part, and of one publication.
Complete ==
  /\ \A i \in 1..Len(emitted) :
       LET p == emitted[i].of
       IN  AllRead(p) /\ mirror[emitted[i].seq] = [of |-> p, number |-> ChunksOf[p]]
  /\ \A i \in 1..Len(emitted) : emitted[i].seq <= poller.lastSeq
  /\ InOrder(emitted)
  /\ \A p \in DOMAIN groups : /\ groups[p].parts # {} /\ PartNumbers(p) # 1..ChunksOf[p]
                              /\ \A i \in groups[p].parts : mirror[i].of = p
  /\ poller.state = "none" => /\ poller.lastSeq = 0 /\ poller.page = 0
                              /\ DOMAIN groups = {} /\ emitted = <<>>
                              /\ \A p \in Publications : DOMAIN readAt[p] = {}

Reads == Numbered /\ ReadOn /\ Clocked /\ Complete

\* What is on its way from the poller to the consumer: what the adapter holds, what the poller
\* holds.
Held == IF forwarder.state = "sending" THEN {forwarder.holds} ELSE {}
Emitting == {emitting} \ {Nothing}

Before(S, T) == \A d \in S, e \in T : CompleteBefore(d.of, e.of)

InLine ==
  /\ InOrder(delivered) /\ InOrder(outCh)
  /\ Before(ToSet(delivered), Held) /\ Before(ToSet(delivered), ToSet(outCh))
  /\ Before(ToSet(delivered), Emitting) /\ Before(Held, ToSet(outCh))
  /\ Before(Held, Emitting) /\ Before(ToSet(outCh), Emitting)
  /\ ToSet(delivered) \cup Held \cup ToSet(outCh) \cup Emitting \subseteq ToSet(emitted)
  /\ Held \subseteq Emission

\* The tracker knows what was forwarded.
Told ==
  Dedup => /\ \A d \in ToSet(delivered) \cup Held : MessageOf[d.of] \in seen
           /\ \A d \in ToSet(delivered), h \in Held : MessageOf[d.of] # MessageOf[h.of]
           /\ DeliveredOncePerMessage

Hands == InLine /\ Told

MirrorIInv == MirrorTypeOK /\ Reads /\ Hands

\* The bounds that the types give.
LEMMA MirrorBounds ==
  ASSUME MirrorTypeOK
  PROVE  /\ Len(mirror) \in Nat /\ DOMAIN mirror = 1..Len(mirror)
         /\ \A i \in 1..Len(mirror) : mirror[i] \in Chunk
         /\ poller.lastSeq \in Nat /\ poller.page \in Nat /\ poller.now \in Nat /\ clock \in Nat
         /\ poller.now <= MaxClock /\ clock <= MaxClock /\ MaxClock \in Nat /\ Ttl \in Nat
         /\ poller.lastSeq <= Len(mirror)
         /\ \A p \in Publications : ChunksOf[p] \in Nat \ {0}
         /\ feed.decodable \subseteq Publications /\ OutCap \in Nat
BY MirrorAssumption, LenProperties, ElementOfSeq DEF MirrorTypeOK

\* The times of the readings are natural numbers.
LEMMA TimesAre ==
  ASSUME MirrorTypeOK, NEW p \in Publications
  PROVE  \A k \in DOMAIN readAt[p] : readAt[p][k] \in Nat /\ readAt[p][k] <= MaxClock
<1>1. readAt[p] \in [DOMAIN readAt[p] -> 0..MaxClock] /\ MaxClock \in Nat
  BY MirrorBounds DEF MirrorTypeOK
<1> QED  BY <1>1

\* What a sequence gains.
LEMMA OneMore ==
  ASSUME NEW S, NEW s \in Seq(S), NEW x \in S
  PROVE  /\ Append(s, x) \in Seq(S) /\ Len(Append(s, x)) = Len(s) + 1
         /\ \A k \in 1..(Len(s) + 1) : Append(s, x)[k] = IF k = Len(s) + 1 THEN x ELSE s[k]
<1>1. Len(s) \in Nat
  BY LenProperties
<1>2. /\ Append(s, x) \in Seq(S) /\ Len(Append(s, x)) = Len(s) + 1
      /\ \A k \in 1..Len(s) : Append(s, x)[k] = s[k]
      /\ Append(s, x)[Len(s) + 1] = x
  BY AppendProperties
<1> QED  BY <1>1, <1>2

\* As long as the topic is the same, so are the numbers on it and what is complete before what.
LEMMA SameTopic ==
  ASSUME mirror' = mirror
  PROVE  /\ \A p, n : NumbersOf(p, n)' = NumbersOf(p, n)
         /\ \A p, q : CompleteBefore(p, q)' <=> CompleteBefore(p, q)
BY DEF NumbersOf, CompleteBefore

\* What was read is on the topic up to lastSeq: all of it, when all of it was read.
LEMMA ReadIsBehind ==
  ASSUME MirrorTypeOK, Numbered, ReadOn, NEW p \in Publications, AllRead(p)
  PROVE  \A m \in 1..Len(mirror) : mirror[m].of = p => m <= poller.lastSeq
<1> SUFFICES ASSUME NEW m \in 1..Len(mirror), mirror[m].of = p PROVE m <= poller.lastSeq
  OBVIOUS
<1>1. PICK k : k = mirror[m].number
  OBVIOUS
<1>2. k \in 1..ChunksOf[p] /\ mirror[m] \in Chunk
  BY <1>1, MirrorBounds DEF Numbered
<1>3. k \in NumbersOf(p, poller.lastSeq)
  BY <1>2 DEF ReadOn, AllRead
<1>4. PICK j \in 1..poller.lastSeq : mirror[j].of = p /\ mirror[j].number = k
  BY <1>3 DEF NumbersOf
<1>5. j \in 1..Len(mirror) /\ j <= poller.lastSeq
  BY MirrorBounds
<1>6. mirror[j] = mirror[m]
  <2>1. PICK a \in Chunk, b \in Chunk : a = mirror[j] /\ b = mirror[m]
    BY <1>5, MirrorBounds
  <2>2. a = [of |-> a.of, number |-> a.number] /\ b = [of |-> b.of, number |-> b.number]
    BY DEF Chunk
  <2>3. a.of = p /\ b.of = p /\ a.number = k /\ b.number = k
    BY <1>1, <1>4, <2>1
  <2> QED  BY <2>1, <2>2, <2>3
<1>7. j = m
  BY <1>5, <1>6 DEF Numbered
<1> QED  BY <1>5, <1>7

\* A step that reads nothing and leaves the topic alone.
LEMMA ReadsFrame ==
  ASSUME Reads, UNCHANGED <<topicSide, poller, groups, readAt, emitted>>
  PROVE  Reads'
<1>0. /\ feed' = feed /\ mirror' = mirror /\ clock' = clock /\ poller' = poller
      /\ groups' = groups /\ readAt' = readAt /\ emitted' = emitted
  BY DEF topicSide
<1>1. /\ \A p, n : NumbersOf(p, n)' = NumbersOf(p, n)
      /\ \A p, q : CompleteBefore(p, q)' <=> CompleteBefore(p, q)
      /\ \A p : NumbersOf(p, poller.lastSeq)' = NumbersOf(p, poller.lastSeq)
  BY <1>0, SameTopic DEF NumbersOf
<1>2. /\ \A p : PartNumbers(p)' = PartNumbers(p) /\ CompletedOf(p)' = CompletedOf(p)
      /\ \A p : (Late(p)' <=> Late(p)) /\ (AllRead(p)' <=> AllRead(p))
  BY <1>0 DEF PartNumbers, CompletedOf, Late, AllRead, PageTime
<1>3. \A p : Collected(p)' <=> Collected(p)
  BY <1>0, <1>2 DEF Collected, Gathered, CompletedOnce
<1>4. Numbered'
  BY <1>0 DEF Reads, Numbered
<1>5. ReadOn'
  BY <1>0, <1>1, <1>2, <1>3 DEF Reads, ReadOn, Decodable
<1>6. Clocked' /\ Complete'
  BY <1>0, <1>1, <1>2 DEF Reads, Clocked, Complete, InOrder
<1> QED  BY <1>4, <1>5, <1>6 DEF Reads

\* A step that hands nothing on, and lets what was emitted stay before what it was before.
LEMMA HandsFrame ==
  ASSUME Hands, UNCHANGED <<feed, emitting, emitted, outCh, delivered, seen>>, Held' = Held,
         outCh \in Seq(Emission), delivered \in Seq(Emission),
         \A d \in ToSet(emitted) : \A q :
           CompleteBefore(d.of, q) => CompleteBefore(d.of, q)'
  PROVE  Hands'
<1>1. Emitting' = Emitting
  BY DEF Emitting
<1>2. InOrder(delivered)' /\ InOrder(outCh)'
  <2>1. /\ \A i \in 1..Len(delivered) : delivered[i] \in ToSet(delivered)
        /\ \A i \in 1..Len(outCh) : outCh[i] \in ToSet(outCh)
    BY LenProperties DEF ToSet
  <2> QED  BY <2>1 DEF Hands, InLine, InOrder
<1>3. \A S, T : S \subseteq ToSet(emitted) /\ Before(S, T)
        => \A d \in S, e \in T : CompleteBefore(d.of, e.of)'
  BY DEF Before
<1>4. InLine'
  <2>1. /\ ToSet(delivered) \subseteq ToSet(emitted) /\ Held \subseteq ToSet(emitted)
        /\ ToSet(outCh) \subseteq ToSet(emitted)
    BY DEF Hands, InLine
  <2>2. /\ \A d \in ToSet(delivered), e \in Held : CompleteBefore(d.of, e.of)'
        /\ \A d \in ToSet(delivered), e \in ToSet(outCh) : CompleteBefore(d.of, e.of)'
        /\ \A d \in ToSet(delivered), e \in Emitting : CompleteBefore(d.of, e.of)'
        /\ \A d \in Held, e \in ToSet(outCh) : CompleteBefore(d.of, e.of)'
        /\ \A d \in Held, e \in Emitting : CompleteBefore(d.of, e.of)'
        /\ \A d \in ToSet(outCh), e \in Emitting : CompleteBefore(d.of, e.of)'
    BY <1>3, <2>1 DEF Hands, InLine
  <2> QED  BY <1>1, <1>2, <2>2 DEF Hands, InLine, Before
<1>5. Told'
  BY DEF Hands, Told, DeliveredOncePerMessage, Dedup
<1> QED  BY <1>4, <1>5 DEF Hands

\* Nothing is read at the start.
LEMMA InitMirrorIInv == MirrorInit => MirrorIInv
<1> SUFFICES ASSUME MirrorInit PROVE MirrorIInv
  OBVIOUS
<1>1. /\ \A S : ToSet(<<>>) = {} /\ <<>> \in Seq(S) /\ InOrder(<<>>) /\ Len(<<>>) = 0
      /\ 0 \in 0..MaxClock /\ OutCap \in Nat /\ Ttl \in Nat
      /\ \A p \in Publications : ChunksOf[p] \in Nat \ {0}
  BY EmptySeq, MirrorAssumption DEF ToSet, InOrder
<1>2. /\ feed \in Feeds /\ mirror = <<>> /\ clock = 0 /\ DOMAIN groups = {} /\ emitting = Nothing
      /\ poller = [state |-> "none", start |-> 0, lastSeq |-> 0, page |-> 0, now |-> 0]
      /\ groups = [p \in {} |-> Nothing] /\ outCh = <<>> /\ seen = {} /\ delivered = <<>>
      /\ forwarder = [state |-> "none", holds |-> Nothing] /\ ctxDone = FALSE
      /\ readAt = [p \in Publications |-> [k \in {} |-> 0]] /\ emitted = <<>>
  BY DEF MirrorInit
<1>3. /\ DOMAIN readAt = Publications
      /\ \A p \in Publications : DOMAIN readAt[p] = {} /\ readAt[p] \in [{} -> 0..MaxClock]
  BY <1>2
<1>4. MirrorTypeOK
  <2>1. /\ poller \in [state: {"none", "idle", "reading"}, start: Nat, lastSeq: Nat, page: Nat,
                       now: 0..MaxClock]
        /\ poller.lastSeq + poller.page <= Len(mirror)
    BY <1>1, <1>2
  <2>2. /\ forwarder \in [state: {"none", "waiting", "sending", "stopped"},
                          holds: Emission \cup {Nothing}]
        /\ emitting \in Emission \cup {Nothing}
    BY <1>2
  <2>3. groups \in [DOMAIN groups -> Group] /\ DOMAIN groups \subseteq Publications
    BY <1>2
  <2>4. /\ mirror \in Seq(Chunk) /\ outCh \in Seq(Emission) /\ Len(outCh) <= OutCap
        /\ delivered \in Seq(Emission) /\ emitted \in Seq(Emission) /\ seen \subseteq Valid
        /\ feed \in Feeds /\ clock \in 0..MaxClock /\ ctxDone \in BOOLEAN
    <3>1. <<>> \in Seq(Chunk) /\ <<>> \in Seq(Emission) /\ 0 <= OutCap
      BY <1>1
    <3>2. Len(outCh) <= OutCap
      BY <1>1, <1>2
    <3> QED  BY <1>1, <1>2, <3>1, <3>2
  <2> QED  BY <1>2, <1>3, <2>1, <2>2, <2>3, <2>4 DEF MirrorTypeOK
<1>5. Numbered /\ ReadOn
  <2>1. 1..0 = {}
    OBVIOUS
  <2> QED  BY <1>1, <1>2, <1>3, <2>1 DEF Numbered, ReadOn
<1>6. Clocked /\ Complete
  BY <1>1, <1>2, <1>3 DEF Clocked, Complete
<1>7. Held = {} /\ Emitting = {}
  BY <1>2 DEF Held, Emitting
<1>8. InLine /\ Told
  BY <1>1, <1>2, <1>7 DEF InLine, Told, Before, DeliveredOncePerMessage
<1> QED  BY <1>4, <1>5, <1>6, <1>8 DEF MirrorIInv, Reads, Hands

\* A chunk gets its place on the topic: behind all that was read, and it is of a publication
\* that was not read as a whole.
LEMMA SubmitIInv ==
  ASSUME MirrorIInv, NEW p \in Publications, SubmitChunk(p)
  PROVE  MirrorIInv'
<1>0. /\ UNCHANGED <<feed, clock, pollerSide, outCh, adapterSide>>
      /\ feed' = feed /\ clock' = clock /\ poller' = poller /\ groups' = groups
      /\ emitting' = emitting /\ readAt' = readAt /\ emitted' = emitted /\ outCh' = outCh
      /\ forwarder' = forwarder /\ seen' = seen /\ delivered' = delivered /\ ctxDone' = ctxDone
  BY DEF SubmitChunk, pollerSide, adapterSide
<1>1. PICK k \in 1..ChunksOf[p] : /\ k \notin NumbersOf(p, Len(mirror))
                                  /\ mirror' = Append(mirror, [of |-> p, number |-> k])
  BY DEF SubmitChunk
<1>2. /\ MirrorTypeOK /\ Reads /\ Hands /\ mirror \in Seq(Chunk) /\ ChunksOf[p] \in Nat \ {0}
      /\ Numbered /\ ReadOn /\ Clocked /\ Complete
      /\ k \in Nat \ {0} /\ [of |-> p, number |-> k] \in Chunk
  <2>1. /\ MirrorTypeOK /\ Reads /\ Hands /\ mirror \in Seq(Chunk) /\ ChunksOf[p] \in Nat \ {0}
        /\ Numbered /\ ReadOn /\ Clocked /\ Complete
    BY MirrorBounds DEF MirrorIInv, MirrorTypeOK, Reads
  <2>2. k \in Nat \ {0}
    BY <2>1
  <2> QED  BY <2>1, <2>2 DEF Chunk
<1>3. PICK L \in Nat, l \in Nat : L = Len(mirror) /\ l = poller.lastSeq /\ l <= L
  BY <1>2, MirrorBounds
<1>4. /\ mirror' \in Seq(Chunk) /\ Len(mirror') = L + 1
      /\ \A i \in 1..L : mirror'[i] = mirror[i]
      /\ mirror'[L + 1] = [of |-> p, number |-> k]
  BY <1>1, <1>2, <1>3, AppendProperties
<1>5. MirrorTypeOK'
  <2>1. poller'.lastSeq + poller'.page <= Len(mirror')
    BY <1>0, <1>2, <1>3, <1>4, MirrorBounds DEF MirrorTypeOK
  <2> QED  BY <1>0, <1>2, <1>4, <2>1 DEF MirrorTypeOK, Valid
<1>6. /\ \A i \in 1..(L + 1) : i \in 1..L \/ i = L + 1
      /\ L + 1 \notin 1..L
  OBVIOUS
<1>7. Numbered'
  <2>1. \A i \in 1..L : mirror[i] # [of |-> p, number |-> k]
    <3> SUFFICES ASSUME NEW i \in 1..L, mirror[i] = [of |-> p, number |-> k] PROVE FALSE
      OBVIOUS
    <3>1. mirror[i].of = p /\ mirror[i].number = k
      OBVIOUS
    <3> QED  BY <1>1, <1>3, <3>1 DEF NumbersOf
  <2>2. \A i \in 1..(L + 1) : mirror'[i].number \in 1..ChunksOf[mirror'[i].of]
    <3>1. /\ mirror'[L + 1].of = p /\ mirror'[L + 1].number = k
          /\ \A i \in 1..L : mirror[i].number \in 1..ChunksOf[mirror[i].of]
      BY <1>2, <1>3, <1>4 DEF Numbered
    <3> QED  BY <1>1, <1>4, <1>6, <3>1
  <2>3. \A i, j \in 1..(L + 1) : mirror'[i] = mirror'[j] => i = j
    <3>1. \A i, j \in 1..L : mirror[i] = mirror[j] => i = j
      BY <1>2, <1>3 DEF Numbered
    <3> QED  BY <1>4, <1>6, <2>1, <3>1
  <2> QED  BY <1>4, <2>2, <2>3 DEF Numbered
<1>8. \A q : NumbersOf(q, l)' = NumbersOf(q, l)
  <2>1. \A i \in 1..l : mirror'[i] = mirror[i]
    BY <1>3, <1>4
  <2> QED  BY <2>1 DEF NumbersOf
<1>9. \A q \in DOMAIN groups :
        /\ PartNumbers(q)' = PartNumbers(q)
        /\ \A i \in groups[q].parts : mirror'[i] = mirror[i]
  <2> SUFFICES ASSUME NEW q \in DOMAIN groups
               PROVE  /\ PartNumbers(q)' = PartNumbers(q)
                      /\ \A i \in groups[q].parts : mirror'[i] = mirror[i]
    OBVIOUS
  <2>1. \A i \in groups[q].parts : i \in 1..L
    BY <1>2, <1>3 DEF MirrorTypeOK
  <2> QED  BY <1>0, <1>4, <2>1 DEF PartNumbers
<1>10. /\ \A q : (Late(q)' <=> Late(q)) /\ CompletedOf(q)' = CompletedOf(q)
       /\ \A q : AllRead(q)' <=> AllRead(q)
  BY <1>0 DEF Late, CompletedOf, AllRead, PageTime
<1>11. \A q : Collected(q) => Collected(q)'
  BY <1>0, <1>9, <1>10 DEF Collected, Gathered, CompletedOnce
<1>12. ReadOn'
  <2> SUFFICES ASSUME NEW q \in Publications
               PROVE  /\ DOMAIN readAt[q] \subseteq NumbersOf(q, l)'
                      /\ q \in DOMAIN groups => PartNumbers(q)' \subseteq DOMAIN readAt[q]
                      /\ q \in Decodable /\ DOMAIN readAt[q] # {} => Collected(q)'
    BY <1>0, <1>3 DEF ReadOn, Decodable, NumbersOf
  <2> QED  BY <1>2, <1>3, <1>8, <1>9, <1>11 DEF ReadOn
\* What was read as a whole stays complete before what it was complete before.
<1>13. ASSUME NEW q \in Publications, NEW r, AllRead(q), CompleteBefore(q, r)
       PROVE  CompleteBefore(q, r)'
  <2>1. q # p
    <3> SUFFICES ASSUME q = p PROVE FALSE
      OBVIOUS
    <3>1. k \in NumbersOf(p, l)
      BY <1>1, <1>2, <1>3, <1>13 DEF ReadOn, AllRead
    <3>2. 1..l \subseteq 1..L
      BY <1>3
    <3> QED  BY <1>1, <1>3, <3>1, <3>2 DEF NumbersOf
  <2>2. PICK n \in 1..L : mirror[n].of = r /\ \A m \in 1..L : mirror[m].of = q => m < n
    BY <1>3, <1>13 DEF CompleteBefore
  <2>3. n \in 1..(L + 1) /\ mirror'[n].of = r
    BY <1>4, <2>2
  <2>4. mirror'[L + 1].of = p
    BY <1>4
  <2>5. \A m \in 1..(L + 1) : mirror'[m].of = q => m < n
    BY <1>4, <1>6, <2>1, <2>2, <2>4
  <2> QED  BY <1>4, <2>3, <2>5 DEF CompleteBefore
<1>14. /\ emitted \in Seq(Emission) /\ Len(emitted) \in Nat /\ DOMAIN emitted = 1..Len(emitted)
       /\ \A i \in 1..Len(emitted) :
            /\ emitted[i] \in Emission /\ emitted[i].of \in Publications
            /\ AllRead(emitted[i].of)
  <2>1. emitted \in Seq(Emission)
    BY <1>2 DEF MirrorTypeOK
  <2>2. \A i \in 1..Len(emitted) : emitted[i] \in Emission
    BY <2>1, ElementOfSeq
  <2> QED  BY <1>2, <2>1, <2>2, LenProperties DEF Complete, Emission
<1>15. Clocked' /\ Complete'
  <2>1. Clocked'
    BY <1>0, <1>2 DEF Clocked
  <2>2. \A i \in 1..Len(emitted) : mirror'[emitted[i].seq] = mirror[emitted[i].seq]
    <3> SUFFICES ASSUME NEW i \in 1..Len(emitted)
                 PROVE  mirror'[emitted[i].seq] = mirror[emitted[i].seq]
      OBVIOUS
    <3>1. emitted[i].seq \in Nat \ {0} /\ emitted[i].seq <= l
      BY <1>2, <1>3, <1>14 DEF Complete, Emission
    <3> QED  BY <1>3, <1>4, <3>1
  <2>3. InOrder(emitted)'
    BY <1>0, <1>2, <1>13, <1>14 DEF Complete, InOrder
  <2>4. \A i \in 1..Len(emitted) :
          LET q == emitted[i].of
          IN  AllRead(q)' /\ mirror'[emitted[i].seq] = [of |-> q, number |-> ChunksOf[q]]
    <3>1. \A i \in 1..Len(emitted) : AllRead(emitted[i].of)'
      BY <1>0, <1>14 DEF AllRead
    <3> QED  BY <1>2, <2>2, <3>1 DEF Complete
  <2>5. \A q \in DOMAIN groups : /\ groups[q].parts # {} /\ PartNumbers(q)' # 1..ChunksOf[q]
                                 /\ \A i \in groups[q].parts : mirror'[i].of = q
    BY <1>2, <1>9 DEF Complete
  <2>6. Complete'
    BY <1>0, <1>2, <2>3, <2>4, <2>5 DEF Complete
  <2> QED  BY <2>1, <2>6
<1>16. Hands'
  <2>1. \A d \in ToSet(emitted) : \A q : CompleteBefore(d.of, q) => CompleteBefore(d.of, q)'
    BY <1>13, <1>14 DEF ToSet
  <2>2. outCh \in Seq(Emission) /\ delivered \in Seq(Emission) /\ Held' = Held
    BY <1>0, <1>2 DEF MirrorTypeOK, Held
  <2> QED  BY <1>0, <1>2, <2>1, <2>2, HandsFrame
<1> QED  BY <1>5, <1>7, <1>12, <1>15, <1>16 DEF MirrorIInv, Reads

\* A step that reads nothing of the page: what it must keep of the groups.
LEMMA KeepsReading ==
  ASSUME Reads, mirror' = mirror, feed' = feed, poller'.lastSeq = poller.lastSeq,
         readAt' = readAt, emitted' = emitted,
         \A q \in DOMAIN groups' : q \in DOMAIN groups /\ groups'[q] = groups[q],
         poller'.state = "none" => poller' = poller,
         \A p \in Publications : Collected(p) /\ DOMAIN readAt[p] # {} => Collected(p)'
  PROVE  Numbered' /\ ReadOn' /\ Complete'
<1>1. /\ \A p, n : NumbersOf(p, n)' = NumbersOf(p, n)
      /\ \A p, q : CompleteBefore(p, q)' <=> CompleteBefore(p, q)
      /\ \A p : NumbersOf(p, poller.lastSeq)' = NumbersOf(p, poller.lastSeq)
      /\ \A p : AllRead(p)' <=> AllRead(p)
  BY SameTopic DEF NumbersOf, AllRead
<1>2. \A q \in DOMAIN groups' : PartNumbers(q)' = PartNumbers(q)
  BY DEF PartNumbers
<1>3. Numbered'
  BY DEF Reads, Numbered
<1>4. ReadOn'
  BY <1>1, <1>2 DEF Reads, ReadOn, Decodable
<1>5. Complete'
  BY <1>1, <1>2 DEF Reads, Complete, InOrder
<1> QED  BY <1>3, <1>4, <1>5

\* Time passes: what is late stays late.
LEMMA PassMinuteIInv ==
  ASSUME MirrorIInv, PassMinute
  PROVE  MirrorIInv'
<1>0. /\ clock' = clock + 1 /\ clock < MaxClock /\ feed' = feed /\ mirror' = mirror
      /\ poller' = poller /\ groups' = groups /\ readAt' = readAt /\ emitted' = emitted
      /\ emitting' = emitting /\ outCh' = outCh /\ forwarder' = forwarder /\ seen' = seen
      /\ delivered' = delivered /\ ctxDone' = ctxDone
  BY DEF PassMinute, pollerSide, adapterSide
<1>1. /\ MirrorTypeOK /\ Reads /\ Hands /\ clock \in Nat /\ MaxClock \in Nat /\ Ttl \in Nat
      /\ poller.now \in Nat
  BY MirrorBounds DEF MirrorIInv
<1>2. MirrorTypeOK'
  <2>1. clock' \in 0..MaxClock
    BY <1>0, <1>1
  <2> QED  BY <1>0, <1>1, <2>1 DEF MirrorTypeOK, Valid
<1>3. ASSUME NEW p \in Publications, Collected(p)
      PROVE  Collected(p)'
  <2>1. /\ PartNumbers(p)' = PartNumbers(p) /\ CompletedOf(p)' = CompletedOf(p)
        /\ (AllRead(p)' <=> AllRead(p)) /\ \A k \in DOMAIN readAt[p] : readAt[p][k] \in Nat
    BY <1>0, <1>1, TimesAre DEF PartNumbers, CompletedOf, AllRead
  <2>2. Late(p) => Late(p)'
    <3>1. \A m \in DOMAIN readAt[p] :
            PageTime - readAt[p][m] > Ttl => PageTime' - readAt[p][m] > Ttl
      BY <1>0, <1>1, <2>1 DEF PageTime
    <3> QED  BY <1>0, <2>1, <3>1 DEF Late
  <2> QED  BY <1>0, <1>3, <2>1, <2>2 DEF Collected, Gathered, CompletedOnce
<1>4. Numbered' /\ ReadOn' /\ Complete'
  BY <1>0, <1>1, <1>3, KeepsReading
<1>5. Clocked'
  BY <1>0, <1>1 DEF Reads, Clocked
<1>6. Hands'
  <2>1. outCh \in Seq(Emission) /\ delivered \in Seq(Emission) /\ Held' = Held
    BY <1>0, <1>1 DEF MirrorTypeOK, Held
  <2> QED  BY <1>0, <1>1, <2>1, HandsFrame, SameTopic
<1> QED  BY <1>2, <1>4, <1>5, <1>6 DEF MirrorIInv, Reads

\* Before the subscription nothing is read, and it chooses the place from which it reads.
LEMMA SubscribeMirrorIInv ==
  ASSUME MirrorIInv, NEW from \in 0..(Len(mirror) + 1), SubscribeMirror(from)
  PROVE  MirrorIInv'
<1>0. /\ clock' = clock /\ feed' = feed /\ mirror' = mirror
      /\ groups' = groups /\ readAt' = readAt /\ emitted' = emitted
      /\ emitting' = emitting /\ outCh' = outCh /\ seen' = seen
      /\ delivered' = delivered /\ ctxDone' = ctxDone /\ poller.state = "none"
      /\ forwarder' = [forwarder EXCEPT !.state = "waiting"]
  BY DEF SubscribeMirror, topicSide
<1>1. /\ MirrorTypeOK /\ Reads /\ Hands /\ poller.lastSeq = 0 /\ poller.page = 0
      /\ DOMAIN groups = {} /\ emitted = <<>>
      /\ \A p \in Publications : DOMAIN readAt[p] = {}
  BY <1>0 DEF MirrorIInv, Reads, Complete
<1>2. PICK l \in 0..Len(mirror) :
        poller' = [poller EXCEPT !.state = "idle", !.start = from, !.lastSeq = l]
  <2>1. PICK L \in Nat : L = Len(mirror)
    BY <1>1, MirrorBounds
  <2>2. (IF from > 0 THEN from - 1 ELSE 0) \in 0..L
    BY <2>1
  <2> QED  BY <2>1, <2>2 DEF SubscribeMirror
<1>3. /\ poller' \in [state: {"none", "idle", "reading"}, start: Nat, lastSeq: Nat, page: Nat,
                      now: 0..MaxClock]
      /\ poller'.state = "idle" /\ poller'.lastSeq = l /\ poller'.page = 0
      /\ poller'.now = poller.now /\ l \in Nat /\ l <= Len(mirror)
  <2>1. l \in Nat /\ from \in Nat /\ l <= Len(mirror)
    BY <1>1, MirrorBounds
  <2> QED  BY <1>1, <1>2, <2>1 DEF MirrorTypeOK
<1>4. /\ forwarder' \in [state: {"none", "waiting", "sending", "stopped"},
                         holds: Emission \cup {Nothing}]
      /\ forwarder'.state = "waiting"
  BY <1>0, <1>1 DEF MirrorTypeOK
<1>5. MirrorTypeOK'
  <2>1. poller'.lastSeq + poller'.page <= Len(mirror)
    BY <1>1, <1>3, MirrorBounds
  <2> QED  BY <1>0, <1>1, <1>3, <1>4, <2>1 DEF MirrorTypeOK, Valid
<1>6. Numbered' /\ ReadOn'
  BY <1>0, <1>1 DEF Reads, Numbered, ReadOn
<1>7. Clocked' /\ Complete'
  BY <1>0, <1>1, <1>3, EmptySeq DEF Reads, Clocked, Complete, InOrder
<1>8. Hands'
  <2>1. \A p, q : CompleteBefore(p, q)' <=> CompleteBefore(p, q)
    BY <1>0, SameTopic
  <2>2. Held' = {} /\ Emitting' = Emitting
    BY <1>0, <1>4 DEF Held, Emitting
  <2> QED  BY <1>0, <1>1, <2>1, <2>2 DEF Hands, InLine, Told, Before, InOrder,
                                         DeliveredOncePerMessage, Dedup
<1> QED  BY <1>5, <1>6, <1>7, <1>8 DEF MirrorIInv, Reads

\* The clock of the page is the clock.
LEMMA FetchIInv ==
  ASSUME MirrorIInv, FetchPage
  PROVE  MirrorIInv'
<1>0. /\ clock' = clock /\ feed' = feed /\ mirror' = mirror
      /\ groups' = groups /\ readAt' = readAt /\ emitted' = emitted
      /\ emitting' = emitting /\ outCh' = outCh /\ seen' = seen /\ forwarder' = forwarder
      /\ delivered' = delivered /\ ctxDone' = ctxDone /\ poller.state = "idle"
  BY DEF FetchPage, topicSide, adapterSide
<1>1. /\ MirrorTypeOK /\ Reads /\ Hands /\ clock \in Nat /\ MaxClock \in Nat /\ Ttl \in Nat
      /\ poller.now \in Nat /\ poller.lastSeq \in Nat /\ poller.now <= clock
      /\ poller.lastSeq <= Len(mirror)
  BY MirrorBounds DEF MirrorIInv, Reads, Clocked
<1>2. PICK n \in Nat : /\ poller' = [poller EXCEPT !.state = "reading", !.now = clock, !.page = n]
                       /\ poller.lastSeq + n <= Len(mirror)
  <2>1. PICK L \in Nat : L = Len(mirror)
    BY <1>1, MirrorBounds
  <2>2. PICK d \in Nat : d = L - poller.lastSeq
    BY <1>1, <2>1
  <2>3. PageLimit \in Nat
    BY MirrorAssumption
  <2>4. PICK n : n = Min({PageLimit, Len(mirror) - poller.lastSeq})
    OBVIOUS
  <2>5. n \in {PageLimit, d} /\ n <= d
    <3>1. \E x \in {PageLimit, d} : \A y \in {PageLimit, d} : x <= y
      BY <2>2, <2>3
    <3>2. n \in {PageLimit, d} /\ \A y \in {PageLimit, d} : n <= y
      BY <2>1, <2>2, <2>4, <3>1 DEF Min
    <3> QED  BY <3>2
  <2>6. n \in Nat /\ poller.lastSeq + n <= Len(mirror)
    BY <1>1, <2>1, <2>2, <2>3, <2>5
  <2> QED  BY <2>4, <2>6 DEF FetchPage
<1>3. /\ poller' \in [state: {"none", "idle", "reading"}, start: Nat, lastSeq: Nat, page: Nat,
                      now: 0..MaxClock]
      /\ poller'.state = "reading" /\ poller'.lastSeq = poller.lastSeq /\ poller'.page = n
      /\ poller'.now = clock
  BY <1>1, <1>2 DEF MirrorTypeOK
<1>4. MirrorTypeOK'
  BY <1>0, <1>1, <1>2, <1>3 DEF MirrorTypeOK, Valid
<1>5. ASSUME NEW p \in Publications, Collected(p)
      PROVE  Collected(p)'
  <2>1. /\ PartNumbers(p)' = PartNumbers(p) /\ CompletedOf(p)' = CompletedOf(p)
        /\ (AllRead(p)' <=> AllRead(p)) /\ PageTime' = PageTime
    BY <1>0, <1>3 DEF PartNumbers, CompletedOf, AllRead, PageTime
  <2> QED  BY <1>0, <1>5, <2>1 DEF Collected, Gathered, CompletedOnce, Late
<1>6. Numbered' /\ ReadOn' /\ Complete'
  BY <1>0, <1>1, <1>3, <1>5, KeepsReading
<1>7. Clocked'
  <2> SUFFICES ASSUME NEW p \in Publications, NEW k \in DOMAIN readAt[p]
               PROVE  readAt[p][k] <= clock
    BY <1>0, <1>3 DEF Clocked
  <2>1. readAt[p][k] \in Nat /\ readAt[p][k] <= poller.now
    BY <1>1, TimesAre DEF Reads, Clocked
  <2> QED  BY <1>1, <2>1
<1>8. Hands'
  <2>1. outCh \in Seq(Emission) /\ delivered \in Seq(Emission) /\ Held' = Held
    BY <1>0, <1>1 DEF MirrorTypeOK, Held
  <2> QED  BY <1>0, <1>1, <2>1, HandsFrame, SameTopic
<1> QED  BY <1>4, <1>6, <1>7, <1>8 DEF MirrorIInv, Reads

\* What is forgotten is late: its chunks had not all come.
LEMMA EndPageIInv ==
  ASSUME MirrorIInv, EndPage
  PROVE  MirrorIInv'
<1>0. /\ clock' = clock /\ feed' = feed /\ mirror' = mirror
      /\ poller' = [poller EXCEPT !.state = "idle"]
      /\ groups' = [p \in DOMAIN groups \ Expired |-> groups[p]]
      /\ readAt' = readAt /\ emitted' = emitted
      /\ emitting' = emitting /\ outCh' = outCh /\ seen' = seen /\ forwarder' = forwarder
      /\ delivered' = delivered /\ ctxDone' = ctxDone /\ poller.state = "reading"
  BY DEF EndPage, topicSide, adapterSide
<1>1. /\ MirrorTypeOK /\ Reads /\ Hands /\ clock \in Nat /\ MaxClock \in Nat /\ Ttl \in Nat
      /\ poller.now \in Nat /\ poller.lastSeq \in Nat /\ poller.now <= clock
      /\ poller.lastSeq <= Len(mirror)
  BY MirrorBounds DEF MirrorIInv, Reads, Clocked
<1>2. /\ poller' \in [state: {"none", "idle", "reading"}, start: Nat, lastSeq: Nat, page: Nat,
                      now: 0..MaxClock]
      /\ poller'.state = "idle" /\ poller'.lastSeq = poller.lastSeq
      /\ poller'.page = poller.page /\ poller'.now = poller.now
  BY <1>0, <1>1 DEF MirrorTypeOK
<1>3. /\ DOMAIN groups' = DOMAIN groups \ Expired
      /\ \A q \in DOMAIN groups' : q \in DOMAIN groups /\ groups'[q] = groups[q]
  BY <1>0
<1>4. MirrorTypeOK'
  <2>1. /\ DOMAIN groups' \subseteq Publications /\ groups' \in [DOMAIN groups' -> Group]
        /\ \A p \in DOMAIN groups' : groups'[p].parts \subseteq 1..poller.lastSeq
    <3>1. \A q \in DOMAIN groups : groups[q] \in Group
      BY <1>1 DEF MirrorTypeOK
    <3>2. groups' = [q \in DOMAIN groups' |-> groups'[q]]
      BY <1>0
    <3> QED  BY <1>1, <1>3, <3>1, <3>2 DEF MirrorTypeOK
  <2> QED  BY <1>0, <1>1, <1>2, <2>1 DEF MirrorTypeOK, Valid
<1>5. ASSUME NEW p \in Publications, Collected(p)
      PROVE  Collected(p)'
  <2>1. /\ CompletedOf(p)' = CompletedOf(p) /\ (AllRead(p)' <=> AllRead(p))
        /\ PageTime = poller.now /\ PageTime' = clock
        /\ \A k \in DOMAIN readAt[p] : readAt[p][k] \in Nat
    BY <1>0, <1>1, <1>2, TimesAre DEF CompletedOf, AllRead, PageTime
  <2>2. Late(p) => Late(p)'
    <3>1. \A m \in DOMAIN readAt[p] : poller.now - readAt[p][m] > Ttl => clock - readAt[p][m] > Ttl
      BY <1>1, <2>1
    <3> QED  BY <1>0, <2>1, <3>1 DEF Late
  <2>3. CASE Gathered(p)
    <3>1. CASE p \in Expired
      <4>1. PICK m \in DOMAIN readAt[p] : clock - readAt[p][m] > Ttl
        BY <2>3, <3>1 DEF Expired, Gathered
      <4>2. ~AllRead(p)
        BY <1>1, <2>3 DEF Reads, Complete, Gathered, AllRead
      <4> QED  BY <1>0, <2>1, <4>1, <4>2 DEF Collected, Late
    <3>2. CASE p \notin Expired
      <4>1. p \in DOMAIN groups' /\ groups'[p] = groups[p]
        BY <1>3, <2>3, <3>2 DEF Gathered
      <4>2. PartNumbers(p)' = PartNumbers(p)
        BY <1>0, <4>1 DEF PartNumbers
      <4> QED  BY <1>0, <2>3, <4>1, <4>2 DEF Collected, Gathered
    <3> QED  BY <3>1, <3>2
  <2> QED  BY <1>5, <2>1, <2>2, <2>3 DEF Collected, CompletedOnce
<1>6. Numbered' /\ ReadOn' /\ Complete'
  BY <1>0, <1>1, <1>2, <1>3, <1>5, KeepsReading
<1>7. Clocked'
  BY <1>0, <1>1, <1>2 DEF Reads, Clocked
<1>8. Hands'
  <2>1. outCh \in Seq(Emission) /\ delivered \in Seq(Emission) /\ Held' = Held
    BY <1>0, <1>1 DEF MirrorTypeOK, Held
  <2> QED  BY <1>0, <1>1, <2>1, HandsFrame, SameTopic
<1> QED  BY <1>4, <1>6, <1>7, <1>8 DEF MirrorIInv, Reads

\* The chunk that is read was not read before, and neither was all of its publication.
LEMMA IngestReads ==
  ASSUME MirrorIInv, Ingest
  PROVE  \E p \in Publications, k \in Nat \ {0}, i \in Nat \ {0} :
           /\ i = poller.lastSeq + 1 /\ i \in 1..Len(mirror)
           /\ mirror[i] = [of |-> p, number |-> k] /\ k \in 1..ChunksOf[p]
           /\ k \notin DOMAIN readAt[p] /\ ~AllRead(p)
           /\ \A q \in Publications : NumbersOf(q, poller.lastSeq) \subseteq NumbersOf(q, i)
           /\ k \in NumbersOf(p, i)
<1>1. /\ MirrorTypeOK /\ Reads /\ poller.page > 0 /\ poller.page \in Nat /\ poller.lastSeq \in Nat
      /\ poller.lastSeq + poller.page <= Len(mirror)
  BY MirrorBounds DEF MirrorIInv, Ingest, MirrorTypeOK
<1>2. PICK L \in Nat, i \in Nat \ {0}, l \in Nat :
        L = Len(mirror) /\ l = poller.lastSeq /\ i = l + 1 /\ i \in 1..L
  <2>1. PICK L \in Nat, l \in Nat, f \in Nat :
          L = Len(mirror) /\ l = poller.lastSeq /\ f = poller.page
    BY <1>1, MirrorBounds
  <2>2. l + 1 \in Nat \ {0} /\ l + 1 \in 1..L
    BY <1>1, <2>1
  <2> QED  BY <2>1, <2>2
<1>3. PICK p \in Publications, k \in Nat \ {0} : mirror[i] = [of |-> p, number |-> k]
  <2>1. PICK a \in Chunk : a = mirror[i]
    BY <1>1, <1>2, MirrorBounds
  <2>2. a.of \in Publications /\ a.number \in Nat \ {0} /\ a = [of |-> a.of, number |-> a.number]
    BY DEF Chunk
  <2> QED  BY <2>1, <2>2
<1>4. mirror[i].of = p /\ mirror[i].number = k
  BY <1>3
<1>5. k \in 1..ChunksOf[p]
  BY <1>1, <1>2, <1>4 DEF Reads, Numbered
<1>6. 1..l \subseteq 1..i /\ i \in 1..i /\ i \notin 1..l /\ 1..l \subseteq 1..L
  BY <1>2
<1>7. k \notin NumbersOf(p, l)
  <2> SUFFICES ASSUME NEW j \in 1..l, mirror[j].of = p, mirror[j].number = k PROVE FALSE
    BY DEF NumbersOf
  <2>1. PICK a \in Chunk : a = mirror[j]
    BY <1>1, <1>2, <1>6, MirrorBounds
  <2>2. a = [of |-> p, number |-> k]
    <3>1. a = [of |-> a.of, number |-> a.number]
      BY DEF Chunk
    <3> QED  BY <2>1, <3>1
  <2>3. j = i
    BY <1>1, <1>2, <1>3, <1>6, <2>1, <2>2 DEF Reads, Numbered
  <2> QED  BY <1>6, <2>3
<1>8. k \notin DOMAIN readAt[p] /\ ~AllRead(p)
  BY <1>1, <1>2, <1>5, <1>7 DEF Reads, ReadOn, AllRead
<1>9. /\ \A q \in Publications : NumbersOf(q, l) \subseteq NumbersOf(q, i)
      /\ k \in NumbersOf(p, i)
  BY <1>4, <1>6 DEF NumbersOf
<1> QED  BY <1>2, <1>3, <1>5, <1>8, <1>9

\* The times of the readings are kept, and the new one is the page's.
LEMMA ReadingsGrow ==
  ASSUME MirrorTypeOK, Clocked, NEW p \in Publications, NEW k \in 1..ChunksOf[p],
         k \notin DOMAIN readAt[p],
         readAt' = [readAt EXCEPT ![p] = [n \in DOMAIN @ \cup {k} |->
                                            IF n = k THEN poller.now ELSE readAt[p][n]]]
  PROVE  /\ DOMAIN readAt' = Publications
         /\ \A q \in Publications \ {p} : readAt'[q] = readAt[q]
         /\ DOMAIN readAt'[p] = DOMAIN readAt[p] \cup {k}
         /\ readAt'[p][k] = poller.now
         /\ \A n \in DOMAIN readAt[p] : readAt'[p][n] = readAt[p][n]
         /\ \A q \in Publications : /\ DOMAIN readAt'[q] \subseteq 1..ChunksOf[q]
                                    /\ readAt'[q] \in [DOMAIN readAt'[q] -> 0..MaxClock]
                                    /\ \A n \in DOMAIN readAt'[q] : readAt'[q][n] <= poller.now
<1>1. /\ DOMAIN readAt = Publications /\ poller.now \in 0..MaxClock /\ poller.now \in Nat
      /\ DOMAIN readAt[p] \subseteq 1..ChunksOf[p]
      /\ \A q \in Publications : /\ DOMAIN readAt[q] \subseteq 1..ChunksOf[q]
                                 /\ readAt[q] \in [DOMAIN readAt[q] -> 0..MaxClock]
                                 /\ \A n \in DOMAIN readAt[q] : readAt[q][n] <= poller.now
  BY MirrorBounds DEF MirrorTypeOK, Clocked
<1>2. PICK r, D : r = readAt[p] /\ D = DOMAIN readAt[p]
  OBVIOUS
<1>3. /\ readAt'[p] = [n \in D \cup {k} |-> IF n = k THEN poller.now ELSE r[n]]
      /\ \A q \in Publications \ {p} : readAt'[q] = readAt[q]
      /\ DOMAIN readAt' = Publications
  BY <1>1, <1>2
<1>4. /\ DOMAIN readAt'[p] = D \cup {k} /\ readAt'[p][k] = poller.now
      /\ \A n \in D : readAt'[p][n] = r[n]
  BY <1>2, <1>3
<1>5. /\ readAt'[p] \in [D \cup {k} -> 0..MaxClock]
      /\ \A n \in D \cup {k} : readAt'[p][n] <= poller.now
  <2>1. \A n \in D : r[n] \in 0..MaxClock /\ r[n] <= poller.now
    BY <1>1, <1>2
  <2> QED  BY <1>1, <1>3, <2>1
<1> QED  BY <1>1, <1>2, <1>3, <1>4, <1>5

\* A sequence in order gains what comes after all of it.
LEMMA OrderGrows ==
  ASSUME NEW s \in Seq(Emission), NEW e \in Emission, InOrder(s),
         \A i \in 1..Len(s) : CompleteBefore(s[i].of, e.of)
  PROVE  /\ InOrder(Append(s, e)) /\ Append(s, e) \in Seq(Emission)
         /\ Len(Append(s, e)) = Len(s) + 1 /\ ToSet(Append(s, e)) = ToSet(s) \cup {e}
         /\ \A i \in 1..(Len(s) + 1) : Append(s, e)[i] = IF i = Len(s) + 1 THEN e ELSE s[i]
<1>1. PICK n \in Nat : n = Len(s)
  BY LenProperties
<1>2. /\ Append(s, e) \in Seq(Emission) /\ Len(Append(s, e)) = n + 1
      /\ \A i \in 1..(n + 1) : Append(s, e)[i] = IF i = n + 1 THEN e ELSE s[i]
  BY <1>1, OneMore
<1>3. InOrder(Append(s, e))
  <2> SUFFICES ASSUME NEW i \in 1..(n + 1), NEW j \in 1..(n + 1), i < j
               PROVE  CompleteBefore(Append(s, e)[i].of, Append(s, e)[j].of)
    BY <1>2 DEF InOrder
  <2>1. i \in 1..n /\ i # n + 1 /\ (j \in 1..n \/ j = n + 1)
    OBVIOUS
  <2>2. CASE j = n + 1
    BY <1>1, <1>2, <2>1, <2>2
  <2>3. CASE j \in 1..n
    <3>1. j # n + 1
      BY <2>3
    <3> QED  BY <1>1, <1>2, <2>1, <2>3, <3>1 DEF InOrder
  <2> QED  BY <2>1, <2>2, <2>3
<1>4. ToSet(Append(s, e)) = ToSet(s) \cup {e}
  <2>1. DOMAIN s = 1..n /\ DOMAIN Append(s, e) = 1..(n + 1)
    BY <1>1, <1>2, LenProperties
  <2>2. 1..(n + 1) = (1..n) \cup {n + 1} /\ n + 1 \notin 1..n
    OBVIOUS
  <2>3. \A i \in 1..n : Append(s, e)[i] = s[i]
    BY <1>2, <2>2
  <2>4. Append(s, e)[n + 1] = e
    BY <1>2, <2>2
  <2> QED  BY <2>1, <2>2, <2>3, <2>4 DEF ToSet
<1> QED  BY <1>1, <1>2, <1>3, <1>4

\* Reading a chunk.  A publication whose chunks all came in time is complete with the last to
\* come, and only then: until then one was missing.
LEMMA IngestIInv ==
  ASSUME MirrorIInv, Ingest
  PROVE  MirrorIInv'
<1>0. /\ clock' = clock /\ feed' = feed /\ mirror' = mirror /\ outCh' = outCh /\ seen' = seen
      /\ forwarder' = forwarder /\ delivered' = delivered /\ ctxDone' = ctxDone
      /\ poller.state = "reading" /\ poller.page > 0 /\ emitting = Nothing
      /\ poller' = [poller EXCEPT !.lastSeq = @ + 1, !.page = @ - 1]
  BY DEF Ingest, topicSide, adapterSide
<1>1. /\ MirrorTypeOK /\ Reads /\ Hands /\ clock \in Nat /\ MaxClock \in Nat /\ Ttl \in Nat
      /\ poller.now \in Nat /\ poller.lastSeq \in Nat /\ poller.page \in Nat /\ Clocked /\ Complete
      /\ Numbered /\ ReadOn
  BY MirrorBounds DEF MirrorIInv, Reads
<1>2. PICK p \in Publications, k \in Nat \ {0}, i \in Nat \ {0} :
        /\ i = poller.lastSeq + 1 /\ i \in 1..Len(mirror)
        /\ mirror[i] = [of |-> p, number |-> k] /\ k \in 1..ChunksOf[p]
        /\ k \notin DOMAIN readAt[p] /\ ~AllRead(p)
        /\ \A q \in Publications : NumbersOf(q, poller.lastSeq) \subseteq NumbersOf(q, i)
        /\ k \in NumbersOf(p, i)
  BY IngestReads
<1>3. PICK g, parts, numbers, whole :
        /\ g = GroupOf(p) /\ parts = g.parts \cup {i}
        /\ numbers = {mirror[j].number : j \in parts}
        /\ whole = [of |-> p, seq |-> CHOOSE j \in parts : mirror[j].number = ChunksOf[p]]
  OBVIOUS
<1>4. PICK done \in BOOLEAN : done <=> numbers = 1..ChunksOf[p]
  OBVIOUS
<1>5. /\ groups' = [q \in (DOMAIN groups \ {p}) \cup (IF done THEN {} ELSE {p}) |->
                      IF q = p THEN [g EXCEPT !.parts = parts] ELSE groups[q]]
      /\ readAt' = [readAt EXCEPT ![p] = [n \in DOMAIN @ \cup {k} |->
                                            IF n = k THEN poller.now ELSE readAt[p][n]]]
      /\ IF done /\ p \in Decodable
         THEN emitting' = whole /\ emitted' = Append(emitted, whole)
         ELSE emitting' = emitting /\ emitted' = emitted
  <2>1. /\ poller.lastSeq + 1 = i
        /\ mirror[poller.lastSeq + 1].of = p /\ mirror[poller.lastSeq + 1].number = k
    BY <1>2
  <2>2. /\ GroupOf(p).parts \cup {poller.lastSeq + 1} = parts
        /\ ({mirror[j].number : j \in parts} = 1..ChunksOf[p]) <=> done
        /\ [of |-> p, seq |-> CHOOSE j \in parts : mirror[j].number = ChunksOf[p]] = whole
    BY <1>3, <1>4, <2>1
  <2>3. groups' = [q \in (DOMAIN groups \ {p}) \cup (IF done THEN {} ELSE {p}) |->
                     IF q = p THEN [g EXCEPT !.parts = parts] ELSE groups[q]]
    BY <1>3, <2>1, <2>2 DEF Ingest
  <2>4. readAt' = [readAt EXCEPT ![p] = [n \in DOMAIN @ \cup {k} |->
                                           IF n = k THEN poller.now ELSE readAt[p][n]]]
    BY <2>1 DEF Ingest
  <2>5. IF done /\ p \in Decodable
        THEN emitting' = whole /\ emitted' = Append(emitted, whole)
        ELSE emitting' = emitting /\ emitted' = emitted
    BY <2>1, <2>2 DEF Ingest
  <2> QED  BY <2>3, <2>4, <2>5
<1>6. /\ poller' \in [state: {"none", "idle", "reading"}, start: Nat, lastSeq: Nat, page: Nat,
                      now: 0..MaxClock]
      /\ poller'.state = "reading" /\ poller'.lastSeq = i /\ poller'.now = poller.now
      /\ poller'.lastSeq + poller'.page <= Len(mirror)
  <2>1. PICK f \in Nat, L \in Nat : f = poller.page - 1 /\ L = Len(mirror)
    <3>1. Len(mirror) \in Nat
      BY <1>1, MirrorBounds
    <3>2. poller.page - 1 \in Nat
      BY <1>0, <1>1
    <3> QED  BY <3>1, <3>2
  <2>2. i + f <= L
    BY <1>1, <1>2, <2>1 DEF MirrorTypeOK
  <2>3. poller' = [poller EXCEPT !.lastSeq = i, !.page = f]
    BY <1>0, <1>1, <1>2, <2>1 DEF MirrorTypeOK
  <2> QED  BY <1>0, <1>1, <2>1, <2>2, <2>3 DEF MirrorTypeOK
<1>7. /\ DOMAIN readAt' = Publications
      /\ \A q \in Publications \ {p} : readAt'[q] = readAt[q]
      /\ DOMAIN readAt'[p] = DOMAIN readAt[p] \cup {k}
      /\ readAt'[p][k] = poller.now
      /\ \A n \in DOMAIN readAt[p] : readAt'[p][n] = readAt[p][n]
      /\ \A q \in Publications : /\ DOMAIN readAt'[q] \subseteq 1..ChunksOf[q]
                                 /\ readAt'[q] \in [DOMAIN readAt'[q] -> 0..MaxClock]
                                 /\ \A n \in DOMAIN readAt'[q] : readAt'[q][n] <= poller.now
  BY <1>1, <1>2, <1>5, ReadingsGrow
\* The group of the publication and its numbers.
<1>8. /\ g \in Group /\ g.parts \subseteq 1..poller.lastSeq
      /\ p \in DOMAIN groups => g = groups[p]
      /\ p \notin DOMAIN groups => g.parts = {} /\ g.arrived = poller.now
      /\ \A j \in g.parts : mirror[j].of = p
  <2>1. CASE p \in DOMAIN groups
    BY <1>1, <1>3, <2>1 DEF GroupOf, MirrorTypeOK, Complete
  <2>2. CASE p \notin DOMAIN groups
    BY <1>1, <1>3, <2>2 DEF GroupOf, MirrorTypeOK, Group
  <2> QED  BY <2>1, <2>2
<1>9. /\ numbers = {mirror[j].number : j \in g.parts} \cup {k}
      /\ \A j \in parts : mirror[j].of = p
  BY <1>2, <1>3, <1>8
<1>10. {mirror[j].number : j \in g.parts} \subseteq DOMAIN readAt[p]
  BY <1>1, <1>8 DEF PartNumbers, ReadOn
<1>11. numbers \subseteq DOMAIN readAt'[p]
  BY <1>7, <1>9, <1>10
<1>12. parts \subseteq 1..i /\ parts # {} /\ parts \subseteq Nat \ {0}
  <2>1. 1..poller.lastSeq \subseteq 1..i /\ i \in 1..i /\ 1..i \subseteq Nat \ {0}
    BY <1>1, <1>2
  <2> QED  BY <1>3, <1>8, <2>1
\* What is complete was all read, and its sequence number is the place of its last part.
<1>13. done => /\ DOMAIN readAt'[p] = 1..ChunksOf[p] /\ whole \in Emission /\ whole.of = p
               /\ whole.seq <= i /\ mirror[whole.seq] = [of |-> p, number |-> ChunksOf[p]]
  <2> SUFFICES ASSUME done
               PROVE  /\ DOMAIN readAt'[p] = 1..ChunksOf[p] /\ whole \in Emission
                      /\ whole.of = p /\ whole.seq <= i
                      /\ mirror[whole.seq] = [of |-> p, number |-> ChunksOf[p]]
    OBVIOUS
  <2>1. DOMAIN readAt'[p] = 1..ChunksOf[p]
    BY <1>4, <1>7, <1>11
  <2>2. \E j \in parts : mirror[j].number = ChunksOf[p]
    <3>1. ChunksOf[p] \in Nat \ {0}
      BY <1>1, MirrorBounds
    <3>2. ChunksOf[p] \in numbers
      BY <1>4, <3>1
    <3> QED  BY <1>3, <3>2
  <2>3. PICK h : h = CHOOSE j \in parts : mirror[j].number = ChunksOf[p]
    OBVIOUS
  <2>4. h \in parts /\ mirror[h].number = ChunksOf[p]
    BY <2>2, <2>3
  <2>5. h \in Nat \ {0} /\ h <= i /\ h \in 1..Len(mirror) /\ mirror[h].of = p
    <3>1. h \in 1..i /\ Len(mirror) \in Nat
      BY <1>1, <1>12, <2>4, MirrorBounds
    <3> QED  BY <1>2, <1>9, <2>4, <3>1
  <2>6. mirror[h] = [of |-> p, number |-> ChunksOf[p]]
    <3>1. PICK a \in Chunk : a = mirror[h]
      BY <1>1, <2>5, MirrorBounds
    <3>2. a = [of |-> a.of, number |-> a.number]
      BY DEF Chunk
    <3> QED  BY <2>4, <2>5, <3>1, <3>2
  <2>7. whole = [of |-> p, seq |-> h]
    BY <1>3, <2>3
  <2> QED  BY <2>1, <2>5, <2>6, <2>7 DEF Emission
\* The groups afterwards.
<1>15. /\ DOMAIN groups' = (DOMAIN groups \ {p}) \cup (IF done THEN {} ELSE {p})
       /\ \A q \in DOMAIN groups' \ {p} : q \in DOMAIN groups /\ groups'[q] = groups[q]
       /\ p \in DOMAIN groups' <=> ~done
       /\ p \in DOMAIN groups' => groups'[p] = [arrived |-> g.arrived, parts |-> parts]
  BY <1>5, <1>8 DEF Group
<1>16. /\ \A q \in DOMAIN groups' \ {p} : PartNumbers(q)' = PartNumbers(q)
       /\ p \in DOMAIN groups' => PartNumbers(p)' = numbers
  BY <1>0, <1>3, <1>15 DEF PartNumbers
<1>17. /\ DOMAIN groups' \subseteq Publications /\ groups' \in [DOMAIN groups' -> Group]
       /\ \A q \in DOMAIN groups' : groups'[q].parts \subseteq 1..i
  <2>1. \A q \in DOMAIN groups : /\ groups[q] \in Group /\ q \in Publications
                                 /\ groups[q].parts \subseteq 1..poller.lastSeq
    BY <1>1 DEF MirrorTypeOK
  <2>2. 1..poller.lastSeq \subseteq 1..i
    BY <1>1, <1>2
  <2>3. groups' = [q \in DOMAIN groups' |-> groups'[q]]
    BY <1>5
  <2>4. \A q \in DOMAIN groups' : groups'[q] \in Group /\ groups'[q].parts \subseteq 1..i
    <3> SUFFICES ASSUME NEW q \in DOMAIN groups'
                 PROVE  groups'[q] \in Group /\ groups'[q].parts \subseteq 1..i
      OBVIOUS
    <3>1. CASE q = p
      <4>1. groups'[q] = [arrived |-> g.arrived, parts |-> parts]
        BY <1>15, <3>1
      <4>2. g.arrived \in 0..MaxClock /\ parts \in SUBSET Nat
        BY <1>8, <1>12 DEF Group
      <4> QED  BY <1>12, <4>1, <4>2 DEF Group
    <3>2. CASE q # p
      BY <1>15, <2>1, <2>2, <3>2
    <3> QED  BY <3>1, <3>2
  <2>5. DOMAIN groups' \subseteq Publications
    BY <1>15, <2>1
  <2> QED  BY <2>3, <2>4, <2>5
<1>18. \A q \in DOMAIN groups' : /\ groups'[q].parts # {} /\ PartNumbers(q)' # 1..ChunksOf[q]
                                 /\ \A j \in groups'[q].parts : mirror[j].of = q
  <2> SUFFICES ASSUME NEW q \in DOMAIN groups'
               PROVE  /\ groups'[q].parts # {} /\ PartNumbers(q)' # 1..ChunksOf[q]
                      /\ \A j \in groups'[q].parts : mirror[j].of = q
    OBVIOUS
  <2>1. CASE q = p
    <3>1. ~done /\ groups'[q].parts = parts /\ PartNumbers(q)' = numbers
      BY <1>15, <1>16, <2>1
    <3> QED  BY <1>4, <1>9, <1>12, <2>1, <3>1
  <2>2. CASE q # p
    BY <1>1, <1>15, <1>16, <2>2 DEF Complete
  <2> QED  BY <2>1, <2>2
\* What was emitted before is of other publications, and they are complete before this one.
<1>19. PICK m \in Nat : m = Len(emitted) /\ DOMAIN emitted = 1..m
  BY <1>1, LenProperties DEF MirrorTypeOK
<1>20. \A j \in 1..m : /\ emitted[j] \in Emission /\ emitted[j].of \in Publications \ {p}
                       /\ AllRead(emitted[j].of) /\ CompleteBefore(emitted[j].of, p)
                       /\ emitted[j].seq \in Nat \ {0} /\ emitted[j].seq <= i
                       /\ mirror[emitted[j].seq] =
                            [of |-> emitted[j].of, number |-> ChunksOf[emitted[j].of]]
  <2> SUFFICES ASSUME NEW j \in 1..m
               PROVE  /\ emitted[j] \in Emission /\ emitted[j].of \in Publications \ {p}
                      /\ AllRead(emitted[j].of) /\ CompleteBefore(emitted[j].of, p)
                      /\ emitted[j].seq \in Nat \ {0} /\ emitted[j].seq <= i
                      /\ mirror[emitted[j].seq] =
                           [of |-> emitted[j].of, number |-> ChunksOf[emitted[j].of]]
    OBVIOUS
  <2>1. emitted \in Seq(Emission)
    BY <1>1 DEF MirrorTypeOK
  <2>2. PICK q, z : q = emitted[j].of /\ z = emitted[j].seq
    OBVIOUS
  <2>3. emitted[j] \in Emission /\ q \in Publications /\ z \in Nat \ {0}
    <3>1. emitted[j] \in Emission
      BY <1>19, <2>1, ElementOfSeq
    <3> QED  BY <2>2, <3>1 DEF Emission
  <2>4. AllRead(q) /\ z <= poller.lastSeq /\ mirror[z] = [of |-> q, number |-> ChunksOf[q]]
    BY <1>1, <1>19, <2>2 DEF Complete
  <2>5. \A x \in 1..Len(mirror) : mirror[x].of = q => x < i
    <3>1. \A x \in 1..Len(mirror) : mirror[x].of = q => x <= poller.lastSeq
      BY <1>1, <2>3, <2>4, ReadIsBehind
    <3> QED  BY <1>1, <1>2, <3>1, MirrorBounds
  <2>6. CompleteBefore(q, p)
    BY <1>2, <2>5 DEF CompleteBefore
  <2> QED  BY <1>1, <1>2, <2>2, <2>3, <2>4, <2>6
<1>21. CompletedOf(p) = {}
  BY <1>19, <1>20 DEF CompletedOf
<1>22. \A q, r : CompleteBefore(q, r)' <=> CompleteBefore(q, r)
  BY <1>0, SameTopic
<1>23. \A q \in Publications \ {p} : AllRead(q)' <=> AllRead(q)
  BY <1>7 DEF AllRead
<1>24. ASSUME done /\ p \in Decodable
      PROVE  /\ MirrorTypeOK' /\ Complete' /\ Hands'
             /\ \A q \in Publications \ {p} : CompletedOf(q)' = CompletedOf(q)
             /\ CompletedOnce(p)'
  <2>1. /\ whole \in Emission /\ whole.of = p /\ whole.seq <= i
        /\ mirror[whole.seq] = [of |-> p, number |-> ChunksOf[p]] /\ AllRead(p)'
        /\ emitting' = whole /\ emitted' = Append(emitted, whole)
    BY <1>5, <1>13, <1>24 DEF AllRead
  <2>2. /\ InOrder(Append(emitted, whole)) /\ emitted' \in Seq(Emission) /\ Len(emitted') = m + 1
        /\ ToSet(emitted') = ToSet(emitted) \cup {whole}
        /\ \A j \in 1..(m + 1) : emitted'[j] = IF j = m + 1 THEN whole ELSE emitted[j]
    <3>1. InOrder(emitted) /\ emitted \in Seq(Emission)
      BY <1>1 DEF Complete, MirrorTypeOK
    <3>2. \A j \in 1..Len(emitted) : CompleteBefore(emitted[j].of, whole.of)
      BY <1>19, <1>20, <2>1
    <3> QED  BY <1>19, <2>1, <3>1, <3>2, OrderGrows
  <2>3. InOrder(emitted)'
    <3>1. \A a, b \in 1..(m + 1) : a < b => CompleteBefore(emitted'[a].of, emitted'[b].of)
      BY <2>1, <2>2 DEF InOrder
    <3> QED  BY <1>22, <2>2, <3>1 DEF InOrder
  <2>4. MirrorTypeOK'
    BY <1>0, <1>1, <1>6, <1>7, <1>17, <2>1, <2>2 DEF MirrorTypeOK, Valid
  <2>5. 1..(m + 1) = (1..m) \cup {m + 1} /\ m + 1 \notin 1..m
    OBVIOUS
  <2>6. /\ CompletedOf(p)' = {m + 1}
        /\ \A q \in Publications \ {p} : CompletedOf(q)' = CompletedOf(q)
    <3>1. /\ \A j \in 1..m : emitted'[j] = emitted[j] /\ emitted[j].of # p
          /\ emitted'[m + 1].of = p
      BY <1>20, <2>1, <2>2, <2>5
    <3> QED  BY <1>19, <2>2, <2>5, <3>1 DEF CompletedOf
  <2>7. CompletedOnce(p)'
    BY <2>6 DEF CompletedOnce
  <2>8. Complete'
    <3>1. ASSUME NEW j \in 1..(m + 1)
          PROVE  /\ DOMAIN readAt'[emitted'[j].of] = 1..ChunksOf[emitted'[j].of]
                 /\ emitted'[j].seq <= i
                 /\ mirror[emitted'[j].seq] =
                      [of |-> emitted'[j].of, number |-> ChunksOf[emitted'[j].of]]
      <4>1. CASE j = m + 1
        BY <2>1, <2>2, <4>1 DEF AllRead
      <4>2. CASE j # m + 1
        <5>1. j \in 1..m /\ emitted'[j] = emitted[j]
          BY <2>2, <4>2
        <5>2. /\ readAt'[emitted[j].of] = readAt[emitted[j].of] /\ AllRead(emitted[j].of)
          BY <1>7, <1>20, <5>1
        <5> QED  BY <1>20, <5>1, <5>2 DEF AllRead
      <4> QED  BY <4>1, <4>2
    <3> QED  BY <1>0, <1>6, <1>18, <2>2, <2>3, <3>1 DEF Complete, AllRead
  <2>9. Hands'
    <3>1. Held' = Held /\ Emitting' = {whole} /\ whole # Nothing
      BY <1>0, <2>1 DEF Held, Emitting, Nothing, Emission
    <3>2. \A d \in ToSet(emitted) : CompleteBefore(d.of, whole.of)
      BY <1>19, <1>20, <2>1 DEF ToSet
    <3>3. /\ Before(ToSet(delivered), {whole}) /\ Before(Held, {whole})
          /\ Before(ToSet(outCh), {whole})
      BY <1>1, <3>2 DEF Hands, InLine, Before
    <3>4. ToSet(delivered) \cup Held \cup ToSet(outCh) \cup {whole} \subseteq ToSet(emitted')
      BY <1>1, <2>2 DEF Hands, InLine
    <3>5. InLine'
      BY <1>0, <1>1, <1>22, <3>1, <3>3, <3>4 DEF Hands, InLine, Before, InOrder
    <3>6. Told'
      BY <1>0, <1>1, <3>1 DEF Hands, Told, DeliveredOncePerMessage, Dedup
    <3> QED  BY <3>5, <3>6 DEF Hands
  <2> QED  BY <2>4, <2>6, <2>7, <2>8, <2>9
<1>25. ASSUME ~(done /\ p \in Decodable)
      PROVE  /\ MirrorTypeOK' /\ Complete' /\ Hands'
             /\ \A q : CompletedOf(q)' = CompletedOf(q)
             /\ p \in Decodable => Collected(p)'
  <2>1. emitting' = emitting /\ emitted' = emitted
    BY <1>5, <1>25
  <2>2. MirrorTypeOK'
    BY <1>0, <1>1, <1>6, <1>7, <1>17, <2>1 DEF MirrorTypeOK, Valid
  <2>3. \A q : CompletedOf(q)' = CompletedOf(q)
    BY <2>1 DEF CompletedOf
  <2>4. ASSUME p \in Decodable PROVE Collected(p)'
    <3>1. ~done /\ p \in DOMAIN groups' /\ PartNumbers(p)' = numbers
          /\ groups'[p].arrived = g.arrived
      BY <1>15, <1>16, <1>25, <2>4
    <3>2. CASE DOMAIN readAt[p] = {}
      <4>1. p \notin DOMAIN groups
        <5>1. ASSUME p \in DOMAIN groups PROVE FALSE
          <6>1. g.parts # {}
            BY <1>1, <1>8, <5>1 DEF Complete
          <6> QED  BY <1>10, <3>2, <6>1
        <5> QED  BY <5>1
      <4>2. g.parts = {} /\ g.arrived = poller.now
        BY <1>8, <4>1
      <4>3. numbers = {k}
        BY <1>9, <4>2
      <4> QED  BY <1>7, <3>1, <3>2, <4>2, <4>3 DEF Collected, Gathered
    <3>3. CASE DOMAIN readAt[p] # {}
      <4>1. Collected(p)
        BY <1>1, <2>4, <3>3 DEF ReadOn
      <4>2. ASSUME Late(p) PROVE Late(p)'
        <5>1. CASE \E a, b \in DOMAIN readAt[p] : readAt[p][a] - readAt[p][b] > Ttl
          BY <1>7, <5>1 DEF Late
        <5>2. CASE \E b \in DOMAIN readAt[p] : PageTime - readAt[p][b] > Ttl
          <6>1. PICK b \in DOMAIN readAt[p] : poller.now - readAt[p][b] > Ttl
            BY <1>0, <5>2 DEF PageTime
          <6>2. readAt'[p][k] - readAt'[p][b] > Ttl /\ k \in DOMAIN readAt'[p]
                /\ b \in DOMAIN readAt'[p]
            BY <1>7, <6>1
          <6> QED  BY <6>2 DEF Late
        <5> QED  BY <4>2, <5>1, <5>2 DEF Late
      <4>3. ASSUME Gathered(p) PROVE Collected(p)'
        <5>1. g = groups[p] /\ numbers = DOMAIN readAt'[p]
          BY <1>7, <1>8, <1>9, <4>3 DEF PartNumbers, Gathered
        <5>2. PICK b \in DOMAIN readAt[p] : g.arrived = readAt[p][b]
          BY <4>3, <5>1 DEF Gathered
        <5>3. b \in DOMAIN readAt'[p] /\ groups'[p].arrived = readAt'[p][b]
          BY <1>7, <3>1, <5>2
        <5> QED  BY <3>1, <5>1, <5>3 DEF Collected, Gathered
      <4>4. ~CompletedOnce(p)
        BY <1>21 DEF CompletedOnce
      <4> QED  BY <4>1, <4>2, <4>3, <4>4 DEF Collected
    <3> QED  BY <3>2, <3>3
  <2>5. Complete'
    <3>1. \A j \in 1..m : DOMAIN readAt'[emitted[j].of] = 1..ChunksOf[emitted[j].of]
      BY <1>7, <1>20 DEF AllRead
    <3>2. InOrder(emitted)'
      BY <1>1, <1>22, <2>1 DEF Complete, InOrder
    <3> QED  BY <1>0, <1>6, <1>18, <1>19, <1>20, <2>1, <3>1, <3>2 DEF Complete, AllRead
  <2>6. Hands'
    <3>1. outCh \in Seq(Emission) /\ delivered \in Seq(Emission) /\ Held' = Held
      BY <1>0, <1>1 DEF MirrorTypeOK, Held
    <3> QED  BY <1>0, <1>1, <1>22, <2>1, <3>1, HandsFrame
  <2> QED  BY <2>2, <2>3, <2>4, <2>5, <2>6
<1>26. /\ MirrorTypeOK' /\ Complete' /\ Hands'
       /\ \A q \in Publications \ {p} : CompletedOf(q)' = CompletedOf(q)
       /\ p \in Decodable => Collected(p)'
  BY <1>24, <1>25 DEF Collected
<1>27. Numbered'
  BY <1>0, <1>1 DEF Numbered
<1>28. Clocked'
  BY <1>0, <1>1, <1>6, <1>7 DEF Clocked
<1>29. ReadOn'
  <2> SUFFICES ASSUME NEW q \in Publications
               PROVE  /\ DOMAIN readAt'[q] \subseteq NumbersOf(q, i)
                      /\ q \in DOMAIN groups' => PartNumbers(q)' \subseteq DOMAIN readAt'[q]
                      /\ q \in Decodable /\ DOMAIN readAt'[q] # {} => Collected(q)'
    BY <1>0, <1>6 DEF ReadOn, Decodable, NumbersOf
  <2>1. CASE q = p
    BY <1>1, <1>2, <1>7, <1>11, <1>16, <1>26, <2>1 DEF ReadOn
  <2>2. CASE q # p
    <3>1. /\ readAt'[q] = readAt[q] /\ (AllRead(q)' <=> AllRead(q))
          /\ CompletedOf(q)' = CompletedOf(q)
      BY <1>7, <1>23, <1>26, <2>2
    <3>2. /\ q \in DOMAIN groups' => /\ q \in DOMAIN groups /\ PartNumbers(q)' = PartNumbers(q)
          /\ q \in DOMAIN groups => /\ q \in DOMAIN groups' /\ groups'[q] = groups[q]
                                    /\ PartNumbers(q)' = PartNumbers(q)
      BY <1>15, <1>16, <2>2
    <3>3. Late(q) => Late(q)'
      <4>1. PageTime' = PageTime
        BY <1>0, <1>6 DEF PageTime
      <4> QED  BY <3>1, <4>1 DEF Late
    <3>4. Collected(q) => Collected(q)'
      BY <3>1, <3>2, <3>3 DEF Collected, Gathered, CompletedOnce
    <3> QED  BY <1>1, <1>2, <3>1, <3>2, <3>4 DEF ReadOn
  <2> QED  BY <2>1, <2>2
<1> QED  BY <1>26, <1>27, <1>28, <1>29 DEF MirrorIInv, Reads

\* A sequence in order loses its first.
LEMMA OrderOfTail ==
  ASSUME NEW q \in Seq(Emission), q # <<>>, InOrder(q)
  PROVE  /\ Head(q) \in Emission /\ Tail(q) \in Seq(Emission) /\ InOrder(Tail(q))
         /\ Len(Tail(q)) = Len(q) - 1
         /\ Head(q) \in ToSet(q) /\ ToSet(Tail(q)) \subseteq ToSet(q)
         /\ \A e \in ToSet(Tail(q)) : CompleteBefore(Head(q).of, e.of)
<1>1. /\ Head(q) \in Emission /\ Tail(q) \in Seq(Emission) /\ Len(Tail(q)) = Len(q) - 1
      /\ Head(q) = q[1] /\ \A i \in 1..Len(Tail(q)) : Tail(q)[i] = q[i + 1]
  BY HeadTailProperties
<1>2. PICK n \in Nat \ {0} : n = Len(q) /\ DOMAIN q = 1..n /\ Len(Tail(q)) = n - 1
                             /\ DOMAIN Tail(q) = 1..(n - 1)
  BY <1>1, LenProperties, EmptySeq
<1>3. \A i \in 1..(n - 1) : i + 1 \in 1..n /\ 1 < i + 1 /\ Tail(q)[i] = q[i + 1]
  BY <1>1, <1>2
<1>4. 1 \in 1..n
  OBVIOUS
<1>5. InOrder(Tail(q))
  <2> SUFFICES ASSUME NEW i \in 1..(n - 1), NEW j \in 1..(n - 1), i < j
               PROVE  CompleteBefore(Tail(q)[i].of, Tail(q)[j].of)
    BY <1>2 DEF InOrder
  <2>1. i + 1 < j + 1
    OBVIOUS
  <2> QED  BY <1>2, <1>3, <2>1 DEF InOrder
<1>6. Head(q) \in ToSet(q) /\ ToSet(Tail(q)) \subseteq ToSet(q)
  BY <1>1, <1>2, <1>3, <1>4 DEF ToSet
<1>7. \A e \in ToSet(Tail(q)) : CompleteBefore(Head(q).of, e.of)
  <2> SUFFICES ASSUME NEW i \in 1..(n - 1) PROVE CompleteBefore(Head(q).of, Tail(q)[i].of)
    BY <1>2 DEF ToSet
  <2> QED  BY <1>1, <1>2, <1>3, <1>4 DEF InOrder
<1> QED  BY <1>1, <1>5, <1>6, <1>7

\* What the poller held is behind what is in the channel.
LEMMA SendOutIInv ==
  ASSUME MirrorIInv, SendOut
  PROVE  MirrorIInv'
<1>0. /\ clock' = clock /\ feed' = feed /\ mirror' = mirror /\ poller' = poller
      /\ groups' = groups /\ readAt' = readAt /\ emitted' = emitted /\ forwarder' = forwarder
      /\ seen' = seen /\ delivered' = delivered /\ ctxDone' = ctxDone
      /\ emitting # Nothing /\ Len(outCh) < OutCap
      /\ outCh' = Append(outCh, emitting) /\ emitting' = Nothing
  BY DEF SendOut, topicSide, adapterSide
<1>1. /\ MirrorTypeOK /\ Reads /\ Hands /\ outCh \in Seq(Emission) /\ emitting \in Emission
      /\ OutCap \in Nat
  BY <1>0, MirrorBounds DEF MirrorIInv, MirrorTypeOK
<1>2. Emitting = {emitting} /\ Emitting' = {} /\ Held' = Held
      /\ \A p, q : CompleteBefore(p, q)' <=> CompleteBefore(p, q)
  BY <1>0, SameTopic DEF Emitting, Held
<1>3. DOMAIN outCh = 1..Len(outCh) /\ Len(outCh) \in Nat
  BY <1>1, LenProperties
<1>4. \A i \in 1..Len(outCh) : CompleteBefore(outCh[i].of, emitting.of)
  BY <1>1, <1>2, <1>3 DEF Hands, InLine, Before, ToSet
<1>5. /\ InOrder(outCh)' /\ outCh' \in Seq(Emission) /\ Len(outCh') = Len(outCh) + 1
      /\ ToSet(outCh') = ToSet(outCh) \cup {emitting}
  <2>1. InOrder(outCh)
    BY <1>1 DEF Hands, InLine
  <2>2. /\ InOrder(Append(outCh, emitting)) /\ outCh' \in Seq(Emission)
        /\ Len(outCh') = Len(outCh) + 1 /\ ToSet(outCh') = ToSet(outCh) \cup {emitting}
    BY <1>0, <1>1, <1>4, <2>1, OrderGrows
  <2> QED  BY <1>0, <1>2, <2>2 DEF InOrder
<1>6. MirrorTypeOK'
  <2>1. Len(outCh') <= OutCap
    BY <1>0, <1>1, <1>3, <1>5
  <2> QED  BY <1>0, <1>1, <1>5, <2>1 DEF MirrorTypeOK, Valid
<1>7. Reads'
  BY <1>0, <1>1, ReadsFrame DEF topicSide
<1>8. InLine'
  BY <1>0, <1>1, <1>2, <1>5 DEF Hands, InLine, Before, InOrder
<1>9. Told'
  BY <1>0, <1>1, <1>2 DEF Hands, Told, DeliveredOncePerMessage, Dedup
<1> QED  BY <1>6, <1>7, <1>8, <1>9 DEF MirrorIInv, Hands

\* The adapter takes the oldest; what it forwards the tracker had not seen.
LEMMA TakeIInv ==
  ASSUME MirrorIInv, TakeFromOut
  PROVE  MirrorIInv'
<1>0. /\ clock' = clock /\ feed' = feed /\ mirror' = mirror /\ poller' = poller
      /\ groups' = groups /\ readAt' = readAt /\ emitted' = emitted /\ emitting' = emitting
      /\ delivered' = delivered /\ ctxDone' = ctxDone
      /\ forwarder.state = "waiting" /\ outCh # <<>> /\ outCh' = Tail(outCh)
  BY DEF TakeFromOut, topicSide, pollerSide
<1>1. /\ MirrorTypeOK /\ Reads /\ Hands /\ outCh \in Seq(Emission) /\ OutCap \in Nat
  BY MirrorBounds DEF MirrorIInv, MirrorTypeOK
<1>2. /\ Head(outCh) \in Emission /\ outCh' \in Seq(Emission) /\ InOrder(outCh)'
      /\ Len(outCh') = Len(outCh) - 1
      /\ Head(outCh) \in ToSet(outCh) /\ ToSet(outCh') \subseteq ToSet(outCh)
      /\ \A e \in ToSet(outCh') : CompleteBefore(Head(outCh).of, e.of)
      /\ \A p, q : CompleteBefore(p, q)' <=> CompleteBefore(p, q)
  <2>1. \A p, q : CompleteBefore(p, q)' <=> CompleteBefore(p, q)
    BY <1>0, SameTopic
  <2>2. /\ Head(outCh) \in Emission /\ outCh' \in Seq(Emission) /\ InOrder(Tail(outCh))
        /\ Len(outCh') = Len(outCh) - 1
        /\ Head(outCh) \in ToSet(outCh) /\ ToSet(outCh') \subseteq ToSet(outCh)
        /\ \A e \in ToSet(outCh') : CompleteBefore(Head(outCh).of, e.of)
    BY <1>0, <1>1, OrderOfTail DEF Hands, InLine
  <2>3. InOrder(outCh)'
    BY <1>0, <2>1, <2>2 DEF InOrder
  <2> QED  BY <2>1, <2>2, <2>3
<1>3. PICK h \in Emission : h = Head(outCh)
  BY <1>2
<1>4. Held = {} /\ Emitting' = Emitting
  BY <1>0 DEF Held, Emitting
<1>5. Len(outCh') <= OutCap
  BY <1>1, <1>2, LenProperties DEF MirrorTypeOK
<1>6. Reads'
  BY <1>0, <1>1, ReadsFrame DEF topicSide
<1>7. CASE MessageOf[h.of] \notin Valid \/ IsDuplicate(MessageOf[h.of])
  <2>1. forwarder' = forwarder /\ seen' = seen
    BY <1>3, <1>7 DEF TakeFromOut
  <2>2. MirrorTypeOK'
    BY <1>0, <1>1, <1>2, <1>5, <2>1 DEF MirrorTypeOK, Valid
  <2>3. Held' = {}
    BY <1>0, <2>1 DEF Held
  <2>4. InLine'
    BY <1>0, <1>1, <1>2, <1>4, <2>3 DEF Hands, InLine, Before, InOrder
  <2>5. Told'
    BY <1>0, <1>1, <1>4, <2>1, <2>3 DEF Hands, Told, DeliveredOncePerMessage, Dedup
  <2> QED  BY <1>6, <2>2, <2>4, <2>5 DEF MirrorIInv, Hands
<1>8. CASE ~(MessageOf[h.of] \notin Valid \/ IsDuplicate(MessageOf[h.of]))
  <2>1. /\ forwarder' = [state |-> "sending", holds |-> h]
        /\ seen' = IF Dedup THEN seen \cup {MessageOf[h.of]} ELSE seen
        /\ MessageOf[h.of] \in Valid /\ (Dedup => MessageOf[h.of] \notin seen)
    BY <1>3, <1>8 DEF TakeFromOut, IsDuplicate
  <2>2. /\ forwarder' \in [state: {"none", "waiting", "sending", "stopped"},
                           holds: Emission \cup {Nothing}]
        /\ seen' \subseteq Valid
    BY <1>1, <2>1 DEF MirrorTypeOK
  <2>3. MirrorTypeOK'
    BY <1>0, <1>1, <1>2, <1>5, <2>2 DEF MirrorTypeOK, Valid
  <2>4. Held' = {h}
    BY <2>1 DEF Held
  <2>5. InLine'
    BY <1>0, <1>1, <1>2, <1>3, <1>4, <2>4 DEF Hands, InLine, Before, InOrder
  <2>6. Told'
    BY <1>0, <1>1, <1>4, <2>1, <2>4 DEF Hands, Told, DeliveredOncePerMessage, Dedup
  <2> QED  BY <1>6, <2>3, <2>5, <2>6 DEF MirrorIInv, Hands
<1> QED  BY <1>7, <1>8

\* The consumer gets what comes after all it has.
LEMMA HandOverIInv ==
  ASSUME MirrorIInv, HandOver
  PROVE  MirrorIInv'
<1>0. /\ clock' = clock /\ feed' = feed /\ mirror' = mirror /\ poller' = poller
      /\ groups' = groups /\ readAt' = readAt /\ emitted' = emitted /\ emitting' = emitting
      /\ outCh' = outCh /\ seen' = seen /\ ctxDone' = ctxDone /\ forwarder.state = "sending"
      /\ delivered' = Append(delivered, forwarder.holds)
      /\ forwarder' = [state |-> "waiting", holds |-> Nothing]
  BY DEF HandOver, topicSide, pollerSide
<1>1. MirrorTypeOK /\ Reads /\ Hands /\ delivered \in Seq(Emission)
  BY DEF MirrorIInv, MirrorTypeOK
<1>2. PICK h \in Emission : h = forwarder.holds /\ Held = {h}
  BY <1>0, <1>1 DEF Held, Hands, InLine
<1>3. PICK n \in Nat : n = Len(delivered) /\ DOMAIN delivered = 1..n
  BY <1>1, LenProperties
<1>4. \A i \in 1..n : delivered[i] \in ToSet(delivered) /\ CompleteBefore(delivered[i].of, h.of)
  BY <1>1, <1>2, <1>3 DEF Hands, InLine, Before, ToSet
<1>5. /\ InOrder(delivered)' /\ delivered' \in Seq(Emission) /\ Len(delivered') = n + 1
      /\ ToSet(delivered') = ToSet(delivered) \cup {h}
      /\ \A i \in 1..(n + 1) : delivered'[i] = IF i = n + 1 THEN h ELSE delivered[i]
      /\ \A p, q : CompleteBefore(p, q)' <=> CompleteBefore(p, q)
  <2>1. InOrder(delivered) /\ \A i \in 1..Len(delivered) : CompleteBefore(delivered[i].of, h.of)
    BY <1>1, <1>3, <1>4 DEF Hands, InLine
  <2>2. \A p, q : CompleteBefore(p, q)' <=> CompleteBefore(p, q)
    BY <1>0, SameTopic
  <2>3. /\ InOrder(Append(delivered, h)) /\ delivered' \in Seq(Emission)
        /\ Len(delivered') = n + 1 /\ ToSet(delivered') = ToSet(delivered) \cup {h}
        /\ \A i \in 1..(n + 1) : delivered'[i] = IF i = n + 1 THEN h ELSE delivered[i]
    BY <1>0, <1>1, <1>2, <1>3, <2>1, OrderGrows
  <2>4. InOrder(delivered)'
    BY <1>0, <1>2, <2>2, <2>3 DEF InOrder
  <2> QED  BY <2>2, <2>3, <2>4
<1>6. Held' = {} /\ Emitting' = Emitting
  BY <1>0 DEF Held, Emitting
<1>7. MirrorTypeOK'
  <2>1. forwarder' \in [state: {"none", "waiting", "sending", "stopped"},
                        holds: Emission \cup {Nothing}]
    BY <1>0
  <2> QED  BY <1>0, <1>1, <1>5, <2>1 DEF MirrorTypeOK, Valid
<1>8. Reads'
  BY <1>0, <1>1, ReadsFrame DEF topicSide
<1>9. InLine'
  BY <1>0, <1>1, <1>2, <1>5, <1>6 DEF Hands, InLine, Before, InOrder
<1>10. Told'
  <2> SUFFICES ASSUME Dedup PROVE /\ \A d \in ToSet(delivered') : MessageOf[d.of] \in seen
                                  /\ DeliveredOncePerMessage'
    BY <1>0, <1>6 DEF Told, Dedup
  <2>1. /\ \A d \in ToSet(delivered) \cup {h} : MessageOf[d.of] \in seen
        /\ \A d \in ToSet(delivered) : MessageOf[d.of] # MessageOf[h.of]
        /\ \A i, j \in 1..n :
             MessageOf[delivered[i].of] = MessageOf[delivered[j].of] => i = j
    BY <1>1, <1>2, <1>3 DEF Hands, Told, DeliveredOncePerMessage
  <2>2. \A i \in 1..n : MessageOf[delivered[i].of] # MessageOf[h.of]
    BY <1>4, <2>1
  <2>3. \A i \in 1..(n + 1) : i = n + 1 \/ i \in 1..n
    OBVIOUS
  <2>4. ASSUME NEW i \in 1..(n + 1), NEW j \in 1..(n + 1),
               MessageOf[delivered'[i].of] = MessageOf[delivered'[j].of]
        PROVE  i = j
    <3>1. CASE i = n + 1 /\ j = n + 1
      BY <3>1
    <3>2. CASE i = n + 1 /\ j # n + 1
      BY <1>5, <2>2, <2>3, <2>4, <3>2
    <3>3. CASE i # n + 1 /\ j = n + 1
      BY <1>5, <2>2, <2>3, <2>4, <3>3
    <3>4. CASE i # n + 1 /\ j # n + 1
      BY <1>5, <2>1, <2>3, <2>4, <3>4
    <3> QED  BY <3>1, <3>2, <3>3, <3>4
  <2> QED  BY <1>5, <2>1, <2>4 DEF DeliveredOncePerMessage
<1> QED  BY <1>7, <1>8, <1>9, <1>10 DEF MirrorIInv, Hands

\* The end of the subscription leaves all that is on its way where it is.
LEMMA EndMirrorIInv ==
  ASSUME MirrorIInv, CancelSubscription \/ StopForwarding
  PROVE  MirrorIInv'
<1>0. /\ clock' = clock /\ feed' = feed /\ mirror' = mirror /\ poller' = poller
      /\ groups' = groups /\ readAt' = readAt /\ emitted' = emitted /\ emitting' = emitting
      /\ outCh' = outCh /\ seen' = seen /\ delivered' = delivered
      /\ ctxDone' \in BOOLEAN /\ MirrorTypeOK /\ Reads /\ Hands
      /\ outCh \in Seq(Emission) /\ delivered \in Seq(Emission)
  BY DEF CancelSubscription, StopForwarding, topicSide, pollerSide, MirrorIInv, MirrorTypeOK
<1>1. /\ forwarder' \in [state: {"none", "waiting", "sending", "stopped"},
                         holds: Emission \cup {Nothing}]
      /\ Held' = Held
  <2>1. CASE CancelSubscription
    BY <1>0, <2>1 DEF CancelSubscription, Held, MirrorTypeOK
  <2>2. CASE StopForwarding
    BY <1>0, <2>2 DEF StopForwarding, Held, MirrorTypeOK
  <2> QED  BY <2>1, <2>2
<1>2. MirrorTypeOK'
  BY <1>0, <1>1 DEF MirrorTypeOK, Valid
<1>3. Reads'
  BY <1>0, ReadsFrame DEF topicSide
<1>4. Hands'
  BY <1>0, <1>1, HandsFrame, SameTopic
<1> QED  BY <1>2, <1>3, <1>4 DEF MirrorIInv

\* Every step of a subscription keeps the invariant.
LEMMA NextMirrorIInv == MirrorIInv /\ [MirrorNext]_mirrorVars => MirrorIInv'
<1> SUFFICES ASSUME MirrorIInv, [MirrorNext]_mirrorVars PROVE MirrorIInv'
  OBVIOUS
<1>1. CASE MirrorNext
  BY <1>1, SubmitIInv, SubscribeMirrorIInv, PassMinuteIInv, FetchIInv, IngestIInv, SendOutIInv,
     EndPageIInv, TakeIInv, HandOverIInv, EndMirrorIInv DEF MirrorNext
<1>2. CASE UNCHANGED mirrorVars
  <2>0. /\ clock' = clock /\ feed' = feed /\ mirror' = mirror /\ poller' = poller
        /\ groups' = groups /\ readAt' = readAt /\ emitted' = emitted /\ emitting' = emitting
        /\ outCh' = outCh /\ seen' = seen /\ delivered' = delivered /\ forwarder' = forwarder
        /\ ctxDone' = ctxDone /\ MirrorTypeOK /\ Reads /\ Hands
        /\ outCh \in Seq(Emission) /\ delivered \in Seq(Emission)
    BY <1>2 DEF mirrorVars, topicSide, pollerSide, adapterSide, MirrorIInv, MirrorTypeOK
  <2>1. MirrorTypeOK'
    BY <2>0 DEF MirrorTypeOK, Valid
  <2>2. Reads'
    BY <2>0, ReadsFrame DEF topicSide
  <2>3. Hands'
    BY <2>0, HandsFrame, SameTopic DEF Held
  <2> QED  BY <2>1, <2>2, <2>3 DEF MirrorIInv
<1> QED  BY <1>1, <1>2

\* In every state of every behaviour.
LEMMA MirrorInvariant == MirrorSpec => []MirrorIInv
BY InitMirrorIInv, NextMirrorIInv, PTL DEF MirrorSpec

\* A subscription to a mirror node holds what its declarations promise: the groups have places
\* of the topic that were read, the channel is within its capacity.
THEOREM MirrorTypeCorrect == MirrorSpec => []MirrorTypeOK
BY MirrorInvariant, PTL DEF MirrorIInv

\* A decodable publication whose chunks were all read, no two further apart than Ttl, was put
\* together exactly once, in whatever order its chunks were on the topic (chunkAssembler.ingest
\* and gcExpired).
THEOREM TimelyCompleted == MirrorSpec => []TimelyIsCompleted
<1>1. MirrorIInv => TimelyIsCompleted
  <2> SUFFICES ASSUME MirrorIInv, NEW p \in Decodable, AllRead(p),
                      \A k, n \in 1..ChunksOf[p] : readAt[p][k] - readAt[p][n] <= Ttl
               PROVE  CompletedOnce(p)
    BY DEF TimelyIsCompleted, CompletedOnce
  <2>1. /\ MirrorTypeOK /\ ReadOn /\ Complete /\ p \in Publications
        /\ ChunksOf[p] \in Nat \ {0} /\ Ttl \in Nat
    BY MirrorBounds DEF MirrorIInv, Decodable, Reads
  <2>2. DOMAIN readAt[p] = 1..ChunksOf[p] /\ 1 \in DOMAIN readAt[p]
    BY <2>1 DEF AllRead
  <2>3. Collected(p)
    BY <2>1, <2>2 DEF ReadOn
  <2>4. ~Late(p)
    <3>1. \A k \in DOMAIN readAt[p] : readAt[p][k] \in Nat
      BY <2>1, TimesAre
    <3> QED  BY <2>1, <2>2, <3>1 DEF Late
  <2>5. ~Gathered(p)
    BY <2>1, <2>2 DEF Complete, Gathered
  <2> QED  BY <2>3, <2>4, <2>5 DEF Collected
<1> QED  BY <1>1, MirrorInvariant, PTL

\* The consumer of a subscription gets whole messages, in the order in which the topic completes
\* them, whatever the order of their chunks, and with a tracker each message once
\* (chunkAssembler.ingest, adapter_hcs.go's goroutine and dedup.go).
THEOREM WholeOnce == MirrorSpec => []WholeInOrderOnce
<1>1. MirrorIInv => WholeInOrderOnce
  <2> SUFFICES ASSUME MirrorIInv PROVE WholeInOrderOnce
    OBVIOUS
  <2>1. WholeAndInOrder
    BY DEF MirrorIInv, Reads, Complete, Hands, InLine, WholeAndInOrder
  <2>2. DeliveredOncePerMessage
    BY DEF MirrorIInv, Hands, Told, DeliveredOncePerMessage
  <2> QED  BY <2>1, <2>2 DEF WholeInOrderOnce
<1> QED  BY <1>1, MirrorInvariant, PTL

(***************************************************************************)
(* All three.                                                              *)
(***************************************************************************)

\* One of the three moves, and the others stay as they are.
LEMMA TopicsInvariant == TopicsSpec => [](BusIInv /\ TopicIInv /\ MirrorIInv)
<1>1. TopicsInit => BusIInv /\ TopicIInv /\ MirrorIInv
  BY InitBusIInv, InitTopicIInv, InitMirrorIInv DEF TopicsInit
<1>2. BusIInv /\ TopicIInv /\ MirrorIInv /\ [TopicsNext]_topicsVars
        => (BusIInv /\ TopicIInv /\ MirrorIInv)'
  <2> SUFFICES ASSUME BusIInv, TopicIInv, MirrorIInv, [TopicsNext]_topicsVars
               PROVE  BusIInv' /\ TopicIInv' /\ MirrorIInv'
    OBVIOUS
  <2>1. [BusNext]_busVars /\ [TopicNext]_topicVars /\ [MirrorNext]_mirrorVars
    BY DEF TopicsNext, topicsVars
  <2> QED  BY <2>1, NextBusIInv, NextTopicIInv, NextMirrorIInv
<1> QED  BY <1>1, <1>2, PTL DEF TopicsSpec

\* The variables of the three transports keep their types.
THEOREM TopicsTypeCorrect == TopicsSpec => []TopicsTypeOK
<1>1. BusIInv /\ TopicIInv /\ MirrorIInv => TopicsTypeOK
  BY DEF BusIInv, TopicIInv, MirrorIInv, TopicsTypeOK
<1> QED  BY <1>1, TopicsInvariant, PTL
===============================================================================
