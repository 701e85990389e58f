----------------------------- MODULE EdgeValidator ----------------------------
(***************************************************************************)
(* internal/edgeapp/validator.go: the witness that reads the two commerce  *)
(* topics of an agreement, collects its five messages under their request  *)
(* id, and publishes a payment and a delivery envelope when it has all     *)
(* five.  It reads the topics independently, so messages of the two are    *)
(* handled in any merge of their orders, and a topic may be replayed.  A   *)
(* message is its type, its request id and the agreement it belongs to     *)
(* (its bytes); the envelopes' hash is over the five.                      *)
(***************************************************************************)
EXTENDS Integers, Sequences, Functions

CONSTANTS NAgreements, \* how many agreements were concluded, one after the other
          Reuse,       \* the values of "the agreements share one request id" to try
          MaxReplays   \* bound on replays of a topic

ASSUME ValidatorAssumption ==
  NAgreements \in Nat /\ Reuse \subseteq BOOLEAN /\ MaxReplays \in Nat

VARIABLES reused,      \* whether the buyer reuses its request id
          action,      \* action[a]: how the buyer answers the invoice of a
          position,    \* position[t]: how much of it the validator has read
          replays,     \* replays so far
          agreements,  \* agreements: the snapshot of each request id seen
          emittedKeys, \* emitted: the keys whose envelopes were published
          evidence,    \* what is on the validator's stdOut
          watching     \* whether Run still runs

validatorVars == <<reused, action, position, replays, agreements, emittedKeys, evidence,
                   watching>>

Agreements == 1..NAgreements

\* Where the buyer and the seller publish each message of an agreement, in this order
\* (a witness joins after the fact, and reads as slowly as it likes; another payload, a
\* connection setup, comes first).
TopicOrder ==
  [t \in {"seller.stdIn", "buyer.stdIn"} |->
     IF t = "seller.stdIn" THEN <<"serviceRequest", "escrowCreated", "invoiceAck">>
                           ELSE <<"serviceResponse", "invoice">>]

CommerceTopics == DOMAIN TopicOrder
MessageTypes == UNION {Range(TopicOrder[t]) : t \in CommerceTopics}

topicLog(t) ==
  LET n == Len(TopicOrder[t]) IN
  <<[type |-> "other", agreement |-> 1]>> \o
  [i \in 1..(n * NAgreements) |->
     [type |-> TopicOrder[t][((i - 1) % n) + 1], agreement |-> ((i - 1) \div n) + 1]]

requestID(a) == IF reused THEN 1 ELSE a
RequestIds == {requestID(a) : a \in Agreements}

\* A snapshot: the message of each type seen last, by the agreement it belongs to.
Snapshots == UNION {[T -> Agreements] : T \in SUBSET MessageTypes}

ValidatorTypeOK ==
  /\ \A t \in CommerceTopics : position[t] \in 0..Len(topicLog(t))
  /\ DOMAIN agreements \subseteq RequestIds
  /\ \A r \in DOMAIN agreements : agreements[r] \in Snapshots
  /\ emittedKeys \subseteq RequestIds \X Agreements
  /\ replays \in 0..MaxReplays

ValidatorInit ==
  /\ reused \in Reuse
  /\ action \in [Agreements -> {"approved", "refused"}]
  /\ position = [t \in CommerceTopics |-> 0]
  /\ replays = 0
  /\ agreements = << >> /\ emittedKeys = {} /\ evidence = << >>
  /\ watching = TRUE

-----------------------------------------------------------------------------

\* The backend starts a topic again from its first message.
ReplayTopic(t) ==
  /\ replays < MaxReplays
  /\ position[t] > 0
  /\ position' = [position EXCEPT ![t] = 0]
  /\ replays' = replays + 1
  /\ UNCHANGED <<reused, action, agreements, emittedKeys, evidence, watching>>

\* A map with one entry added or replaced.
Put(f, key, value) == [k \in DOMAIN f \cup {key} |-> IF k = key THEN value ELSE f[k]]

IsComplete(snap) == DOMAIN snap = MessageTypes

\* The key holds the hash of the ServiceResponse.
emitKey(r, snap) == <<r, snap["serviceResponse"]>>

\* Faulty variant: any acknowledgement counts as an approval.
verdictAny(snap) == "compliant"

verdict(snap) ==
  IF action[snap["invoiceAck"]] = "approved" THEN "compliant" ELSE "nonCompliant"

\* Each envelope is signed and published on its own: a failure is logged, and loses it.
emitEnvelopes(r, snap) ==
  LET payment == [spec |-> "008-payment", id |-> r, of |-> snap, verdict |-> verdict(snap)]
      delivery == [spec |-> "009-p2p-data-delivery", id |-> r, of |-> snap,
                   verdict |-> "inconclusive"]
  IN \E published \in {<< >>, <<payment>>, <<delivery>>, <<payment, delivery>>} :
       evidence' = evidence \o published

\* Faulty variant: the acknowledgement is taken for the last message to arrive.
collectAtAck(r, type, a) ==
  LET snap == Put(IF r \in DOMAIN agreements THEN agreements[r] ELSE << >>, type, a)
  IN /\ agreements' = Put(agreements, r, snap)
     /\ IF type = "invoiceAck" /\ IsComplete(snap) /\ emitKey(r, snap) \notin emittedKeys
        THEN emitEnvelopes(r, snap) /\ emittedKeys' = emittedKeys \cup {emitKey(r, snap)}
        ELSE UNCHANGED <<evidence, emittedKeys>>

\* The tail of handleDelivery: the message goes into the snapshot of its request id; a
\* complete snapshot whose key is new is emitted, and its key kept even if that failed.
Collect(r, type, a) ==
  LET snap == Put(IF r \in DOMAIN agreements THEN agreements[r] ELSE << >>, type, a)
  IN /\ agreements' = Put(agreements, r, snap)
     /\ IF IsComplete(snap) /\ emitKey(r, snap) \notin emittedKeys
        THEN emitEnvelopes(r, snap) /\ emittedKeys' = emittedKeys \cup {emitKey(r, snap)}
        ELSE UNCHANGED <<evidence, emittedKeys>>

handleDelivery(t) ==
  /\ watching
  /\ position[t] < Len(topicLog(t))
  /\ position' = [position EXCEPT ![t] = @ + 1]
  /\ LET msg == topicLog(t)[position[t] + 1] IN
     IF msg.type = "other"
     THEN UNCHANGED <<agreements, emittedKeys, evidence>>
     ELSE Collect(requestID(msg.agreement), msg.type, msg.agreement)
  /\ UNCHANGED <<reused, action, replays, watching>>

StopWatching ==
  /\ watching
  /\ watching' = FALSE
  /\ UNCHANGED <<reused, action, position, replays, agreements, emittedKeys, evidence>>

ValidatorNext ==
  \/ \E t \in CommerceTopics : ReplayTopic(t) \/ handleDelivery(t)
  \/ StopWatching

ValidatorSpec == ValidatorInit /\ [][ValidatorNext]_validatorVars

-----------------------------------------------------------------------------

Payments == {i \in DOMAIN evidence : evidence[i].spec = "008-payment"}

\* Terms are attested at most once, whatever is replayed and in whatever order the two
\* topics are read (validator.go:110-116).
AttestedOnce ==
  \A i, j \in Payments :
    /\ evidence[i].id = evidence[j].id
    /\ evidence[i].of["serviceResponse"] = evidence[j].of["serviceResponse"]
    => i = j

OfOneAgreement(snap) == \A s, t \in MessageTypes : snap[s] = snap[t]

\* As long as request ids are fresh, the evidence of an agreement is about its own five
\* messages, and its verdict is the buyer's answer to its own invoice.
EvidenceIsTrue ==
  ~reused => \A i \in Payments :
               /\ OfOneAgreement(evidence[i].of)
               /\ (evidence[i].verdict = "compliant") <=> action[evidence[i].id] = "approved"

\* No order of the two topics and no replay keeps an agreement from being attested: with fresh
\* request ids, whoever has read both topics to the end has emitted every agreement.
SettledIsAttested ==
  ~reused /\ (\A t \in CommerceTopics : position[t] = Len(topicLog(t)))
    => emittedKeys = {<<a, a>> : a \in Agreements}

\* The evidence is complete, says each thing once, and is true.
EvidenceIsSound == AttestedOnce /\ EvidenceIsTrue /\ SettledIsAttested

=============================================================================
