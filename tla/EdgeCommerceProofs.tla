-------------------------- MODULE EdgeCommerceProofs --------------------------
(***************************************************************************)
(* Proofs about the paid edge feed, for any number of workers, requests    *)
(* and rounds, with and without faults, on a bus that replays and on one   *)
(* that does not: what EdgeCommerce's invariants say, and that the two     *)
(* processes implement the trade of PaidAgreement.                         *)
(*                                                                         *)
(* No invariant of EdgeCommerce is inductive: the seller trusts a message, *)
(* and the escrow changes between the steps of a worker.  IInv adds what   *)
(* makes that work: every message ever posted is true and stays true       *)
(* (TrueMessages), a worker in a given phase knows how far its agreement   *)
(* has come (SessionStages), no two workers have the same agreement        *)
(* (OwnRequests), and the seller that is about to publish an invoice       *)
(* claimed the price in this round, so that it published none before       *)
(* (SellerStage).                                                          *)
(***************************************************************************)
EXTENDS EdgeCommerce, SequenceTheorems, TLAPS

\* Where an escrow is that holds the price or has paid it; and that was claimed.
Funded == {"funded", "requested", "paid"}
Claimed == {"requested", "paid"}

\* Every message on any topic.
Posted == UNION {{topic[t][i] : i \in DOMAIN topic[t]} : t \in Topics}

\* The worker is in a session, which has a request.
Active(b) == worker[b].phase \notin {"start", "request"}

\* Every session has a request of its own, and what was not requested yet has no escrow.
OwnRequests ==
  /\ \A b \in Buyers : Active(b) => worker[b].request < nextRequest
  /\ \A b, c \in Buyers :
       Active(b) /\ Active(c) /\ worker[b].request = worker[c].request => b = c
  /\ \A r \in Requests : r >= nextRequest => escrow[r] = "none"

\* What a worker knows of its agreement, phase by phase.
SessionStage(phase, r) ==
  /\ phase \in {"subscribeResponse", "awaitResponse", "createEscrow"} => escrow[r] = "none"
  /\ phase = "deposit" => escrow[r] = "created"
  /\ phase \in {"createEscrow", "deposit"} => sellerSide[r] # "IDLE"
  /\ phase = "announce" => escrow[r] \in Funded
  /\ phase \notin {"start", "request", "acknowledge"} => escrow[r] # "paid"
  /\ phase = "approve" => buyerSide[r] = "INVOICED"
  /\ phase = "acknowledge" => escrow[r] = "paid"

SessionStages == \A b \in Buyers : SessionStage(worker[b].phase, worker[b].request)

\* What a message says is so, and stays so.
TrueMessage(m) ==
  /\ m.type = "serviceRequest" => m.from \in Buyers
  /\ m.type = "serviceResponse" => sellerSide[m.request] # "IDLE"
  /\ m.type = "escrowCreated" => escrow[m.request] \in Funded
  /\ m.type = "invoice" => escrow[m.request] \in Claimed
  /\ m.type = "invoiceAck" => escrow[m.request] = "paid"

TrueMessages == \A m \in Posted : TrueMessage(m)

\* What the seller knows of its agreement, phase by phase.
SellerStage ==
  /\ seller.phase \notin {"gate", "awaitRequest", "stopped"} => sellerSide[seller.request] # "IDLE"
  /\ seller.phase = "publishInvoice" =>
       /\ escrow[seller.request] \in Claimed
       /\ \A m \in Posted : m.type = "invoice" => m.request # seller.request

\* Nothing is paid out that the buyer's machine has not seen invoiced.
PaidWasInvoiced == \A r \in Requests : escrow[r] = "paid" => buyerSide[r] \in {"INVOICED", "ACTIVE"}

Knowledge ==
  /\ OwnRequests /\ SessionStages /\ TrueMessages /\ SellerStage /\ PaidWasInvoiced
  /\ ServedIsFunded

IInv == CommerceTypeOK /\ Knowledge

\* An entry of the table is an event the state allows.
LEMMA EntryAllowed ==
  ASSUME NEW state, NEW event, NEW next, <<state, event, next>> \in transitions
  PROVE  Allowed(state, event)
<1>1. <<state, event, next>>[1] = state /\ <<state, event, next>>[2] = event
  OBVIOUS
<1> QED  BY <1>1 DEF Allowed

\* Transition of an allowed event is the next state of an entry of the table.
LEMMA TransitionDefined ==
  ASSUME NEW state, NEW event, Allowed(state, event)
  PROVE  /\ Transition(state, event) \in AgreementState
         /\ <<state, event, Transition(state, event)>> \in transitions
<1>1. PICK t \in transitions : t[1] = state /\ t[2] = event
  BY DEF Allowed
<1>2. t = <<t[1], t[2], t[3]>> /\ t[3] \in AgreementState
  BY <1>1 DEF transitions, AgreementState, Cancellable
<1>3. \E next \in AgreementState : <<state, event, next>> \in transitions
  BY <1>1, <1>2
<1> QED  BY <1>3 DEF Transition

\* No event leads back to IDLE; INVOICE leads to INVOICED and its approval to ACTIVE.
LEMMA TransitionAdvances ==
  ASSUME NEW state, NEW event, Allowed(state, event)
  PROVE  /\ Transition(state, event) \in AgreementState \ {"IDLE"}
         /\ event = "INVOICE" => Transition(state, event) = "INVOICED"
         /\ event = "INVOICE_APPROVED" => Transition(state, event) = "ACTIVE"
<1>1. <<state, event, Transition(state, event)>> \in transitions
  BY TransitionDefined
<1>2. \A next : <<state, event, next>> \in transitions
        => /\ next \in AgreementState \ {"IDLE"}
           /\ event = "INVOICE" => next = "INVOICED"
           /\ event = "INVOICE_APPROVED" => next = "ACTIVE"
  BY DEF transitions, AgreementState, Cancellable
<1> QED  BY <1>1, <1>2

\* The machine a seller accepts a request with is not in IDLE any more.
LEMMA Accepted ==
  Transition(Transition("IDLE", "SERVICE_REQUEST"), "ACCEPT") \in AgreementState \ {"IDLE"}
<1>1. Allowed("IDLE", "SERVICE_REQUEST")
  <2>1. <<"IDLE", "SERVICE_REQUEST", "REQUESTED">> \in transitions
    BY DEF transitions
  <2> QED  BY <2>1, EntryAllowed
<1>2. Transition("IDLE", "SERVICE_REQUEST") = "REQUESTED"
  <2>1. \A next : <<"IDLE", "SERVICE_REQUEST", next>> \in transitions => next = "REQUESTED"
    BY DEF transitions, Cancellable
  <2> QED  BY <1>1, <2>1, TransitionDefined
<1>3. Allowed("REQUESTED", "ACCEPT")
  <2>1. <<"REQUESTED", "ACCEPT", "AGREED">> \in transitions
    BY DEF transitions
  <2> QED  BY <2>1, EntryAllowed
<1> QED  BY <1>2, <1>3, TransitionAdvances

\* Delivery starts in FUNDED, and does not lead back to IDLE.
LEMMA Started ==
  /\ Allowed("FUNDED", "DELIVERY_STARTED")
  /\ Transition("FUNDED", "DELIVERY_STARTED") \in AgreementState \ {"IDLE"}
<1>1. Allowed("FUNDED", "DELIVERY_STARTED")
  <2>1. <<"FUNDED", "DELIVERY_STARTED", "ACTIVE">> \in transitions
    BY DEF transitions
  <2> QED  BY <2>1, EntryAllowed
<1> QED  BY <1>1, TransitionAdvances

-----------------------------------------------------------------------------
(* Topics *)

\* Publishing adds one message to what is posted.
LEMMA Published ==
  ASSUME topic \in [Topics -> Seq(Message)], NEW t \in Topics, NEW type \in MessageType,
         NEW r \in Requests, NEW from \in Topics, publishCommerce(t, type, r, from)
  PROVE  /\ topic' \in [Topics -> Seq(Message)]
         /\ Posted' = Posted \cup {[type |-> type, request |-> r, from |-> from]}
<1> DEFINE m == [type |-> type, request |-> r, from |-> from]
<1>1. m \in Message
  BY DEF Message, Messages
<1>2. topic' = [topic EXCEPT ![t] = Append(topic[t], m)]
  BY DEF publishCommerce
<1> HIDE DEF m
<1>3. topic[t] \in Seq(Message) /\ Append(topic[t], m) \in Seq(Message)
  BY <1>1
<1>4. topic' \in [Topics -> Seq(Message)]
  BY <1>2, <1>3
<1>5. \A u \in Topics : topic'[u] = IF u = t THEN Append(topic[t], m) ELSE topic[u]
  BY <1>2
<1>6. /\ DOMAIN topic'[t] = DOMAIN topic[t] \cup {Len(topic[t]) + 1}
      /\ \A i \in DOMAIN topic[t] : topic'[t][i] = topic[t][i]
      /\ topic'[t][Len(topic[t]) + 1] = m
  <2>1. topic'[t] = Append(topic[t], m)
    BY <1>5
  <2>2. Len(topic[t]) \in Nat /\ DOMAIN topic[t] = 1..Len(topic[t])
    BY <1>3
  <2>3. /\ DOMAIN Append(topic[t], m) = 1..(Len(topic[t]) + 1)
        /\ \A i \in 1..Len(topic[t]) : Append(topic[t], m)[i] = topic[t][i]
        /\ Append(topic[t], m)[Len(topic[t]) + 1] = m
    BY <1>1, <1>3, AppendProperties
  <2>4. 1..(Len(topic[t]) + 1) = 1..Len(topic[t]) \cup {Len(topic[t]) + 1}
    BY <2>2
  <2> QED  BY <2>1, <2>2, <2>3, <2>4
<1>7. Posted' = Posted \cup {m}
  <2>1. \A n : n \in Posted' <=> \E u \in Topics : \E i \in DOMAIN topic'[u] : n = topic'[u][i]
    BY DEF Posted
  <2>2. \A n : n \in Posted <=> \E u \in Topics : \E i \in DOMAIN topic[u] : n = topic[u][i]
    BY DEF Posted
  <2>3. \A n : n \in Posted' => n \in Posted \cup {m}
    BY <2>1, <2>2, <1>5, <1>6
  <2>4. Posted \subseteq Posted'
    <3> SUFFICES ASSUME NEW n \in Posted PROVE n \in Posted'
      OBVIOUS
    <3>1. PICK u \in Topics : \E i \in DOMAIN topic[u] : n = topic[u][i]
      BY <2>2
    <3>2. PICK i \in DOMAIN topic[u] : n = topic[u][i]
      BY <3>1
    <3>3. i \in DOMAIN topic'[u] /\ n = topic'[u][i]
      BY <3>2, <1>5, <1>6
    <3> QED  BY <3>3, <2>1
  <2>5. m \in Posted'
    BY <2>1, <1>6
  <2> QED  BY <2>3, <2>4, <2>5
<1> QED  BY <1>4, <1>7 DEF m

\* What a subscriber waits for is a message that was posted.
LEMMA AwaitedIsPosted ==
  ASSUME topic \in [Topics -> Seq(Message)], NEW t \in Topics, NEW cursor \in Nat \ {0},
         NEW wanted, NEW i \in Awaited(t, cursor, wanted)
  PROVE  /\ i \in Nat \ {0} /\ topic[t][i] \in Message
         /\ topic[t][i] \in wanted /\ topic[t][i] \in Posted
<1>1. i \in DOMAIN topic[t] /\ i \in Nat \ {0} /\ topic[t][i] \in wanted
  BY DEF Awaited
<1>2. topic[t][i] \in Message
  BY <1>1
<1>3. topic[t][i] \in Posted
  BY <1>1 DEF Posted
<1> QED  BY <1>1, <1>2, <1>3

\* A subscription starts at a place of the topic, counted from 1.
LEMMA SubscriptionStarts ==
  ASSUME topic \in [Topics -> Seq(Message)], NEW t \in Topics
  PROVE  Subscribe(t) \in Nat \ {0}
BY DEF Subscribe

-----------------------------------------------------------------------------
(* Processes *)

\* The step leaves b in the given phase of the given request, and every other worker alone.
WorkerAt(b, phase, r) ==
  /\ worker' \in [Buyers -> WorkerState]
  /\ worker'[b].phase = phase /\ worker'[b].request = r
  /\ \A c \in Buyers \ {b} : worker'[c] = worker[c]

\* The ways in which an action updates a worker: to another phase, and with a request, a
\* cursor or a stream.
LEMMA WorkerGoes ==
  ASSUME worker \in [Buyers -> WorkerState], NEW b \in Buyers, NEW phase \in WorkerPhase,
         NEW r \in Requests, NEW cursor \in Nat \ {0}, NEW stream \in Stream \cup {NoStream}
  PROVE  /\ Goto(b, phase) => WorkerAt(b, phase, worker[b].request)
         /\ worker' = [worker EXCEPT ![b].phase = phase, ![b].request = r] => WorkerAt(b, phase, r)
         /\ worker' = [worker EXCEPT ![b].phase = phase, ![b].cursor = cursor]
              => WorkerAt(b, phase, worker[b].request)
         /\ worker' = [worker EXCEPT ![b].phase = phase, ![b].stream = stream]
              => WorkerAt(b, phase, worker[b].request)
<1>1. worker[b] \in WorkerState
  OBVIOUS
<1>2. ASSUME NEW u \in WorkerState, worker' = [worker EXCEPT ![b] = u], u.phase = phase
      PROVE  WorkerAt(b, phase, u.request)
  BY <1>2 DEF WorkerAt
<1>3. Goto(b, phase) => WorkerAt(b, phase, worker[b].request)
  <2> DEFINE u == [worker[b] EXCEPT !.phase = phase]
  <2>1. u \in WorkerState /\ u.phase = phase /\ u.request = worker[b].request
    BY <1>1 DEF WorkerState
  <2>2. Goto(b, phase) => worker' = [worker EXCEPT ![b] = u]
    BY DEF Goto
  <2> HIDE DEF u
  <2> QED  BY <1>2, <2>1, <2>2
<1>4. worker' = [worker EXCEPT ![b].phase = phase, ![b].request = r] => WorkerAt(b, phase, r)
  <2> DEFINE u == [worker[b] EXCEPT !.phase = phase, !.request = r]
  <2>1. u \in WorkerState /\ u.phase = phase /\ u.request = r
    BY <1>1 DEF WorkerState
  <2>2. worker' = [worker EXCEPT ![b].phase = phase, ![b].request = r]
          => worker' = [worker EXCEPT ![b] = u]
    OBVIOUS
  <2> HIDE DEF u
  <2> QED  BY <1>2, <2>1, <2>2
<1>5. worker' = [worker EXCEPT ![b].phase = phase, ![b].cursor = cursor]
        => WorkerAt(b, phase, worker[b].request)
  <2> DEFINE u == [worker[b] EXCEPT !.phase = phase, !.cursor = cursor]
  <2>1. u \in WorkerState /\ u.phase = phase /\ u.request = worker[b].request
    BY <1>1 DEF WorkerState
  <2>2. worker' = [worker EXCEPT ![b].phase = phase, ![b].cursor = cursor]
          => worker' = [worker EXCEPT ![b] = u]
    OBVIOUS
  <2> HIDE DEF u
  <2> QED  BY <1>2, <2>1, <2>2
<1>6. worker' = [worker EXCEPT ![b].phase = phase, ![b].stream = stream]
        => WorkerAt(b, phase, worker[b].request)
  <2> DEFINE u == [worker[b] EXCEPT !.phase = phase, !.stream = stream]
  <2>1. u \in WorkerState /\ u.phase = phase /\ u.request = worker[b].request
    BY <1>1 DEF WorkerState
  <2>2. worker' = [worker EXCEPT ![b].phase = phase, ![b].stream = stream]
          => worker' = [worker EXCEPT ![b] = u]
    OBVIOUS
  <2> HIDE DEF u
  <2> QED  BY <1>2, <2>1, <2>2
<1> QED  BY <1>3, <1>4, <1>5, <1>6

\* The step leaves the seller in the given phase of the same agreement and round.
SellerAt(phase) ==
  /\ seller' \in SellerState
  /\ seller'.phase = phase /\ seller'.request = seller.request /\ seller'.buyer = seller.buyer
  /\ seller'.round = seller.round

\* The ways in which an action updates the seller within a round.
LEMMA SellerGoes ==
  ASSUME seller \in SellerState, NEW phase \in SellerPhase,
         NEW cursor \in Nat \ {0}, NEW cut \in BOOLEAN, NEW newcomer \in 0..MaxRequests
  PROVE  /\ SellerGoto(phase) => SellerAt(phase)
         /\ seller' = [seller EXCEPT !.phase = phase, !.cursor = cursor] => SellerAt(phase)
         /\ seller' = [seller EXCEPT !.cursor = cursor] => SellerAt(seller.phase)
         /\ seller' = [seller EXCEPT !.phase = phase, !.cut = cut] => SellerAt(phase)
         /\ seller' = [seller EXCEPT !.cut = cut] => SellerAt(seller.phase)
         /\ seller' = [seller EXCEPT !.phase = phase, !.newcomer = newcomer]
              => SellerAt(phase)
         /\ seller' = [seller EXCEPT !.phase = phase, !.cut = cut, !.newcomer = newcomer]
              => SellerAt(phase)
BY DEF SellerGoto, SellerAt, SellerState

\* Disconnecting streams leaves the seller where it is.
LEMMA Disconnected ==
  ASSUME seller \in SellerState, NEW streams, Disconnect(streams)
  PROVE  SellerAt(seller.phase)
<1> DEFINE cut == seller.cut \/ \E s \in streams : IsOpen(s)
<1>1. seller' = [seller EXCEPT !.cut = cut]
  BY DEF Disconnect
<1>2. cut \in BOOLEAN
  OBVIOUS
<1> HIDE DEF cut
<1> QED  BY <1>1, <1>2 DEF SellerState, SellerAt

-----------------------------------------------------------------------------
(* What is known stays known *)

\* Escrows and the seller's machines only go forward in a step.
Advances ==
  \A q \in Requests :
    /\ escrow[q] \in Funded => escrow'[q] \in Funded
    /\ escrow[q] \in Claimed => escrow'[q] \in Claimed
    /\ escrow[q] = "paid" => escrow'[q] = "paid"
    /\ sellerSide[q] # "IDLE" => sellerSide'[q] # "IDLE"

\* What is posted stays true while escrows and machines only go forward.
LEMMA MessagesStayTrue ==
  ASSUME topic \in [Topics -> Seq(Message)], TrueMessages, Advances,
         \A m \in Posted' : m \in Posted \/ TrueMessage(m)'
  PROVE  TrueMessages'
<1>1. Posted \subseteq Message
  BY DEF Posted
<1>2. \A m \in Posted : m.request \in Requests
  BY <1>1 DEF Message, Messages
<1>3. \A m \in Posted : TrueMessage(m)'
  BY <1>2 DEF TrueMessages, TrueMessage, Advances
<1> QED  BY <1>3 DEF TrueMessages

\* A step of b's session, which is about its own agreement.
LEMMA WorkerKnows ==
  ASSUME IInv, NEW b \in Buyers, NEW r, r = worker[b].request, NEW phase \in WorkerPhase,
         WorkerAt(b, phase, r),
         Active(b) \/ phase \in {"start", "request"},
         \A q \in Requests : ~Active(b) \/ q # r =>
           escrow'[q] = escrow[q] /\ buyerSide'[q] = buyerSide[q],
         Advances, UNCHANGED <<sellerSide, nextRequest, seller.phase, seller.request>>,
         SessionStage(phase, r)',
         escrow'[r] = "paid" => buyerSide'[r] \in {"INVOICED", "ACTIVE"},
         \A m \in Posted' : m \in Posted \/ (TrueMessage(m)' /\ m.type # "invoice")
  PROVE  Knowledge'
<1> USE DEF IInv, CommerceTypeOK, Knowledge
<1>r. /\ \A c \in Buyers : worker[c].request \in Requests
      /\ seller.request \in Requests
  BY DEF WorkerState, SellerState
<1>1. OwnRequests'
  <2>1. \A c \in Buyers : Active(c)' => Active(c) /\ worker'[c].request = worker[c].request
    BY DEF Active, WorkerAt
  <2>2. ASSUME NEW q \in Requests, q >= nextRequest PROVE escrow'[q] = "none"
    <3>1. escrow[q] = "none"
      BY <2>2 DEF OwnRequests
    <3>2. Active(b) => worker[b].request < nextRequest
      BY DEF OwnRequests
    <3>3. worker[b].request \in Int /\ q \in Int /\ nextRequest \in Int
      BY <1>r DEF Requests
    <3>4. Active(b) => q # worker[b].request
      BY <2>2, <3>2, <3>3
    <3> QED  BY <3>1, <3>4
  <2> QED  BY <2>1, <2>2 DEF OwnRequests
<1>2. SessionStages'
  <2> SUFFICES ASSUME NEW c \in Buyers PROVE SessionStage(worker[c].phase, worker[c].request)'
    BY DEF SessionStages
  <2>1. CASE c = b
    BY <2>1 DEF WorkerAt, SessionStage
  <2>2. CASE c # b
    <3>1. worker'[c] = worker[c]
      BY <2>2 DEF WorkerAt
    <3>2. SessionStage(worker[c].phase, worker[c].request)
      BY DEF SessionStages
    <3>3. CASE ~Active(c)
      BY <3>1, <3>2, <3>3 DEF Active, SessionStage
    <3>4. CASE Active(c)
      <4>1. /\ escrow'[worker[c].request] = escrow[worker[c].request]
            /\ buyerSide'[worker[c].request] = buyerSide[worker[c].request]
        BY <2>2, <3>4, <1>r DEF OwnRequests
      <4> QED  BY <3>1, <3>2, <4>1 DEF SessionStage
    <3> QED  BY <3>3, <3>4
  <2> QED  BY <2>1, <2>2
<1>3. TrueMessages'
  BY MessagesStayTrue
<1>4. SellerStage'
  BY <1>r DEF SellerStage, Advances
<1>5. PaidWasInvoiced'
  BY DEF PaidWasInvoiced
<1>6. ServedIsFunded'
  BY <1>r DEF ServedIsFunded, Advances, Funded
<1> QED  BY <1>1, <1>2, <1>3, <1>4, <1>5, <1>6

\* A step of the seller; the only escrow it changes is one it claims.
LEMMA SellerKnows ==
  ASSUME IInv,
         UNCHANGED <<worker, buyerSide, nextRequest>>,
         \A q \in Requests :
           escrow'[q] = escrow[q] \/ (escrow[q] = "funded" /\ escrow'[q] = "requested"),
         \A q \in Requests : sellerSide[q] # "IDLE" => sellerSide'[q] # "IDLE",
         \A m \in Posted' : m \in Posted \/ TrueMessage(m)',
         SellerStage', ServedIsFunded'
  PROVE  Knowledge'
<1> USE DEF IInv, CommerceTypeOK, Knowledge
<1>r. \A c \in Buyers : worker[c].request \in Requests
  BY DEF WorkerState
<1>1. OwnRequests'
  BY <1>r DEF OwnRequests, Active
<1>2. SessionStages'
  <2> SUFFICES ASSUME NEW c \in Buyers PROVE SessionStage(worker[c].phase, worker[c].request)'
    BY DEF SessionStages
  <2>1. SessionStage(worker[c].phase, worker[c].request)
    BY DEF SessionStages
  <2> QED  BY <1>r, <2>1 DEF SessionStage, Funded
<1>3. Advances
  BY DEF Advances, Funded, Claimed
<1>4. TrueMessages'
  BY <1>3, MessagesStayTrue
<1>5. PaidWasInvoiced'
  BY DEF PaidWasInvoiced
<1> QED  BY <1>1, <1>2, <1>4, <1>5

\* A step of b's session that changes neither a topic nor an escrow nor a machine.
LEMMA QuietWorkerKnows ==
  ASSUME IInv, NEW b \in Buyers, NEW r, r = worker[b].request, NEW phase \in WorkerPhase,
         WorkerAt(b, phase, r),
         Active(b) \/ phase \in {"start", "request"},
         UNCHANGED <<topic, escrow, buyerSide, sellerSide, nextRequest>>,
         UNCHANGED <<seller.phase, seller.request>>,
         SessionStage(phase, r)
  PROVE  Knowledge'
<1>r. r \in Requests
  BY DEF IInv, CommerceTypeOK, WorkerState
<1>1. Posted' = Posted
  BY DEF Posted
<1>2. SessionStage(phase, r)'
  BY DEF SessionStage
<1>3. Advances
  BY DEF Advances
<1>4. escrow'[r] = "paid" => buyerSide'[r] \in {"INVOICED", "ACTIVE"}
  BY <1>r DEF IInv, Knowledge, PaidWasInvoiced
<1> QED  BY <1>1, <1>2, <1>3, <1>4, WorkerKnows

-----------------------------------------------------------------------------
(* A worker's steps *)

\* Every step of a worker but its request keeps the invariant.
LEMMA WorkerKeeps ==
  ASSUME IInv, NEW b \in Buyers, NEW r, r = worker[b].request,
         WorkerStep(b) \/ DropSession(b), ~Request(b)
  PROVE  IInv'
<1> USE DEF IInv
<1>w. worker[b] \in WorkerState /\ r \in Requests /\ worker \in [Buyers -> WorkerState]
  BY DEF CommerceTypeOK, WorkerState
<1>s. /\ SessionStage(worker[b].phase, r)
      /\ seller \in SellerState /\ topic \in [Topics -> Seq(Message)]
  BY DEF Knowledge, SessionStages, CommerceTypeOK
<1>n. NoStream \in Stream \cup {NoStream} /\ Subscribe(b) \in Nat \ {0}
  BY <1>s, SubscriptionStarts DEF Topics
<1>p. {"start", "request", "subscribeResponse", "awaitResponse", "createEscrow", "deposit",
       "announce", "publishSetup", "awaitDial", "streaming", "subscribeInvoice", "awaitInvoice",
       "approve", "acknowledge"} \subseteq WorkerPhase
  BY DEF WorkerPhase, Negotiating, Settling
<1>h. \A m : m \in Posted => TrueMessage(m)
  BY DEF Knowledge, TrueMessages
<1>1. CASE Drain(b)
  <2>1. WorkerAt(b, "request", r)
    BY <1>1, <1>w, <1>n, <1>p, WorkerGoes DEF Drain
  <2>2. SellerAt(seller.phase)
    BY <1>1, <1>s, Disconnected DEF Drain
  <2>3. incoming' \in [Buyers -> Seq(Stream)] /\ \A c \in Buyers : Len(incoming'[c]) <= IncomingCap
    <3>1. incoming' = [incoming EXCEPT ![b] = <<>>]
      BY <1>1 DEF Drain
    <3> QED  BY <3>1, CommerceAssumption DEF CommerceTypeOK
  <2>4. CommerceTypeOK'
    BY <1>1, <2>1, <2>2, <2>3 DEF CommerceTypeOK, Drain, WorkerAt, SellerAt
  <2>5. Knowledge'
    BY <1>1, <1>p, <2>1, <2>2, QuietWorkerKnows DEF Drain, SellerAt, SessionStage, Active
  <2> QED  BY <2>4, <2>5
<1>2. CASE SubscribeResponse(b)
  <2>1. WorkerAt(b, "awaitResponse", r)
    <3>1. worker' = [worker EXCEPT ![b].phase = "awaitResponse", ![b].cursor = Subscribe(b)]
      BY <1>2 DEF SubscribeResponse
    <3>2. Subscribe(b) \in Nat \ {0} /\ "awaitResponse" \in WorkerPhase
      BY <1>n, <1>p
    <3> QED  BY <3>1, <3>2, <1>w, <1>n, WorkerGoes
  <2>2. CommerceTypeOK'
    BY <1>2, <2>1 DEF CommerceTypeOK, SubscribeResponse, WorkerAt
  <2>3. Knowledge'
    BY <1>2, <1>p, <1>s, <2>1, QuietWorkerKnows DEF SubscribeResponse, SessionStage, Active
  <2> QED  BY <2>2, <2>3
<1>3. CASE ReceiveResponse(b)
  <2>1. WorkerAt(b, "createEscrow", r)
    BY <1>3, <1>w, <1>n, <1>p, WorkerGoes DEF ReceiveResponse
  <2>2. PICK i \in Awaited(b, worker[b].cursor, Messages({"serviceResponse"}, {r})) : TRUE
    BY <1>3 DEF ReceiveResponse
  <2>3. sellerSide[r] # "IDLE"
    <3>1. b \in Topics /\ worker[b].cursor \in Nat \ {0}
      BY <1>w DEF Topics, WorkerState
    <3>2. topic[b][i] \in Messages({"serviceResponse"}, {r}) /\ topic[b][i] \in Posted
      BY <2>2, <3>1, <1>s, AwaitedIsPosted
    <3> QED  BY <3>2, <1>h DEF TrueMessage, Messages
  <2>4. /\ buyerSide' \in [Requests -> AgreementState]
        /\ \A q \in Requests \ {r} : buyerSide'[q] = buyerSide[q]
    <3>1. Transition(buyerSide[r], "ACCEPT") \in AgreementState
      BY <1>3, TransitionDefined DEF ReceiveResponse, BuyerEvent
    <3>2. buyerSide' = [buyerSide EXCEPT ![r] = Transition(buyerSide[r], "ACCEPT")]
      BY <1>3 DEF ReceiveResponse, BuyerEvent
    <3> QED  BY <3>1, <3>2, <1>w DEF CommerceTypeOK
  <2>5. CommerceTypeOK'
    BY <1>3, <2>1, <2>4 DEF CommerceTypeOK, ReceiveResponse, WorkerAt
  <2>6. Knowledge'
    <3>1. Posted' = Posted /\ Advances
      BY <1>3 DEF Posted, ReceiveResponse, Advances
    <3>2. SessionStage("createEscrow", r)' /\ escrow'[r] # "paid"
      BY <1>3, <1>s, <2>3 DEF ReceiveResponse, SessionStage
    <3>3. Active(b) /\ "createEscrow" \in WorkerPhase
      BY <1>3, <1>p DEF ReceiveResponse, Active
    <3>4. UNCHANGED <<sellerSide, nextRequest, seller.phase, seller.request, escrow>>
      BY <1>3 DEF ReceiveResponse
    <3> QED  BY <2>1, <2>4, <3>1, <3>2, <3>3, <3>4, WorkerKnows
  <2> QED  BY <2>5, <2>6
<1>4. CASE CreateEscrow(b) \/ Deposit(b)
  <2>1. PICK phase \in {"deposit", "announce"} :
          /\ WorkerAt(b, phase, r)
          /\ phase = "deposit" => worker[b].phase = "createEscrow" /\ CreateEscrow(b)
          /\ phase = "announce" => worker[b].phase = "deposit" /\ Deposit(b)
    <3>1. CASE CreateEscrow(b)
      <4>1. WorkerAt(b, "deposit", r)
        BY <3>1, <1>w, <1>n, <1>p, WorkerGoes DEF CreateEscrow
      <4> QED  BY <3>1, <4>1 DEF CreateEscrow
    <3>2. CASE Deposit(b)
      <4>1. WorkerAt(b, "announce", r)
        BY <3>2, <1>w, <1>n, <1>p, WorkerGoes DEF Deposit
      <4> QED  BY <3>2, <4>1 DEF Deposit
    <3> QED  BY <1>4, <3>1, <3>2
  <2>2. /\ escrow' \in [Requests -> {"none", "created", "funded", "requested", "paid"}]
        /\ escrow'[r] = IF phase = "deposit" THEN "created" ELSE "funded"
        /\ \A q \in Requests \ {r} : escrow'[q] = escrow[q]
    BY <2>1, <1>w DEF CommerceTypeOK, CreateEscrow, Deposit
  <2>3. UNCHANGED <<topic, deployment, buyerSide, sellerSide, incoming, seller, nextRequest>>
    BY <2>1 DEF CreateEscrow, Deposit
  <2>4. CommerceTypeOK'
    BY <2>1, <2>2, <2>3 DEF CommerceTypeOK, WorkerAt
  <2>5. Knowledge'
    <3>1. Posted' = Posted
      BY <2>3 DEF Posted
    <3>2. Advances
      BY <1>s, <2>1, <2>2, <2>3 DEF Advances, SessionStage, Funded, Claimed
    <3>3. SessionStage(phase, r)' /\ escrow'[r] # "paid"
      BY <1>s, <2>1, <2>2, <2>3 DEF SessionStage, Funded
    <3>4. Active(b) /\ phase \in WorkerPhase
      BY <2>1, <1>p DEF Active
    <3> QED  BY <2>1, <2>2, <2>3, <3>1, <3>2, <3>3, <3>4, WorkerKnows
  <2> QED  BY <2>4, <2>5
<1>5. CASE AnnounceEscrow(b)
  <2>1. WorkerAt(b, "publishSetup", r)
    BY <1>5, <1>w, <1>n, <1>p, WorkerGoes DEF AnnounceEscrow
  <2>2. /\ topic' \in [Topics -> Seq(Message)]
        /\ Posted' = Posted \cup {[type |-> "escrowCreated", request |-> r, from |-> b]}
    <3>1. publishCommerce(Seller, "escrowCreated", r, b)
      BY <1>5 DEF AnnounceEscrow
    <3> QED  BY <3>1, <1>s, <1>w, Published DEF Topics, MessageType
  <2>3. /\ buyerSide' \in [Requests -> AgreementState]
        /\ \A q \in Requests \ {r} : buyerSide'[q] = buyerSide[q]
    <3>1. Transition(buyerSide[r], "ESCROW_CREATED") \in AgreementState
      BY <1>5, TransitionDefined DEF AnnounceEscrow, BuyerEvent
    <3>2. buyerSide' = [buyerSide EXCEPT ![r] = Transition(buyerSide[r], "ESCROW_CREATED")]
      BY <1>5 DEF AnnounceEscrow, BuyerEvent
    <3> QED  BY <3>1, <3>2, <1>w DEF CommerceTypeOK
  <2>4. CommerceTypeOK'
    BY <1>5, <2>1, <2>2, <2>3 DEF CommerceTypeOK, AnnounceEscrow, WorkerAt
  <2>5. Knowledge'
    <3>1. UNCHANGED <<sellerSide, nextRequest, seller.phase, seller.request, escrow>> /\ Advances
      BY <1>5 DEF AnnounceEscrow, Advances
    <3>2. escrow[r] \in Funded /\ escrow[r] # "paid" /\ Active(b)
      BY <1>5, <1>s DEF AnnounceEscrow, SessionStage, Active
    <3>3. SessionStage("publishSetup", r)'
      BY <3>1, <3>2 DEF SessionStage
    <3>4. \A m \in Posted' : m \in Posted \/ (TrueMessage(m)' /\ m.type # "invoice")
      BY <2>2, <3>1, <3>2 DEF TrueMessage
    <3> QED  BY <1>p, <2>1, <2>3, <3>1, <3>2, <3>3, <3>4, WorkerKnows
  <2> QED  BY <2>4, <2>5
<1>6. CASE PublishSetup(b)
  <2>1. WorkerAt(b, "awaitDial", r)
    BY <1>6, <1>w, <1>n, <1>p, WorkerGoes DEF PublishSetup
  <2>2. /\ topic' \in [Topics -> Seq(Message)]
        /\ Posted' = Posted \cup {[type |-> "connectionSetup", request |-> r, from |-> b]}
    <3>1. publishCommerce(Seller, "connectionSetup", r, b)
      BY <1>6 DEF PublishSetup
    <3> QED  BY <3>1, <1>s, <1>w, Published DEF Topics, MessageType
  <2>3. CommerceTypeOK'
    BY <1>6, <2>1, <2>2 DEF CommerceTypeOK, PublishSetup, WorkerAt
  <2>4. Knowledge'
    <3>1. /\ UNCHANGED <<sellerSide, nextRequest, seller.phase, seller.request, escrow, buyerSide>>
          /\ Advances
      BY <1>6 DEF PublishSetup, Advances
    <3>2. escrow[r] # "paid" /\ Active(b)
      BY <1>6, <1>s DEF PublishSetup, SessionStage, Active
    <3>3. SessionStage("awaitDial", r)'
      BY <3>1, <3>2 DEF SessionStage
    <3>4. \A m \in Posted' : m \in Posted \/ (TrueMessage(m)' /\ m.type # "invoice")
      BY <2>2 DEF TrueMessage
    <3> QED  BY <1>p, <2>1, <3>1, <3>2, <3>3, <3>4, WorkerKnows
  <2> QED  BY <2>3, <2>4
<1>7. CASE TakeStream(b)
  <2>1. Head(incoming[b]) \in Stream /\ Tail(incoming[b]) \in Seq(Stream)
        /\ Len(Tail(incoming[b])) <= IncomingCap
    <3>1. incoming[b] \in Seq(Stream) /\ incoming[b] # <<>> /\ Len(incoming[b]) <= IncomingCap
      BY <1>7 DEF CommerceTypeOK, TakeStream
    <3>2. Len(Tail(incoming[b])) = Len(incoming[b]) - 1 /\ Len(incoming[b]) \in Nat
      BY <3>1, HeadTailProperties
    <3> QED  BY <3>1, <3>2, CommerceAssumption, HeadTailProperties
  <2>2. WorkerAt(b, "streaming", r)
    <3>1. worker' = [worker EXCEPT ![b].phase = "streaming", ![b].stream = Head(incoming[b])]
      BY <1>7 DEF TakeStream
    <3>2. Head(incoming[b]) \in Stream \cup {NoStream} /\ "streaming" \in WorkerPhase
      BY <2>1, <1>p
    <3> QED  BY <3>1, <3>2, <1>w, <1>n, WorkerGoes
  <2>3. incoming' \in [Buyers -> Seq(Stream)] /\ \A c \in Buyers : Len(incoming'[c]) <= IncomingCap
    <3>1. incoming' = [incoming EXCEPT ![b] = Tail(incoming[b])]
      BY <1>7 DEF TakeStream
    <3> QED  BY <3>1, <2>1 DEF CommerceTypeOK
  <2>4. CommerceTypeOK'
    BY <1>7, <2>2, <2>3 DEF CommerceTypeOK, TakeStream, WorkerAt
  <2>5. Knowledge'
    BY <1>7, <1>p, <1>s, <2>2, QuietWorkerKnows DEF TakeStream, SessionStage, Active
  <2> QED  BY <2>4, <2>5
<1>8. CASE EndStream(b)
  <2>1. WorkerAt(b, "subscribeInvoice", r)
    <3>1. worker' = [worker EXCEPT ![b].phase = "subscribeInvoice", ![b].stream = NoStream]
      BY <1>8 DEF EndStream
    <3> QED  BY <3>1, <1>w, <1>n, <1>p, WorkerGoes
  <2>2. SellerAt(seller.phase)
    BY <1>8, <1>s, Disconnected DEF EndStream
  <2>3. CommerceTypeOK'
    BY <1>8, <2>1, <2>2 DEF CommerceTypeOK, EndStream, WorkerAt, SellerAt
  <2>4. Knowledge'
    BY <1>8, <1>p, <1>s, <2>1, <2>2, QuietWorkerKnows DEF EndStream, SessionStage, Active, SellerAt
  <2> QED  BY <2>3, <2>4
<1>9. CASE SubscribeInvoice(b)
  <2>1. WorkerAt(b, "awaitInvoice", r)
    <3>1. worker' = [worker EXCEPT ![b].phase = "awaitInvoice", ![b].cursor = Subscribe(b)]
      BY <1>9 DEF SubscribeInvoice
    <3>2. Subscribe(b) \in Nat \ {0} /\ "awaitInvoice" \in WorkerPhase
      BY <1>n, <1>p
    <3> QED  BY <3>1, <3>2, <1>w, <1>n, WorkerGoes
  <2>2. CommerceTypeOK'
    BY <1>9, <2>1 DEF CommerceTypeOK, SubscribeInvoice, WorkerAt
  <2>3. Knowledge'
    BY <1>9, <1>p, <1>s, <2>1, QuietWorkerKnows DEF SubscribeInvoice, SessionStage, Active
  <2> QED  BY <2>2, <2>3
<1>10. CASE ReceiveInvoice(b)
  <2> DEFINE started == IF buyerSide[r] = "FUNDED" THEN Transition("FUNDED", "DELIVERY_STARTED")
                        ELSE buyerSide[r]
  <2>1. WorkerAt(b, "approve", r)
    BY <1>10, <1>w, <1>n, <1>p, WorkerGoes DEF ReceiveInvoice
  <2>2. /\ Allowed(started, "INVOICE")
        /\ buyerSide' = [buyerSide EXCEPT ![r] = Transition(started, "INVOICE")]
    BY <1>10 DEF ReceiveInvoice
  <2> HIDE DEF started
  <2>3. Transition(started, "INVOICE") = "INVOICED" /\ "INVOICED" \in AgreementState
    BY <2>2, TransitionAdvances DEF AgreementState
  <2>4. /\ buyerSide' \in [Requests -> AgreementState] /\ buyerSide'[r] = "INVOICED"
        /\ \A q \in Requests \ {r} : buyerSide'[q] = buyerSide[q]
    BY <2>2, <2>3, <1>w DEF CommerceTypeOK
  <2>5. CommerceTypeOK'
    BY <1>10, <2>1, <2>4 DEF CommerceTypeOK, ReceiveInvoice, WorkerAt
  <2>6. Knowledge'
    <3>1. /\ UNCHANGED <<sellerSide, nextRequest, seller.phase, seller.request, escrow, topic>>
          /\ Advances
      BY <1>10 DEF ReceiveInvoice, Advances
    <3>2. escrow[r] # "paid" /\ Active(b)
      BY <1>10, <1>s DEF ReceiveInvoice, SessionStage, Active
    <3>3. SessionStage("approve", r)'
      BY <2>4, <3>1, <3>2 DEF SessionStage
    <3>4. Posted' = Posted
      BY <3>1 DEF Posted
    <3> QED  BY <1>p, <2>1, <2>4, <3>1, <3>2, <3>3, <3>4, WorkerKnows
  <2> QED  BY <2>5, <2>6
<1>11. CASE ApproveRelease(b)
  <2>1. WorkerAt(b, "acknowledge", r)
    BY <1>11, <1>w, <1>n, <1>p, WorkerGoes DEF ApproveRelease
  <2>2. /\ escrow' \in [Requests -> {"none", "created", "funded", "requested", "paid"}]
        /\ escrow'[r] = "paid" /\ escrow[r] = "requested"
        /\ \A q \in Requests \ {r} : escrow'[q] = escrow[q]
    BY <1>11, <1>w DEF CommerceTypeOK, ApproveRelease
  <2>3. CommerceTypeOK'
    BY <1>11, <2>1, <2>2 DEF CommerceTypeOK, ApproveRelease, WorkerAt
  <2>4. Knowledge'
    <3>1. UNCHANGED <<topic, sellerSide, nextRequest, seller.phase, seller.request, buyerSide>>
      BY <1>11 DEF ApproveRelease
    <3>2. Advances
      BY <2>2, <3>1 DEF Advances, Funded, Claimed
    <3>3. buyerSide'[r] = "INVOICED" /\ Active(b)
      BY <1>11, <1>s DEF ApproveRelease, SessionStage, Active
    <3>4. SessionStage("acknowledge", r)'
      BY <2>2 DEF SessionStage
    <3>5. Posted' = Posted
      BY <3>1 DEF Posted
    <3> QED  BY <1>p, <2>1, <2>2, <3>1, <3>2, <3>3, <3>4, <3>5, WorkerKnows
  <2> QED  BY <2>3, <2>4
<1>12. CASE AcknowledgeInvoice(b)
  <2>1. WorkerAt(b, "start", r)
    BY <1>12, <1>w, <1>n, <1>p, WorkerGoes DEF AcknowledgeInvoice
  <2>2. /\ topic' \in [Topics -> Seq(Message)]
        /\ Posted' = Posted \cup {[type |-> "invoiceAck", request |-> r, from |-> b]}
    <3>1. publishCommerce(Seller, "invoiceAck", r, b)
      BY <1>12 DEF AcknowledgeInvoice
    <3> QED  BY <3>1, <1>s, <1>w, Published DEF Topics, MessageType
  <2>3. /\ buyerSide' \in [Requests -> AgreementState] /\ buyerSide'[r] = "ACTIVE"
        /\ \A q \in Requests \ {r} : buyerSide'[q] = buyerSide[q]
    <3>1. Transition(buyerSide[r], "INVOICE_APPROVED") = "ACTIVE" /\ "ACTIVE" \in AgreementState
      BY <1>12, TransitionAdvances DEF AcknowledgeInvoice, BuyerEvent, AgreementState
    <3>2. buyerSide' = [buyerSide EXCEPT ![r] = Transition(buyerSide[r], "INVOICE_APPROVED")]
      BY <1>12 DEF AcknowledgeInvoice, BuyerEvent
    <3> QED  BY <3>1, <3>2, <1>w DEF CommerceTypeOK
  <2>4. CommerceTypeOK'
    BY <1>12, <2>1, <2>2, <2>3 DEF CommerceTypeOK, AcknowledgeInvoice, WorkerAt
  <2>5. Knowledge'
    <3>1. UNCHANGED <<sellerSide, nextRequest, seller.phase, seller.request, escrow>> /\ Advances
      BY <1>12 DEF AcknowledgeInvoice, Advances
    <3>2. escrow[r] = "paid"
      BY <1>12, <1>s DEF AcknowledgeInvoice, SessionStage
    <3>3. SessionStage("start", r)'
      BY DEF SessionStage
    <3>4. \A m \in Posted' : m \in Posted \/ (TrueMessage(m)' /\ m.type # "invoice")
      BY <2>2, <3>1, <3>2 DEF TrueMessage
    <3>5. Active(b)
      BY <1>12 DEF AcknowledgeInvoice, Active
    <3> QED  BY <1>p, <2>1, <2>3, <3>1, <3>2, <3>3, <3>4, <3>5, WorkerKnows
  <2> QED  BY <2>4, <2>5
<1>13. CASE DropSession(b)
  <2>1. WorkerAt(b, "start", r)
    <3>1. worker' = [worker EXCEPT ![b].phase = "start", ![b].stream = NoStream]
      BY <1>13 DEF DropSession
    <3> QED  BY <3>1, <1>w, <1>n, <1>p, WorkerGoes
  <2>2. SellerAt(seller.phase)
    BY <1>13, <1>s, Disconnected DEF DropSession
  <2>3. CommerceTypeOK'
    BY <1>13, <2>1, <2>2 DEF CommerceTypeOK, DropSession, WorkerAt, SellerAt
  <2>4. Knowledge'
    BY <1>13, <1>p, <2>1, <2>2, QuietWorkerKnows DEF DropSession, SessionStage, SellerAt
  <2> QED  BY <2>3, <2>4
<1> QED
  BY <1>1, <1>2, <1>3, <1>4, <1>5, <1>6, <1>7, <1>8, <1>9, <1>10, <1>11, <1>12, <1>13
     DEF WorkerStep

\* A request takes an id that nobody has used: its agreement has no escrow yet.
LEMMA RequestKeeps ==
  ASSUME IInv, NEW b \in Buyers, Request(b)
  PROVE  IInv'
<1>r. PICK r \in Requests : r = nextRequest
  BY DEF Request
<1> USE DEF IInv
<1>t. /\ worker \in [Buyers -> WorkerState] /\ topic \in [Topics -> Seq(Message)]
      /\ \A c \in Buyers : worker[c].request \in Requests
      /\ nextRequest' = nextRequest + 1 /\ r \in Nat /\ Requests \subseteq Nat
      /\ seller.request \in Requests
  BY <1>r DEF CommerceTypeOK, WorkerState, Request, Requests, SellerState
<1>1. WorkerAt(b, "subscribeResponse", r)
  <2>1. worker' = [worker EXCEPT ![b].phase = "subscribeResponse", ![b].request = r]
    BY <1>r DEF Request
  <2>2. /\ "subscribeResponse" \in WorkerPhase /\ 1 \in Nat \ {0}
        /\ NoStream \in Stream \cup {NoStream}
    BY DEF WorkerPhase, Negotiating
  <2> QED  BY <1>t, <2>1, <2>2, WorkerGoes
<1>2. /\ topic' \in [Topics -> Seq(Message)]
      /\ Posted' = Posted \cup {[type |-> "serviceRequest", request |-> r, from |-> b]}
  <2>1. publishCommerce(Seller, "serviceRequest", r, b)
    BY <1>r DEF Request
  <2> QED  BY <1>t, <2>1, Published DEF Topics, MessageType
<1>3. /\ buyerSide' \in [Requests -> AgreementState]
      /\ \A q \in Requests \ {r} : buyerSide'[q] = buyerSide[q]
  <2>1. Transition(buyerSide[r], "SERVICE_REQUEST") \in AgreementState
    BY <1>r, TransitionDefined DEF Request, BuyerEvent
  <2>2. buyerSide' = [buyerSide EXCEPT ![r] = Transition(buyerSide[r], "SERVICE_REQUEST")]
    BY <1>r DEF Request, BuyerEvent
  <2> QED  BY <2>1, <2>2 DEF CommerceTypeOK
<1>4. UNCHANGED <<deployment, escrow, sellerSide, incoming, seller>> /\ escrow[r] = "none"
  BY <1>r, <1>t DEF Request, Knowledge, OwnRequests
<1>5. CommerceTypeOK'
  <2>1. nextRequest' \in 1..(MaxRequests + 1)
    BY <1>r, <1>t, CommerceAssumption DEF Requests
  <2> QED  BY <1>1, <1>2, <1>3, <1>4, <2>1 DEF CommerceTypeOK, WorkerAt
<1>6. OwnRequests'
  <2>1. \A c \in Buyers \ {b} : /\ worker'[c] = worker[c] /\ (Active(c)' <=> Active(c))
                                /\ Active(c) => worker[c].request < r
    BY <1>1, <1>r DEF Active, WorkerAt, Knowledge, OwnRequests
  <2>2. worker'[b].request = r
    BY <1>1 DEF WorkerAt
  <2>3. \A c \in Buyers : Active(c)' => worker'[c].request < nextRequest'
    <3>1. \A x \in Nat : x < r => x < nextRequest'
      BY <1>r, <1>t
    <3>2. \A c \in Buyers \ {b} : Active(c)' => worker'[c].request < nextRequest'
      BY <1>t, <2>1, <3>1
    <3>3. r < nextRequest'
      BY <1>r, <1>t
    <3> QED  BY <2>2, <3>2, <3>3
  <2>4. \A c, d \in Buyers :
          Active(c)' /\ Active(d)' /\ worker'[c].request = worker'[d].request => c = d
    <3>1. \A c \in Buyers \ {b} : Active(c)' => worker'[c].request # r
      BY <1>t, <2>1
    <3>2. \A c, d \in Buyers \ {b} :
            Active(c)' /\ Active(d)' /\ worker'[c].request = worker'[d].request => c = d
      BY <2>1 DEF Knowledge, OwnRequests
    <3> QED  BY <2>2, <3>1, <3>2
  <2>5. \A q \in Requests : q >= nextRequest' => escrow'[q] = "none"
    BY <1>t, <1>r, <1>4 DEF Knowledge, OwnRequests
  <2> QED  BY <2>3, <2>4, <2>5 DEF OwnRequests
<1>7. SessionStages'
  <2> SUFFICES ASSUME NEW c \in Buyers PROVE SessionStage(worker[c].phase, worker[c].request)'
    BY DEF SessionStages
  <2>1. CASE c = b
    BY <2>1, <1>1, <1>4 DEF WorkerAt, SessionStage
  <2>2. CASE c # b
    <3>1. worker'[c] = worker[c] /\ SessionStage(worker[c].phase, worker[c].request)
      BY <2>2, <1>1 DEF WorkerAt, Knowledge, SessionStages
    <3>2. CASE ~Active(c)
      BY <3>1, <3>2 DEF Active, SessionStage
    <3>3. CASE Active(c)
      <4>1. worker[c].request # r
        BY <3>3, <1>r, <1>t DEF Knowledge, OwnRequests
      <4> QED  BY <3>1, <4>1, <1>t, <1>3, <1>4 DEF SessionStage
    <3> QED  BY <3>2, <3>3
  <2> QED  BY <2>1, <2>2
<1>8. TrueMessages'
  <2>1. Advances
    BY <1>4 DEF Advances
  <2>2. \A m \in Posted' : m \in Posted \/ TrueMessage(m)'
    BY <1>2 DEF TrueMessage
  <2> QED  BY <1>t, <2>1, <2>2, MessagesStayTrue DEF Knowledge
<1>9. SellerStage' /\ ServedIsFunded'
  BY <1>2, <1>4 DEF Knowledge, SellerStage, ServedIsFunded
<1>10. PaidWasInvoiced'
  BY <1>3, <1>4 DEF Knowledge, PaidWasInvoiced
<1> QED  BY <1>5, <1>6, <1>7, <1>8, <1>9, <1>10 DEF Knowledge

-----------------------------------------------------------------------------
(* The seller's steps *)

\* The phases in which the seller has no agreement.
Outside == {"gate", "awaitRequest", "stopped"}

\* A step of the seller that publishes nothing and changes no escrow, and serves only on.
LEMMA QuietSellerKnows ==
  ASSUME IInv, NEW phase \in SellerPhase \ {"publishInvoice"},
         seller'.phase = phase, phase \in Outside \/ seller'.request = seller.request,
         phase \in Outside \/ seller.phase \notin Outside,
         phase \in Serving => seller.phase \in Serving,
         \A q \in Requests : sellerSide[q] # "IDLE" => sellerSide'[q] # "IDLE",
         UNCHANGED <<topic, escrow, worker, buyerSide, nextRequest>>
  PROVE  Knowledge'
<1>r. seller.request \in Requests
  BY DEF IInv, CommerceTypeOK, SellerState
<1>1. Posted' = Posted
  BY DEF Posted
<1>2. SellerStage'
  BY <1>r DEF SellerStage, Outside, IInv, Knowledge
<1>3. phase \in Serving => phase \notin Outside
  BY DEF Outside, Serving, Invoicing
<1>4. ServedIsFunded'
  BY <1>3 DEF ServedIsFunded, IInv, Knowledge
<1> QED  BY <1>1, <1>2, <1>4, SellerKnows

\* Every step of the seller keeps the invariant.
LEMMA SellerKeeps ==
  ASSUME IInv, SellerStep \/ AbandonIdle \/ FailInvoice \/ StopSeller \/ RestartSeller
  PROVE  IInv'
<1> USE DEF IInv
<1>s. /\ seller \in SellerState /\ topic \in [Topics -> Seq(Message)]
      /\ seller.request \in Requests /\ seller.buyer \in Buyers /\ seller.cursor \in Nat \ {0}
      /\ Seller \in Topics /\ Buyers \subseteq Topics
  BY DEF CommerceTypeOK, SellerState, Topics
<1>n. /\ 1 \in Nat \ {0} /\ FALSE \in BOOLEAN /\ 0 \in 0..MaxRequests
      /\ Subscribe(Seller) \in Nat \ {0}
  BY <1>s, SubscriptionStarts, CommerceAssumption
<1>p. {"stopped", "gate", "awaitRequest", "awaitEscrow", "subscribeSetup", "awaitSetup", "dial",
       "streaming", "requestRelease", "publishInvoice", "subscribeAck", "awaitAck"}
        = SellerPhase
  BY DEF SellerPhase, Gate, Serving, Invoicing
<1>o. AgreementOver \in {"gate", "stopped"}
  BY DEF AgreementOver
<1>h. \A m \in Posted : TrueMessage(m)
  BY DEF Knowledge, TrueMessages
<1>1. CASE EnterGate
  <2>1. seller' = [seller EXCEPT !.phase = "awaitRequest", !.cursor = Subscribe(Seller),
                                 !.round = seller.round + 1]
    BY <1>1 DEF EnterGate
  <2>2. seller.round + 1 \in 0..MaxRounds /\ seller.round + 1 # 0
    BY <1>1, <1>s, CommerceAssumption DEF EnterGate, SellerState
  <2>3. seller' \in SellerState /\ seller'.phase = "awaitRequest" /\ seller'.round # 0
    BY <1>n, <1>p, <1>s, <2>1, <2>2 DEF SellerState
  <2>4. CommerceTypeOK'
    BY <1>1, <2>3 DEF CommerceTypeOK, EnterGate
  <2>5. Knowledge'
    BY <1>1, <1>p, <2>3, QuietSellerKnows DEF EnterGate, Outside, Serving, Invoicing
  <2> QED  BY <2>4, <2>5
<1>2. CASE AcceptRequest
  <2>1. PICK i \in Awaited(Seller, seller.cursor, Messages({"serviceRequest"}, Requests)) :
          LET m == topic[Seller][i] IN
          /\ publishCommerce(m.from, "serviceResponse", m.request, Seller)
          /\ sellerSide' = [sellerSide EXCEPT ![m.request] =
                              Transition(Transition("IDLE", "SERVICE_REQUEST"), "ACCEPT")]
          /\ seller' = [seller EXCEPT !.phase = "awaitEscrow", !.request = m.request,
                                      !.buyer = m.from, !.cursor = i + 1, !.newcomer = 0]
    BY <1>2 DEF AcceptRequest
  <2> DEFINE m == topic[Seller][i]
  <2>2. /\ i \in Nat \ {0} /\ m \in Messages({"serviceRequest"}, Requests) /\ m \in Posted
    BY <1>s, AwaitedIsPosted
  <2>3. m.request \in Requests /\ m.from \in Buyers /\ i + 1 \in Nat \ {0}
    BY <2>2, <1>h DEF Messages, TrueMessage
  <2>4. PICK accepted \in AgreementState \ {"IDLE"} :
          accepted = Transition(Transition("IDLE", "SERVICE_REQUEST"), "ACCEPT")
    BY Accepted
  <2>5. /\ sellerSide' \in [Requests -> AgreementState]
        /\ \A q \in Requests : sellerSide[q] # "IDLE" => sellerSide'[q] # "IDLE"
        /\ sellerSide'[m.request] # "IDLE"
    BY <2>1, <2>3, <2>4 DEF CommerceTypeOK
  <2>6. /\ topic' \in [Topics -> Seq(Message)]
        /\ Posted' = Posted \cup
             {[type |-> "serviceResponse", request |-> m.request, from |-> Seller]}
    BY <1>s, <2>1, <2>3, Published DEF MessageType
  <2>7. /\ seller' \in SellerState /\ seller'.phase = "awaitEscrow"
        /\ seller'.round = seller.round /\ seller'.request = m.request
    BY <1>n, <1>p, <1>s, <2>1, <2>3 DEF SellerState
  <2>8. CommerceTypeOK'
    BY <1>2, <2>5, <2>6, <2>7 DEF CommerceTypeOK, AcceptRequest
  <2>9. Knowledge'
    <3>1. UNCHANGED <<worker, buyerSide, nextRequest, escrow>>
      BY <1>2 DEF AcceptRequest
    <3>2. \A n \in Posted' : n \in Posted \/ TrueMessage(n)'
      BY <2>5, <2>6 DEF TrueMessage
    <3>3. SellerStage' /\ ServedIsFunded'
      BY <2>5, <2>7 DEF SellerStage, ServedIsFunded, Serving, Invoicing
    <3> QED  BY <2>5, <3>1, <3>2, <3>3, SellerKnows
  <2> QED  BY <2>8, <2>9
<1>3. CASE ObserveEscrow
  <2>1. SellerAt("subscribeSetup")
    BY <1>3, <1>n, <1>p, <1>s, SellerGoes DEF ObserveEscrow
  <2>2. PICK i \in Awaited(Seller, seller.cursor,
                          Messages({"escrowCreated"}, {seller.request})) : TRUE
    BY <1>3 DEF ObserveEscrow
  <2>3. escrow[seller.request] \in Funded
    <3>1. topic[Seller][i] \in Messages({"escrowCreated"}, {seller.request})
          /\ topic[Seller][i] \in Posted
      BY <1>s, <2>2, AwaitedIsPosted
    <3> QED  BY <3>1, <1>h DEF TrueMessage, Messages
  <2>4. /\ sellerSide' \in [Requests -> AgreementState]
        /\ \A q \in Requests : sellerSide[q] # "IDLE" => sellerSide'[q] # "IDLE"
    <3>1. Transition(sellerSide[seller.request], "ESCROW_CREATED") \in AgreementState \ {"IDLE"}
      BY <1>3, TransitionAdvances DEF ObserveEscrow, SellerEvent
    <3>2. sellerSide' = [sellerSide EXCEPT ![seller.request] =
                           Transition(sellerSide[seller.request], "ESCROW_CREATED")]
      BY <1>3 DEF ObserveEscrow, SellerEvent
    <3> QED  BY <3>1, <3>2 DEF CommerceTypeOK
  <2>5. CommerceTypeOK'
    BY <1>3, <2>1, <2>4 DEF CommerceTypeOK, ObserveEscrow, SellerAt
  <2>6. Knowledge'
    <3>1. UNCHANGED <<worker, buyerSide, nextRequest, escrow, topic>> /\ Posted' = Posted
      BY <1>3 DEF ObserveEscrow, Posted
    <3>2. sellerSide[seller.request] # "IDLE"
      BY <1>3 DEF Knowledge, SellerStage, ObserveEscrow
    <3>3. SellerStage' /\ ServedIsFunded'
      BY <1>s, <2>1, <2>3, <2>4, <3>1, <3>2 DEF SellerStage, ServedIsFunded, SellerAt, Funded
    <3> QED  BY <2>4, <3>1, <3>3, SellerKnows
  <2> QED  BY <2>5, <2>6
<1>4. CASE SubscribeSetup
  <2>1. SellerAt("awaitSetup")
    <3>1. seller' = [seller EXCEPT !.phase = "awaitSetup", !.cursor = Subscribe(Seller)]
      BY <1>4 DEF SubscribeSetup
    <3> QED  BY <3>1, <1>n, <1>p, <1>s, SellerGoes
  <2>2. CommerceTypeOK'
    BY <1>4, <2>1 DEF CommerceTypeOK, SubscribeSetup, SellerAt
  <2>3. Knowledge'
    BY <1>4, <1>p, <2>1, QuietSellerKnows
       DEF SubscribeSetup, Outside, Serving, Invoicing, SellerAt
  <2> QED  BY <2>2, <2>3
<1>5. CASE ReceiveSetup
  <2>1. PICK i \in Awaited(Seller, seller.cursor, Relevant) :
          LET m == topic[Seller][i] IN
          \/ SellerGoto("dial") /\ UNCHANGED topic
          \/ /\ publishCommerce(seller.buyer, "serviceResponse", seller.request, Seller)
             /\ seller' = [seller EXCEPT !.cursor = i + 1]
          \/ /\ m.type = "serviceRequest"
             /\ seller' = [seller EXCEPT !.phase = "gate", !.newcomer = m.request]
             /\ UNCHANGED topic
    BY <1>5 DEF ReceiveSetup
  <2> DEFINE m == topic[Seller][i]
  <2>2. i + 1 \in Nat \ {0} /\ m.request \in 0..MaxRequests
    <3>1. i \in Nat \ {0} /\ m \in Message
      BY <1>s, AwaitedIsPosted
    <3> QED  BY <3>1, CommerceAssumption DEF Message, Messages, Requests
  <2>u. /\ UNCHANGED <<deployment, escrow, buyerSide, sellerSide, worker, incoming, nextRequest>>
        /\ seller.phase = "awaitSetup"
    BY <1>5 DEF ReceiveSetup
  <2>3. CASE SellerGoto("dial") /\ UNCHANGED topic
    <3>1. SellerAt("dial")
      BY <2>3, <1>n, <1>p, <1>s, SellerGoes
    <3>2. CommerceTypeOK'
      BY <2>u, <2>3, <3>1 DEF CommerceTypeOK, SellerAt
    <3>3. Knowledge'
      BY <2>u, <1>p, <2>3, <3>1, QuietSellerKnows DEF Outside, Serving, Invoicing, SellerAt
    <3> QED  BY <3>2, <3>3
  <2>4. CASE /\ publishCommerce(seller.buyer, "serviceResponse", seller.request, Seller)
             /\ seller' = [seller EXCEPT !.cursor = i + 1]
    <3>1. SellerAt("awaitSetup")
      BY <2>2, <2>4, <2>u, <1>n, <1>p, <1>s, SellerGoes
    <3>2. /\ topic' \in [Topics -> Seq(Message)]
          /\ Posted' = Posted \cup
               {[type |-> "serviceResponse", request |-> seller.request, from |-> Seller]}
      BY <1>s, <2>4, Published DEF MessageType
    <3>3. CommerceTypeOK'
      BY <2>u, <3>1, <3>2 DEF CommerceTypeOK, SellerAt
    <3>4. Knowledge'
      <4>1. sellerSide'[seller.request] # "IDLE"
        BY <2>u DEF Knowledge, SellerStage
      <4>2. \A n \in Posted' : n \in Posted \/ TrueMessage(n)'
        BY <3>2, <4>1 DEF TrueMessage
      <4>3. SellerStage' /\ ServedIsFunded'
        BY <2>u, <3>1, <4>1 DEF SellerStage, ServedIsFunded, SellerAt, Knowledge
      <4> QED  BY <2>u, <4>2, <4>3, SellerKnows
    <3> QED  BY <3>3, <3>4
  <2>5. CASE /\ seller' = [seller EXCEPT !.phase = "gate", !.newcomer = m.request]
             /\ UNCHANGED topic
    <3>1. SellerAt("gate")
      BY <2>2, <2>5, <1>n, <1>p, <1>s, SellerGoes
    <3>2. CommerceTypeOK'
      BY <2>u, <2>5, <3>1 DEF CommerceTypeOK, SellerAt
    <3>3. Knowledge'
      BY <2>u, <1>p, <2>5, <3>1, QuietSellerKnows DEF Outside, Serving, Invoicing, SellerAt
    <3> QED  BY <3>2, <3>3
  <2> QED  BY <2>1, <2>3, <2>4, <2>5
<1>6. CASE AbandonIdle
  <2>1. SellerAt("gate")
    BY <1>6, <1>n, <1>p, <1>s, SellerGoes DEF AbandonIdle
  <2>2. CommerceTypeOK'
    BY <1>6, <2>1 DEF CommerceTypeOK, AbandonIdle, SellerAt
  <2>3. Knowledge'
    BY <1>6, <1>p, <2>1, QuietSellerKnows DEF AbandonIdle, Outside, Serving, Invoicing, SellerAt
  <2> QED  BY <2>2, <2>3
<1>7. CASE Dial
  <2> DEFINE b == seller.buyer
             stream == [request |-> seller.request, round |-> seller.round]
             full == Len(incoming[b]) >= IncomingCap
  <2>1. SellerAt("streaming")
    <3>1. seller' = [seller EXCEPT !.phase = "streaming", !.cut = full] /\ full \in BOOLEAN
      BY <1>7 DEF Dial
    <3> HIDE DEF full
    <3> QED  BY <3>1, <1>n, <1>p, <1>s, SellerGoes
  <2>2. incoming' \in [Buyers -> Seq(Stream)] /\ \A c \in Buyers : Len(incoming'[c]) <= IncomingCap
    <3>1. incoming' = IF full THEN incoming
                      ELSE [incoming EXCEPT ![b] = Append(incoming[b], stream)]
      BY <1>7 DEF Dial
    <3>2. stream \in Stream
      BY <1>7, <1>s, CommerceAssumption DEF CommerceTypeOK, Dial, SellerState, Stream
    <3>3. incoming[b] \in Seq(Stream) /\ Len(incoming[b]) \in Nat
      BY <1>s DEF CommerceTypeOK
    <3> HIDE DEF stream
    <3>4. /\ Append(incoming[b], stream) \in Seq(Stream)
          /\ Len(Append(incoming[b], stream)) = Len(incoming[b]) + 1
      BY <3>2, <3>3, AppendProperties
    <3>5. ~full => Len(Append(incoming[b], stream)) <= IncomingCap
      BY <3>3, <3>4, CommerceAssumption
    <3>6. CASE full
      BY <3>1, <3>6 DEF CommerceTypeOK
    <3>7. CASE ~full
      <4>1. incoming' = [incoming EXCEPT ![b] = Append(incoming[b], stream)]
        BY <3>1, <3>7
      <4>2. Len(Append(incoming[b], stream)) <= IncomingCap
        BY <3>5, <3>7
      <4> HIDE DEF full
      <4> QED  BY <1>s, <3>4, <4>1, <4>2 DEF CommerceTypeOK
    <3> QED  BY <3>6, <3>7
  <2>3. CommerceTypeOK'
    BY <1>7, <2>1, <2>2 DEF CommerceTypeOK, Dial, SellerAt
  <2>4. Knowledge'
    BY <1>7, <1>p, <2>1, QuietSellerKnows DEF Dial, Outside, Serving, Invoicing, SellerAt
  <2> QED  BY <2>3, <2>4
<1>8. CASE CloseStream
  <2>1. SellerAt("requestRelease")
    <3>1. seller' = [seller EXCEPT !.phase = "requestRelease", !.cut = FALSE]
      BY <1>8 DEF CloseStream
    <3> QED  BY <3>1, <1>n, <1>p, <1>s, SellerGoes
  <2>2. CommerceTypeOK'
    BY <1>8, <2>1 DEF CommerceTypeOK, CloseStream, SellerAt
  <2>3. Knowledge'
    BY <1>8, <1>p, <2>1, QuietSellerKnows DEF CloseStream, Outside, Serving, Invoicing, SellerAt
  <2> QED  BY <2>2, <2>3
<1>9. CASE RequestRelease
  <2> DEFINE r == seller.request
  <2>1. /\ sellerSide' \in [Requests -> AgreementState]
        /\ \A q \in Requests : sellerSide[q] # "IDLE" => sellerSide'[q] # "IDLE"
    <3>1. PICK next \in AgreementState :
            /\ sellerSide' = [sellerSide EXCEPT ![r] = next]
            /\ sellerSide[r] # "IDLE" => next # "IDLE"
      <4>1. sellerSide' = [sellerSide EXCEPT ![r] =
                             IF sellerSide[r] = "FUNDED"
                               THEN Transition("FUNDED", "DELIVERY_STARTED") ELSE sellerSide[r]]
        BY <1>9 DEF RequestRelease
      <4>2. Transition("FUNDED", "DELIVERY_STARTED") \in AgreementState \ {"IDLE"}
        BY Started
      <4>3. sellerSide[r] \in AgreementState
        BY <1>s DEF CommerceTypeOK
      <4> QED  BY <4>1, <4>2, <4>3
    <3> QED  BY <3>1 DEF CommerceTypeOK
  <2>2. sellerSide[r] # "IDLE"
    BY <1>9 DEF RequestRelease, Knowledge, SellerStage
  <2>u. /\ UNCHANGED <<topic, deployment, buyerSide, worker, incoming, nextRequest>>
        /\ Posted' = Posted
    BY <1>9 DEF RequestRelease, Posted
  <2>3. CASE escrow[r] = "funded"
    <3>1. SellerAt("publishInvoice")
      BY <1>9, <2>3, <1>n, <1>p, <1>s, SellerGoes DEF RequestRelease
    <3>2. escrow' = [escrow EXCEPT ![r] = "requested"]
      BY <1>9, <2>3 DEF RequestRelease
    <3>3. /\ escrow' \in [Requests -> {"none", "created", "funded", "requested", "paid"}]
          /\ \A q \in Requests : \/ escrow'[q] = escrow[q]
                                 \/ escrow[q] = "funded" /\ escrow'[q] = "requested"
          /\ escrow'[r] = "requested"
      BY <2>3, <3>2, <1>s DEF CommerceTypeOK
    <3>4. CommerceTypeOK'
      BY <1>9, <2>u, <2>1, <3>1, <3>3 DEF CommerceTypeOK, SellerAt, RequestRelease
    <3>5. \A m \in Posted : m.type = "invoice" => m.request # r
      BY <1>h, <2>3 DEF TrueMessage, Claimed
    <3>6. SellerStage' /\ ServedIsFunded'
      BY <1>s, <2>u, <2>1, <2>2, <3>1, <3>3, <3>5 DEF SellerStage, ServedIsFunded, SellerAt, Claimed
    <3>7. Knowledge'
      BY <2>u, <2>1, <3>3, <3>6, SellerKnows
    <3> QED  BY <3>4, <3>7
  <2>4. CASE escrow[r] # "funded"
    <3>1. SellerAt(AgreementOver) /\ UNCHANGED escrow
      BY <1>9, <2>4, <1>n, <1>o, <1>p, <1>s, SellerGoes DEF RequestRelease
    <3>2. CommerceTypeOK'
      BY <1>o, <2>u, <2>1, <3>1 DEF CommerceTypeOK, SellerAt
    <3>3. Knowledge'
      <4>1. AgreementOver \in SellerPhase \ {"publishInvoice"}
            /\ AgreementOver \in Outside /\ AgreementOver \notin Serving
        BY <1>o, <1>p DEF Outside, Serving, Invoicing
      <4> QED  BY <2>u, <2>1, <3>1, <4>1, QuietSellerKnows DEF SellerAt
    <3> QED  BY <3>2, <3>3
  <2> QED  BY <2>3, <2>4
<1>10. CASE PublishInvoice
  <2> DEFINE r == seller.request
  <2>1. SellerAt("subscribeAck")
    BY <1>10, <1>n, <1>p, <1>s, SellerGoes DEF PublishInvoice
  <2>2. /\ topic' \in [Topics -> Seq(Message)]
        /\ Posted' = Posted \cup {[type |-> "invoice", request |-> r, from |-> Seller]}
    <3>1. publishCommerce(seller.buyer, "invoice", r, Seller)
      BY <1>10 DEF PublishInvoice
    <3> QED  BY <3>1, <1>s, Published DEF MessageType
  <2>3. /\ sellerSide' \in [Requests -> AgreementState]
        /\ \A q \in Requests : sellerSide[q] # "IDLE" => sellerSide'[q] # "IDLE"
        /\ sellerSide'[r] # "IDLE"
    <3>1. Transition(sellerSide[r], "INVOICE") \in AgreementState \ {"IDLE"}
      BY <1>10, TransitionAdvances DEF PublishInvoice, SellerEvent
    <3>2. sellerSide' = [sellerSide EXCEPT ![r] = Transition(sellerSide[r], "INVOICE")]
      BY <1>10 DEF PublishInvoice, SellerEvent
    <3> QED  BY <1>s, <3>1, <3>2 DEF CommerceTypeOK
  <2>4. /\ UNCHANGED <<deployment, escrow, buyerSide, worker, incoming, nextRequest>>
        /\ seller.phase = "publishInvoice" /\ escrow[r] \in Claimed
    BY <1>10 DEF PublishInvoice, Knowledge, SellerStage
  <2>5. CommerceTypeOK'
    BY <2>1, <2>2, <2>3, <2>4 DEF CommerceTypeOK, SellerAt
  <2>6. Knowledge'
    <3>1. \A m \in Posted' : m \in Posted \/ TrueMessage(m)'
      BY <2>2, <2>4 DEF TrueMessage
    <3>2. SellerStage' /\ ServedIsFunded'
      BY <2>1, <2>3, <2>4 DEF SellerStage, ServedIsFunded, SellerAt, Claimed
    <3> QED  BY <2>3, <2>4, <3>1, <3>2, SellerKnows
  <2> QED  BY <2>5, <2>6
<1>11. CASE SubscribeAck
  <2>1. SellerAt("awaitAck")
    <3>1. seller' = [seller EXCEPT !.phase = "awaitAck", !.cursor = Subscribe(Seller)]
      BY <1>11 DEF SubscribeAck
    <3> QED  BY <3>1, <1>n, <1>p, <1>s, SellerGoes
  <2>2. CommerceTypeOK'
    BY <1>11, <2>1 DEF CommerceTypeOK, SubscribeAck, SellerAt
  <2>3. Knowledge'
    BY <1>11, <1>p, <2>1, QuietSellerKnows DEF SubscribeAck, Outside, Serving, Invoicing, SellerAt
  <2> QED  BY <2>2, <2>3
<1>12. CASE ReceiveAck
  <2> DEFINE r == seller.request
  <2>1. SellerAt(AgreementOver)
    BY <1>12, <1>n, <1>o, <1>p, <1>s, SellerGoes DEF ReceiveAck
  <2>2. /\ sellerSide' \in [Requests -> AgreementState]
        /\ \A q \in Requests : sellerSide[q] # "IDLE" => sellerSide'[q] # "IDLE"
    <3>1. Transition(sellerSide[r], "INVOICE_APPROVED") \in AgreementState \ {"IDLE"}
      BY <1>12, TransitionAdvances DEF ReceiveAck, SellerEvent
    <3>2. sellerSide' = [sellerSide EXCEPT ![r] = Transition(sellerSide[r], "INVOICE_APPROVED")]
      BY <1>12 DEF ReceiveAck, SellerEvent
    <3> QED  BY <1>s, <3>1, <3>2 DEF CommerceTypeOK
  <2>3. CommerceTypeOK'
    BY <1>12, <1>o, <2>1, <2>2 DEF CommerceTypeOK, ReceiveAck, SellerAt
  <2>4. Knowledge'
    <3>1. AgreementOver \in SellerPhase \ {"publishInvoice"}
          /\ AgreementOver \in Outside /\ AgreementOver \notin Serving
      BY <1>o, <1>p DEF Outside, Serving, Invoicing
    <3> QED  BY <1>12, <2>1, <2>2, <3>1, QuietSellerKnows DEF SellerAt, ReceiveAck
  <2> QED  BY <2>3, <2>4
<1>13. CASE FailInvoice
  <2>1. SellerAt(AgreementOver)
    BY <1>13, <1>n, <1>o, <1>p, <1>s, SellerGoes DEF FailInvoice
  <2>2. CommerceTypeOK'
    BY <1>13, <1>o, <2>1 DEF CommerceTypeOK, FailInvoice, SellerAt
  <2>3. Knowledge'
    <3>1. AgreementOver \in SellerPhase \ {"publishInvoice"}
          /\ AgreementOver \in Outside /\ AgreementOver \notin Serving
      BY <1>o, <1>p DEF Outside, Serving, Invoicing
    <3> QED  BY <1>13, <2>1, <3>1, QuietSellerKnows DEF SellerAt, FailInvoice
  <2> QED  BY <2>2, <2>3
<1>14. CASE StopSeller
  <2>1. SellerAt("stopped")
    <3>1. seller' = [seller EXCEPT !.phase = "stopped", !.cut = FALSE, !.newcomer = 0]
      BY <1>14 DEF StopSeller
    <3> QED  BY <3>1, <1>n, <1>p, <1>s, SellerGoes
  <2>2. CommerceTypeOK'
    BY <1>14, <2>1 DEF CommerceTypeOK, StopSeller, SellerAt
  <2>3. Knowledge'
    BY <1>14, <1>p, <2>1, QuietSellerKnows DEF StopSeller, Outside, Serving, Invoicing, SellerAt
  <2> QED  BY <2>2, <2>3
<1>15. CASE RestartSeller
  <2>1. SellerAt("gate")
    BY <1>15, <1>n, <1>p, <1>s, SellerGoes DEF RestartSeller
  <2>2. CommerceTypeOK'
    BY <1>15, <2>1 DEF CommerceTypeOK, RestartSeller, SellerAt
  <2>3. Knowledge'
    BY <1>15, <1>p, <2>1, QuietSellerKnows DEF RestartSeller, Outside, Serving, Invoicing, SellerAt
  <2> QED  BY <2>2, <2>3
<1> QED
  BY <1>1, <1>2, <1>3, <1>4, <1>5, <1>6, <1>7, <1>8, <1>9, <1>10, <1>11, <1>12, <1>13, <1>14, <1>15
     DEF SellerStep

-----------------------------------------------------------------------------
(* The invariant *)

\* The initial states satisfy the invariant.
LEMMA InitEstablishes ==
  ASSUME CommerceInit
  PROVE  IInv
<1>1. CommerceTypeOK
  <2>1. worker \in [Buyers -> WorkerState]
    BY CommerceAssumption DEF CommerceInit, WorkerState, WorkerPhase, Requests
  <2>2. seller \in SellerState /\ seller.phase = "gate"
    <3>1. (CHOOSE b \in Buyers : TRUE) \in Buyers
      BY CommerceAssumption
    <3> QED  BY <3>1, CommerceAssumption DEF CommerceInit, SellerState, SellerPhase, Gate, Requests
  <2>3. topic \in [Topics -> Seq(Message)]
    BY DEF CommerceInit
  <2>4. incoming \in [Buyers -> Seq(Stream)] /\ \A b \in Buyers : Len(incoming[b]) <= IncomingCap
    BY CommerceAssumption DEF CommerceInit
  <2>5. nextRequest \in 1..(MaxRequests + 1)
    BY CommerceAssumption DEF CommerceInit
  <2> QED  BY <2>1, <2>2, <2>3, <2>4, <2>5 DEF CommerceTypeOK, CommerceInit, AgreementState
<1>2. Posted = {}
  BY DEF Posted, CommerceInit
<1>3. OwnRequests /\ PaidWasInvoiced
  BY DEF OwnRequests, PaidWasInvoiced, CommerceInit, Active
<1>4. SessionStages
  BY CommerceAssumption DEF SessionStages, SessionStage, CommerceInit
<1>5. TrueMessages /\ SellerStage /\ ServedIsFunded
  BY <1>2 DEF TrueMessages, SellerStage, ServedIsFunded, Serving, Invoicing, CommerceInit
<1> QED  BY <1>1, <1>3, <1>4, <1>5 DEF IInv, Knowledge

\* So does every step from a state that does.
LEMMA StepKeeps ==
  ASSUME IInv, [CommerceNext]_commerceVars
  PROVE  IInv'
<1>1. CASE UNCHANGED commerceVars
  <2>1. CommerceTypeOK'
    BY <1>1 DEF IInv, CommerceTypeOK, commerceVars
  <2>2. Posted' = Posted
    BY <1>1 DEF Posted, commerceVars
  <2>3. SessionStages' /\ OwnRequests' /\ PaidWasInvoiced'
    BY <1>1 DEF IInv, Knowledge, SessionStages, SessionStage, OwnRequests, PaidWasInvoiced,
       Active, commerceVars
  <2>4. TrueMessages' /\ SellerStage' /\ ServedIsFunded'
    BY <1>1, <2>2 DEF IInv, Knowledge, TrueMessages, TrueMessage, SellerStage, ServedIsFunded,
       commerceVars
  <2> QED  BY <2>1, <2>3, <2>4 DEF IInv, Knowledge
<1>2. ASSUME NEW b \in deployment.buyers, WorkerStep(b) \/ DropSession(b) PROVE IInv'
  <2>1. b \in Buyers
    BY CommerceAssumption DEF IInv, CommerceTypeOK
  <2> QED  BY <1>2, <2>1, RequestKeeps, WorkerKeeps
<1> QED  BY <1>1, <1>2, SellerKeeps DEF CommerceNext

\* The variables of the two processes have their types (commerce.go, buyer.go, seller.go).
THEOREM CommerceTypeCorrect == CommerceSpec => []CommerceTypeOK
<1>1. CommerceInit => IInv
  BY InitEstablishes
<1>2. IInv /\ [CommerceNext]_commerceVars => IInv'
  BY StepKeeps
<1>3. IInv => CommerceTypeOK
  BY DEF IInv
<1> QED  BY <1>1, <1>2, <1>3, PTL DEF CommerceSpec

\* Past its gate the seller serves and invoices only an agreement whose escrow is funded, for
\* every number of buyers, requests, restarts and dropped sessions (seller.go, RunSeller).
THEOREM ServedFunded == CommerceSpec => []ServedIsFunded
<1>1. CommerceInit => IInv
  BY InitEstablishes
<1>2. IInv /\ [CommerceNext]_commerceVars => IInv'
  BY StepKeeps
<1>3. IInv => ServedIsFunded
  BY DEF IInv, Knowledge
<1> QED  BY <1>1, <1>2, <1>3, PTL DEF CommerceSpec

\* An acknowledged invoice is paid, and what is paid was invoiced to the buyer's own machine
\* (commerce.go, ReceiveInvoice and IssueInvoice).
THEOREM ApprovedPaid == CommerceSpec => []ApprovedIsPaid
<1>1. CommerceInit => IInv
  BY InitEstablishes
<1>2. IInv /\ [CommerceNext]_commerceVars => IInv'
  BY StepKeeps
<1>3. IInv => ApprovedIsPaid
  <2> SUFFICES ASSUME IInv, NEW r \in Requests
               PROVE  /\ \A i \in DOMAIN topic[Seller] :
                           topic[Seller][i].type = "invoiceAck" /\ topic[Seller][i].request = r
                             => escrow[r] = "paid"
                      /\ escrow[r] = "paid" => buyerSide[r] \in {"INVOICED", "ACTIVE"}
    BY DEF ApprovedIsPaid
  <2>1. \A i \in DOMAIN topic[Seller] : topic[Seller][i] \in Posted
    BY DEF Posted, Topics
  <2> QED  BY <2>1 DEF IInv, Knowledge, TrueMessages, TrueMessage, PaidWasInvoiced
<1> QED  BY <1>1, <1>2, <1>3, PTL DEF CommerceSpec

-----------------------------------------------------------------------------
(* One invoice for an agreement *)

\* A message other than a second invoice of an agreement leaves the invoices apart.
LEMMA StillInvoicedOnce ==
  ASSUME topic \in [Topics -> Seq(Message)], InvoicedOnce,
         NEW t \in Topics, NEW type \in MessageType, NEW r \in Requests, NEW from \in Topics,
         publishCommerce(t, type, r, from),
         type = "invoice" => \A m \in Posted : m.type = "invoice" => m.request # r
  PROVE  InvoicedOnce'
<1> DEFINE m == [type |-> type, request |-> r, from |-> from]
<1>1. m \in Message /\ m.type = type /\ m.request = r
  BY DEF Message, Messages
<1>2. topic' = [topic EXCEPT ![t] = Append(topic[t], m)]
  BY DEF publishCommerce
<1> HIDE DEF m
<1> SUFFICES ASSUME NEW b \in Buyers, NEW i \in DOMAIN topic'[b], NEW j \in DOMAIN topic'[b],
                    topic'[b][i].type = "invoice", topic'[b][j].type = "invoice",
                    topic'[b][i].request = topic'[b][j].request
             PROVE  i = j
  BY DEF InvoicedOnce
<1>b. b \in Topics
  BY DEF Topics
<1>3. CASE b # t
  <2>1. topic'[b] = topic[b]
    BY <1>2, <1>3, <1>b
  <2> QED  BY <2>1 DEF InvoicedOnce
<1>4. CASE b = t
  <2>1. topic'[b] = Append(topic[b], m)
    BY <1>2, <1>4
  <2>2. topic[b] \in Seq(Message) /\ Len(topic[b]) \in Nat
        /\ DOMAIN topic[b] = 1..Len(topic[b])
    BY <1>b
  <2>3. /\ DOMAIN Append(topic[b], m) = 1..(Len(topic[b]) + 1)
        /\ \A k \in 1..Len(topic[b]) : Append(topic[b], m)[k] = topic[b][k]
        /\ Append(topic[b], m)[Len(topic[b]) + 1] = m
    BY <1>1, <2>2, AppendProperties
  <2>4. \A k \in 1..Len(topic[b]) : topic'[b][k] = topic[b][k] /\ topic[b][k] \in Posted
    <3>1. \A k \in DOMAIN topic[b] : topic[b][k] \in Posted
      BY <1>b DEF Posted
    <3> QED  BY <2>1, <2>2, <2>3, <3>1
  <2>5. /\ i \in 1..Len(topic[b]) \/ (i = Len(topic[b]) + 1 /\ topic'[b][i] = m)
        /\ j \in 1..Len(topic[b]) \/ (j = Len(topic[b]) + 1 /\ topic'[b][j] = m)
    BY <2>1, <2>2, <2>3
  <2>6. CASE i \in 1..Len(topic[b]) /\ j \in 1..Len(topic[b])
    BY <2>2, <2>4, <2>6 DEF InvoicedOnce
  <2>7. CASE i \notin 1..Len(topic[b]) /\ j \notin 1..Len(topic[b])
    BY <2>5, <2>7
  <2>8. ~(i \in 1..Len(topic[b]) /\ j \notin 1..Len(topic[b]))
    BY <1>1, <2>4, <2>5
  <2>9. ~(j \in 1..Len(topic[b]) /\ i \notin 1..Len(topic[b]))
    BY <1>1, <2>4, <2>5
  <2> QED  BY <2>6, <2>7, <2>8, <2>9
<1> QED  BY <1>3, <1>4

\* Every step keeps the invoices of an agreement apart: a seller that publishes one has found
\* the price funded in this round, so none was published before.
LEMMA InvoicesStayApart ==
  ASSUME IInv, InvoicedOnce, [CommerceNext]_commerceVars
  PROVE  InvoicedOnce'
<1>t. /\ topic \in [Topics -> Seq(Message)] /\ Seller \in Topics /\ Buyers \subseteq Topics
      /\ seller.request \in Requests /\ seller.buyer \in Buyers /\ seller.cursor \in Nat \ {0}
      /\ \A c \in Buyers : worker[c].request \in Requests
      /\ deployment.buyers \subseteq Buyers
  BY CommerceAssumption DEF IInv, CommerceTypeOK, SellerState, WorkerState, Topics
<1>1. CASE UNCHANGED topic
  BY <1>1 DEF InvoicedOnce
<1>2. ASSUME NEW type \in MessageType \ {"invoice"}, NEW r \in Requests, NEW from \in Topics,
             NEW t \in Topics, publishCommerce(t, type, r, from)
      PROVE  InvoicedOnce'
  BY <1>2, <1>t, StillInvoicedOnce
<1>m. {"serviceRequest", "serviceResponse", "escrowCreated", "connectionSetup", "invoiceAck"}
        \subseteq MessageType \ {"invoice"}
  BY DEF MessageType
<1>3. ASSUME NEW b \in Buyers,
             Request(b) \/ AnnounceEscrow(b) \/ PublishSetup(b) \/ AcknowledgeInvoice(b)
      PROVE  InvoicedOnce'
  BY <1>t, <1>m, <1>2, <1>3 DEF Request, AnnounceEscrow, PublishSetup, AcknowledgeInvoice
<1>4. CASE AcceptRequest
  <2>1. PICK i \in Awaited(Seller, seller.cursor, Messages({"serviceRequest"}, Requests)) :
          publishCommerce(topic[Seller][i].from, "serviceResponse", topic[Seller][i].request,
                          Seller)
    BY <1>4 DEF AcceptRequest
  <2>2. topic[Seller][i] \in Message
    BY <1>t, AwaitedIsPosted
  <2> QED  BY <1>t, <1>m, <1>2, <2>1, <2>2 DEF Message, Messages
<1>5. CASE ReceiveSetup
  BY <1>t, <1>m, <1>1, <1>2, <1>5 DEF ReceiveSetup
<1>6. CASE PublishInvoice
  <2>1. publishCommerce(seller.buyer, "invoice", seller.request, Seller)
    BY <1>6 DEF PublishInvoice
  <2>2. \A m \in Posted : m.type = "invoice" => m.request # seller.request
    BY <1>6 DEF PublishInvoice, IInv, Knowledge, SellerStage
  <2> QED  BY <1>t, <2>1, <2>2, StillInvoicedOnce DEF MessageType
<1>7. ASSUME NEW b \in Buyers, WorkerStep(b) \/ DropSession(b),
             ~(Request(b) \/ AnnounceEscrow(b) \/ PublishSetup(b) \/ AcknowledgeInvoice(b))
      PROVE  UNCHANGED topic
  BY <1>7 DEF WorkerStep, DropSession, Drain, SubscribeResponse, ReceiveResponse, CreateEscrow,
     Deposit, TakeStream, EndStream, SubscribeInvoice, ReceiveInvoice, ApproveRelease
<1>8. ASSUME SellerStep \/ AbandonIdle \/ FailInvoice \/ StopSeller \/ RestartSeller,
             ~(AcceptRequest \/ ReceiveSetup \/ PublishInvoice)
      PROVE  UNCHANGED topic
  BY <1>8 DEF SellerStep, AbandonIdle, FailInvoice, StopSeller, RestartSeller, EnterGate,
     ObserveEscrow, SubscribeSetup, Dial, CloseStream, RequestRelease, SubscribeAck, ReceiveAck
<1>9. CASE UNCHANGED commerceVars
  BY <1>1, <1>9 DEF commerceVars
<1> QED
  BY <1>t, <1>1, <1>3, <1>4, <1>5, <1>6, <1>7, <1>8, <1>9 DEF CommerceNext

\* An agreement is invoiced once, however often the seller serves it again (IssueInvoice).
THEOREM Invoiced == CommerceSpec => []InvoicedOnce
<1>1. CommerceInit => IInv /\ InvoicedOnce
  BY InitEstablishes DEF CommerceInit, InvoicedOnce, Topics
<1>2. IInv /\ InvoicedOnce /\ [CommerceNext]_commerceVars => IInv' /\ InvoicedOnce'
  BY StepKeeps, InvoicesStayApart
<1> QED  BY <1>1, <1>2, PTL DEF CommerceSpec

-----------------------------------------------------------------------------
(* The promised trade *)

\* How far an agreement is whose escrow is e and whose seller's machine is in s.
TradeAt(e, s) ==
  CASE e = "paid"      -> "paid"
    [] e = "requested" -> "claimed"
    [] e = "funded"    -> "funded"
    [] OTHER -> IF s = "IDLE" THEN "open" ELSE "accepted"

\* Trade, before and after a step, without the function around it.
LEMMA TradeIs ==
  /\ Trade = [r \in Requests |-> TradeAt(escrow[r], sellerSide[r])]
  /\ Trade' = [r \in Requests |-> TradeAt(escrow'[r], sellerSide'[r])]
BY DEF Trade, TradeAt

\* A step that changes neither an escrow nor whether a machine has left IDLE is a stutter of
\* the trade.
LEMMA TradeStays ==
  ASSUME \A q \in Requests :
           /\ escrow'[q] = escrow[q]
           /\ sellerSide[q] = "IDLE" <=> sellerSide'[q] = "IDLE"
  PROVE  UNCHANGED Trade
BY TradeIs DEF TradeAt

\* A step that moves one agreement to the next state of its trade is a step of the trade.
LEMMA TradeMoves ==
  ASSUME NEW r \in Requests,
         \A q \in Requests \ {r} : escrow'[q] = escrow[q] /\ sellerSide'[q] = sellerSide[q],
         TradeAt(escrow[r], sellerSide[r]) = TradeAt(escrow'[r], sellerSide'[r])
         \/ <<TradeAt(escrow[r], sellerSide[r]), TradeAt(escrow'[r], sellerSide'[r])>>
              \in {<<"open", "accepted">>, <<"accepted", "funded">>, <<"funded", "claimed">>,
                   <<"claimed", "paid">>}
  PROVE  Promise!TradeNext \/ UNCHANGED Trade
<1> DEFINE from == TradeAt(escrow[r], sellerSide[r])
           to == TradeAt(escrow'[r], sellerSide'[r])
<1>1. Trade[r] = from
  BY TradeIs
<1>2. Trade' = [Trade EXCEPT ![r] = to]
  <2>1. \A q \in Requests : Trade'[q] = IF q = r THEN to ELSE Trade[q]
    BY TradeIs
  <2> HIDE DEF to
  <2> QED  BY <2>1, TradeIs
<1> HIDE DEF from, to
<1>3. from = to => UNCHANGED Trade
  <2>1. ASSUME from = to PROVE [Trade EXCEPT ![r] = to] = Trade
    BY <1>1, <2>1, TradeIs
  <2> QED  BY <1>2, <2>1
<1>4. /\ from = "open" /\ to = "accepted" => Promise!AcceptTrade(r)
      /\ from = "accepted" /\ to = "funded" => Promise!FundTrade(r)
      /\ from = "funded" /\ to = "claimed" => Promise!ClaimTrade(r)
      /\ from = "claimed" /\ to = "paid" => Promise!PayTrade(r)
  BY <1>1, <1>2 DEF Promise!AcceptTrade, Promise!FundTrade, Promise!ClaimTrade, Promise!PayTrade,
     Promise!Advance
<1>5. from = to \/ <<from, to>> \in {<<"open", "accepted">>, <<"accepted", "funded">>,
                                     <<"funded", "claimed">>, <<"claimed", "paid">>}
  BY DEF from, to
<1>6. \/ from = to
      \/ from = "open" /\ to = "accepted"
      \/ from = "accepted" /\ to = "funded"
      \/ from = "funded" /\ to = "claimed"
      \/ from = "claimed" /\ to = "paid"
  BY <1>5
<1> QED  BY <1>3, <1>4, <1>6 DEF Promise!TradeNext

\* Every step of the processes is a step of the trade or a stutter.
LEMMA TradeSteps ==
  ASSUME IInv, [CommerceNext]_commerceVars
  PROVE  Promise!TradeNext \/ UNCHANGED Trade
<1>t. /\ escrow \in [Requests -> {"none", "created", "funded", "requested", "paid"}]
      /\ sellerSide \in [Requests -> AgreementState]
      /\ topic \in [Topics -> Seq(Message)] /\ Seller \in Topics
      /\ seller.request \in Requests /\ seller.cursor \in Nat \ {0}
      /\ \A c \in Buyers : worker[c].request \in Requests
      /\ deployment.buyers \subseteq Buyers
  BY CommerceAssumption DEF IInv, CommerceTypeOK, SellerState, WorkerState, Topics
<1>1. CASE UNCHANGED <<escrow, sellerSide>>
  BY <1>1, TradeStays
<1>2. ASSUME NEW b \in Buyers, CreateEscrow(b) \/ Deposit(b) \/ ApproveRelease(b)
      PROVE  Promise!TradeNext \/ UNCHANGED Trade
  <2>1. PICK r \in Requests : r = worker[b].request
    BY <1>t
  <2>2. SessionStage(worker[b].phase, r)
    BY <2>1 DEF IInv, Knowledge, SessionStages
  <2>3. \A q \in Requests \ {r} : escrow'[q] = escrow[q] /\ sellerSide'[q] = sellerSide[q]
    BY <1>t, <1>2, <2>1 DEF CreateEscrow, Deposit, ApproveRelease
  <2>4. /\ sellerSide'[r] = sellerSide[r]
        /\ \/ escrow[r] = "none" /\ escrow'[r] = "created"
           \/ escrow[r] = "created" /\ escrow'[r] = "funded" /\ sellerSide[r] # "IDLE"
           \/ escrow[r] = "requested" /\ escrow'[r] = "paid"
    BY <1>t, <1>2, <2>1, <2>2 DEF CreateEscrow, Deposit, ApproveRelease, SessionStage
  <2>5. TradeAt(escrow[r], sellerSide[r]) = TradeAt(escrow'[r], sellerSide'[r])
        \/ <<TradeAt(escrow[r], sellerSide[r]), TradeAt(escrow'[r], sellerSide'[r])>>
             \in {<<"open", "accepted">>, <<"accepted", "funded">>, <<"funded", "claimed">>,
                  <<"claimed", "paid">>}
    BY <2>4 DEF TradeAt
  <2> QED  BY <2>3, <2>5, TradeMoves
<1>3. CASE AcceptRequest
  <2>1. PICK i \in Awaited(Seller, seller.cursor, Messages({"serviceRequest"}, Requests)) :
          sellerSide' = [sellerSide EXCEPT ![topic[Seller][i].request] =
                           Transition(Transition("IDLE", "SERVICE_REQUEST"), "ACCEPT")]
    BY <1>3 DEF AcceptRequest
  <2>2. topic[Seller][i] \in Message
    BY <1>t, AwaitedIsPosted
  <2>3. PICK r \in Requests : r = topic[Seller][i].request
    BY <2>2 DEF Message, Messages
  <2>4. PICK accepted \in AgreementState \ {"IDLE"} :
          sellerSide' = [sellerSide EXCEPT ![r] = accepted]
    BY <2>1, <2>3, Accepted
  <2>5. /\ \A q \in Requests \ {r} : escrow'[q] = escrow[q] /\ sellerSide'[q] = sellerSide[q]
        /\ escrow'[r] = escrow[r] /\ sellerSide'[r] # "IDLE"
    BY <1>t, <1>3, <2>4 DEF AcceptRequest
  <2>6. TradeAt(escrow[r], sellerSide[r]) = TradeAt(escrow'[r], sellerSide'[r])
        \/ <<TradeAt(escrow[r], sellerSide[r]), TradeAt(escrow'[r], sellerSide'[r])>>
             \in {<<"open", "accepted">>, <<"accepted", "funded">>, <<"funded", "claimed">>,
                  <<"claimed", "paid">>}
    BY <2>5 DEF TradeAt
  <2> QED  BY <2>5, <2>6, TradeMoves
<1>4. CASE ObserveEscrow \/ PublishInvoice \/ ReceiveAck
  <2>1. PICK event \in {"ESCROW_CREATED", "INVOICE", "INVOICE_APPROVED"} :
          SellerEvent(seller.request, event) /\ UNCHANGED escrow
    BY <1>4 DEF ObserveEscrow, PublishInvoice, ReceiveAck
  <2>2. sellerSide[seller.request] # "IDLE"
    BY <1>4 DEF ObserveEscrow, PublishInvoice, ReceiveAck, IInv, Knowledge, SellerStage
  <2>3. PICK next \in AgreementState \ {"IDLE"} :
          sellerSide' = [sellerSide EXCEPT ![seller.request] = next]
    BY <2>1, TransitionAdvances DEF SellerEvent
  <2> QED  BY <1>t, <2>1, <2>2, <2>3, TradeStays
<1>5. CASE RequestRelease
  <2>1. PICK r \in Requests : r = seller.request
    BY <1>t
  <2>2. PICK next \in AgreementState :
          /\ sellerSide' = [sellerSide EXCEPT ![r] = next]
          /\ next = "IDLE" <=> sellerSide[r] = "IDLE"
    <3>1. sellerSide' = [sellerSide EXCEPT ![r] =
                           IF sellerSide[r] = "FUNDED"
                             THEN Transition("FUNDED", "DELIVERY_STARTED") ELSE sellerSide[r]]
      BY <1>5, <2>1 DEF RequestRelease
    <3>2. Transition("FUNDED", "DELIVERY_STARTED") \in AgreementState \ {"IDLE"}
      BY Started
    <3> QED  BY <1>t, <3>1, <3>2
  <2>3. /\ \A q \in Requests \ {r} : escrow'[q] = escrow[q] /\ sellerSide'[q] = sellerSide[q]
        /\ sellerSide'[r] = "IDLE" <=> sellerSide[r] = "IDLE"
        /\ escrow'[r] = escrow[r] \/ (escrow[r] = "funded" /\ escrow'[r] = "requested")
    BY <1>t, <1>5, <2>1, <2>2 DEF RequestRelease
  <2>4. TradeAt(escrow[r], sellerSide[r]) = TradeAt(escrow'[r], sellerSide'[r])
        \/ <<TradeAt(escrow[r], sellerSide[r]), TradeAt(escrow'[r], sellerSide'[r])>>
             \in {<<"open", "accepted">>, <<"accepted", "funded">>, <<"funded", "claimed">>,
                  <<"claimed", "paid">>}
    BY <2>3 DEF TradeAt
  <2> QED  BY <2>3, <2>4, TradeMoves
<1>6. ASSUME NEW b \in Buyers, WorkerStep(b) \/ DropSession(b),
             ~(CreateEscrow(b) \/ Deposit(b) \/ ApproveRelease(b))
      PROVE  UNCHANGED <<escrow, sellerSide>>
  BY <1>6 DEF WorkerStep, DropSession, Drain, Request, SubscribeResponse, ReceiveResponse,
     AnnounceEscrow, PublishSetup, TakeStream, EndStream, SubscribeInvoice, ReceiveInvoice,
     AcknowledgeInvoice
<1>7. ASSUME SellerStep \/ AbandonIdle \/ FailInvoice \/ StopSeller \/ RestartSeller,
             ~(AcceptRequest \/ ObserveEscrow \/ RequestRelease \/ PublishInvoice \/ ReceiveAck)
      PROVE  UNCHANGED <<escrow, sellerSide>>
  BY <1>7 DEF SellerStep, AbandonIdle, FailInvoice, StopSeller, RestartSeller, EnterGate,
     SubscribeSetup, ReceiveSetup, Dial, CloseStream, SubscribeAck
<1>8. CASE UNCHANGED commerceVars
  BY <1>1, <1>8 DEF commerceVars
<1> QED
  BY <1>t, <1>1, <1>2, <1>3, <1>4, <1>5, <1>6, <1>7, <1>8 DEF CommerceNext

\* The processes implement the promised trade: funded only once accepted, claimed only once
\* funded, paid only once claimed, and never back (commerce.go against PaidAgreement).
THEOREM PromiseKept == CommerceSpec => KeepsPromise
<1>1. CommerceInit => IInv
  BY InitEstablishes
<1>2. IInv /\ [CommerceNext]_commerceVars => IInv'
  BY StepKeeps
<1>3. CommerceInit => Promise!TradeInit
  BY TradeIs DEF CommerceInit, Promise!TradeInit, TradeAt
<1>4. IInv /\ [CommerceNext]_commerceVars => [Promise!TradeNext]_Trade
  BY TradeSteps
<1> QED  BY <1>1, <1>2, <1>3, <1>4, PTL DEF CommerceSpec, KeepsPromise, Promise!TradeSpec
===============================================================================
