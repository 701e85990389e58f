----------------------------- MODULE EdgeCommerce -----------------------------
(***************************************************************************)
(* The paid edge feed of impl/golang/internal/edgeapp: workers of buyers   *)
(* (runSellerWorker in buyer.go) and one seller (RunSeller in seller.go)   *)
(* negotiate, fund, stream and settle agreements (commerce.go) by messages *)
(* on their stdIn topics.  Nothing is shared but the topics, the escrows   *)
(* and the stream the seller dials.                                        *)
(*                                                                         *)
(* A topic is the sequence of its messages and a subscription is a cursor  *)
(* into it.  With FromSequence nil, as everywhere in edgeapp, MemoryBus    *)
(* replays a topic from its first message and HCS starts after its last.   *)
(*                                                                         *)
(* An escrow is known by the request id of its agreement and moves none -> *)
(* created -> funded -> requested -> paid: one deposit of the whole price, *)
(* one release of the whole price.  NeuronEscrow models its money.         *)
(***************************************************************************)
EXTENDS Agreement, Naturals, Sequences

CONSTANTS Buyers,       \* workers of buyers, each of them with a stdIn topic
          Seller,       \* the seller's stdIn topic
          Deployments,  \* which workers run, whether the bus replays (MemoryBus) or not (HCS),
                        \* and whether timeouts, failing calls and crashes happen
          PeriodDriven, \* AgreementPeriod > 0: the seller serves one agreement after another
          IncomingCap,  \* how many streams of the seller wait for a worker (4)
          MaxRequests,  \* bound on the requests of all buyers
          MaxRounds     \* bound on the agreements the seller tries to serve

ASSUME CommerceAssumption ==
  /\ Seller \notin Buyers /\ Buyers # {}
  /\ Deployments \subseteq [buyers: SUBSET Buyers, replays: BOOLEAN, faults: BOOLEAN]
  /\ PeriodDriven \in BOOLEAN
  /\ IncomingCap \in Nat /\ MaxRequests \in Nat \ {0} /\ MaxRounds \in Nat

VARIABLES topic,      \* topic[t]: the messages on t, in consensus order
          deployment, \* the deployment this behaviour is of
          escrow,     \* escrow[r]: the escrow of agreement r
          buyerSide,  \* buyerSide[r]: the buyer's state machine of agreement r
          sellerSide, \* sellerSide[r]: the seller's
          worker,     \* worker[b]: a buyer's worker
          incoming,   \* incoming[b]: the streams waiting to be taken by the worker
          seller,     \* the seller's process
          nextRequest \* the next fresh request id

commerceVars ==
  <<topic, deployment, escrow, buyerSide, sellerSide, worker, incoming, seller, nextRequest>>

Requests == 1..MaxRequests
Topics == Buyers \cup {Seller}

MessageType == {"serviceRequest", "serviceResponse", "escrowCreated", "connectionSetup",
                "invoice", "invoiceAck"}
Messages(types, requests) == [type: types, request: requests, from: Topics]
Message == Messages(MessageType, Requests)

\* A dialled stream: the seller's round tells the streams of one agreement apart.
Stream == [request: Requests, round: 1..MaxRounds]
NoStream == [request |-> 1, round |-> 0]

Negotiating == {"request", "subscribeResponse", "awaitResponse", "createEscrow", "deposit",
                "announce"}
Settling == {"subscribeInvoice", "awaitInvoice", "approve", "acknowledge"}
WorkerPhase ==
  {"start"} \cup Negotiating \cup {"publishSetup", "awaitDial", "streaming"} \cup Settling

Gate == {"gate", "awaitRequest", "awaitEscrow"}
Invoicing == {"requestRelease", "publishInvoice", "subscribeAck", "awaitAck"}
Serving == {"subscribeSetup", "awaitSetup", "dial", "streaming"} \cup Invoicing
SellerPhase == {"stopped"} \cup Gate \cup Serving

WorkerState == [phase: WorkerPhase, request: Requests, cursor: Nat \ {0},
                stream: Stream \cup {NoStream}]
SellerState == [phase: SellerPhase, request: Requests, buyer: Buyers, cursor: Nat \ {0},
                round: 0..MaxRounds, cut: BOOLEAN, newcomer: 0..MaxRequests]

CommerceTypeOK ==
  /\ topic \in [Topics -> Seq(Message)]
  /\ deployment \in Deployments
  /\ escrow \in [Requests -> {"none", "created", "funded", "requested", "paid"}]
  /\ buyerSide \in [Requests -> AgreementState] /\ sellerSide \in [Requests -> AgreementState]
  /\ worker \in [Buyers -> WorkerState]
  /\ incoming \in [Buyers -> Seq(Stream)]
  /\ \A b \in Buyers : Len(incoming[b]) <= IncomingCap
  /\ seller \in SellerState
  /\ seller.phase \notin {"gate", "stopped"} => seller.round # 0
  /\ nextRequest \in 1..(MaxRequests + 1)

CommerceInit ==
  /\ topic = [t \in Topics |-> <<>>]
  /\ deployment \in Deployments
  /\ escrow = [r \in Requests |-> "none"]
  /\ buyerSide = [r \in Requests |-> "IDLE"]
  /\ sellerSide = [r \in Requests |-> "IDLE"]
  /\ worker = [b \in Buyers |-> [phase |-> "start", request |-> 1, cursor |-> 1,
                                 stream |-> NoStream]]
  /\ incoming = [b \in Buyers |-> <<>>]
  /\ seller = [phase |-> "gate", request |-> 1, buyer |-> CHOOSE b \in Buyers : TRUE,
               cursor |-> 1, round |-> 0, cut |-> FALSE, newcomer |-> 0]
  /\ nextRequest = 1

-----------------------------------------------------------------------------
(* The bus. *)

publishCommerce(t, type, r, from) ==
  topic' = [topic EXCEPT ![t] = Append(@, [type |-> type, request |-> r, from |-> from])]

\* Faulty variant: MemoryBus too starts after the last message.
latest(t) == Len(topic[t]) + 1

\* Where a new subscription to t starts.
Subscribe(t) == IF deployment.replays THEN 1 ELSE Len(topic[t]) + 1

\* Where the first message on t is, at or after the cursor, that the waiting loop does not
\* skip: at one place or, as long as it waits, at none.
Awaited(t, cursor, wanted) ==
  {i \in cursor..Len(topic[t]) :
     topic[t][i] \in wanted /\ \A j \in cursor..(i - 1) : topic[t][j] \notin wanted}

\* The stream the seller has open now; the peer sees any other one as closed.
IsOpen(stream) == seller.phase = "streaming" /\ ~seller.cut /\ seller.round = stream.round

\* The seller after the given streams have been disconnected by the buyer.
Disconnect(streams) ==
  seller' = [seller EXCEPT !.cut = @ \/ \E s \in streams : IsOpen(s)]

-----------------------------------------------------------------------------
(* A buyer's worker. *)

Goto(b, phase) == worker' = [worker EXCEPT ![b].phase = phase]

BuyerEvent(r, event) ==
  /\ Allowed(buyerSide[r], event)
  /\ buyerSide' = [buyerSide EXCEPT ![r] = Transition(@, event)]

\* The worker's loop starts over: what the seller dialled for an earlier session goes.
Drain(b) ==
  /\ worker[b].phase = "start"
  /\ incoming' = [incoming EXCEPT ![b] = <<>>]
  /\ Disconnect({incoming[b][i] : i \in DOMAIN incoming[b]})
  /\ Goto(b, "request")
  /\ UNCHANGED <<topic, deployment, escrow, buyerSide, sellerSide, nextRequest>>

\* A ServiceRequest with a fresh id.
Request(b) ==
  /\ worker[b].phase = "request"
  /\ nextRequest \in Requests
  /\ nextRequest' = nextRequest + 1
  /\ publishCommerce(Seller, "serviceRequest", nextRequest, b)
  /\ BuyerEvent(nextRequest, "SERVICE_REQUEST")
  /\ worker' = [worker EXCEPT ![b].phase = "subscribeResponse", ![b].request = nextRequest]
  /\ UNCHANGED <<deployment, escrow, sellerSide, incoming, seller>>

SubscribeResponse(b) ==
  /\ worker[b].phase = "subscribeResponse"
  /\ worker' = [worker EXCEPT ![b].phase = "awaitResponse", ![b].cursor = Subscribe(b)]
  /\ UNCHANGED <<topic, deployment, escrow, buyerSide, sellerSide, incoming, seller, nextRequest>>

\* Faulty variant: the first ServiceResponse is taken, whichever request it answers.
receiveAnyResponse(b) ==
  LET r == worker[b].request IN
  /\ worker[b].phase = "awaitResponse"
  /\ Awaited(b, worker[b].cursor, Messages({"serviceResponse"}, Requests)) # {}
  /\ BuyerEvent(r, "ACCEPT")
  /\ Goto(b, "createEscrow")
  /\ UNCHANGED <<topic, deployment, escrow, sellerSide, incoming, seller, nextRequest>>

ReceiveResponse(b) ==
  LET r == worker[b].request IN
  /\ worker[b].phase = "awaitResponse"
  /\ Awaited(b, worker[b].cursor, Messages({"serviceResponse"}, {r})) # {}
  /\ BuyerEvent(r, "ACCEPT")
  /\ Goto(b, "createEscrow")
  /\ UNCHANGED <<topic, deployment, escrow, sellerSide, incoming, seller, nextRequest>>

CreateEscrow(b) ==
  /\ worker[b].phase = "createEscrow"
  /\ escrow' = [escrow EXCEPT ![worker[b].request] = "created"]
  /\ Goto(b, "deposit")
  /\ UNCHANGED <<topic, deployment, buyerSide, sellerSide, incoming, seller, nextRequest>>

\* Faulty variant: the deposit is submitted and not waited for; it never arrives.
depositLost(b) ==
  /\ worker[b].phase = "deposit"
  /\ Goto(b, "announce")
  /\ UNCHANGED <<topic, deployment, escrow, buyerSide, sellerSide, incoming, seller, nextRequest>>

Deposit(b) ==
  /\ worker[b].phase = "deposit"
  /\ escrow' = [escrow EXCEPT ![worker[b].request] = "funded"]
  /\ Goto(b, "announce")
  /\ UNCHANGED <<topic, deployment, buyerSide, sellerSide, incoming, seller, nextRequest>>

AnnounceEscrow(b) ==
  /\ worker[b].phase = "announce"
  /\ publishCommerce(Seller, "escrowCreated", worker[b].request, b)
  /\ BuyerEvent(worker[b].request, "ESCROW_CREATED")
  /\ Goto(b, "publishSetup")
  /\ UNCHANGED <<deployment, escrow, sellerSide, incoming, seller, nextRequest>>

PublishSetup(b) ==
  /\ worker[b].phase = "publishSetup"
  /\ publishCommerce(Seller, "connectionSetup", worker[b].request, b)
  /\ Goto(b, "awaitDial")
  /\ UNCHANGED <<deployment, escrow, buyerSide, sellerSide, incoming, seller, nextRequest>>

TakeStream(b) ==
  /\ worker[b].phase = "awaitDial"
  /\ incoming[b] # <<>>
  /\ worker' = [worker EXCEPT ![b].phase = "streaming", ![b].stream = Head(incoming[b])]
  /\ incoming' = [incoming EXCEPT ![b] = Tail(@)]
  /\ UNCHANGED <<topic, deployment, escrow, buyerSide, sellerSide, seller, nextRequest>>

\* The seller closed the stream; or it broke, or the worker's context was cancelled.
EndStream(b) ==
  /\ worker[b].phase = "streaming"
  /\ deployment.faults \/ ~IsOpen(worker[b].stream)
  /\ Disconnect({worker[b].stream})
  /\ worker' = [worker EXCEPT ![b].phase = "subscribeInvoice", ![b].stream = NoStream]
  /\ UNCHANGED <<topic, deployment, escrow, buyerSide, sellerSide, incoming, nextRequest>>

SubscribeInvoice(b) ==
  /\ worker[b].phase = "subscribeInvoice"
  /\ worker' = [worker EXCEPT ![b].phase = "awaitInvoice", ![b].cursor = Subscribe(b)]
  /\ UNCHANGED <<topic, deployment, escrow, buyerSide, sellerSide, incoming, seller, nextRequest>>

\* FUNDED -> ACTIVE -> INVOICED: the delivery was never announced.
ReceiveInvoice(b) ==
  LET r == worker[b].request IN
  /\ worker[b].phase = "awaitInvoice"
  /\ Awaited(b, worker[b].cursor, Messages({"invoice"}, {r})) # {}
  /\ LET started == IF buyerSide[r] = "FUNDED" THEN Transition("FUNDED", "DELIVERY_STARTED")
                    ELSE buyerSide[r]
     IN /\ Allowed(started, "INVOICE")
        /\ buyerSide' = [buyerSide EXCEPT ![r] = Transition(started, "INVOICE")]
  /\ Goto(b, "approve")
  /\ UNCHANGED <<topic, deployment, escrow, sellerSide, incoming, seller, nextRequest>>

\* Faulty variant: the invoice is acknowledged whatever ApproveRelease returned.
approveUnchecked(b) ==
  /\ worker[b].phase = "approve"
  /\ escrow' = [escrow EXCEPT ![worker[b].request] = IF @ = "requested" THEN "paid" ELSE @]
                \/ UNCHANGED escrow
  /\ Goto(b, "acknowledge")
  /\ UNCHANGED <<topic, deployment, buyerSide, sellerSide, incoming, seller, nextRequest>>

ApproveRelease(b) ==
  /\ worker[b].phase = "approve"
  /\ escrow[worker[b].request] = "requested"
  /\ escrow' = [escrow EXCEPT ![worker[b].request] = "paid"]
  /\ Goto(b, "acknowledge")
  /\ UNCHANGED <<topic, deployment, buyerSide, sellerSide, incoming, seller, nextRequest>>

AcknowledgeInvoice(b) ==
  /\ worker[b].phase = "acknowledge"
  /\ publishCommerce(Seller, "invoiceAck", worker[b].request, b)
  /\ BuyerEvent(worker[b].request, "INVOICE_APPROVED")
  /\ Goto(b, "start")
  /\ UNCHANGED <<deployment, escrow, sellerSide, incoming, seller, nextRequest>>

\* Anything the worker calls or waits for fails, or times out, or the process restarts:
\* the session is dropped and the loop starts over.
DropSession(b) ==
  /\ deployment.faults
  /\ worker[b].phase \notin {"start", "request"}
  /\ Disconnect(IF worker[b].phase = "streaming" THEN {worker[b].stream} ELSE {})
  /\ worker' = [worker EXCEPT ![b].phase = "start", ![b].stream = NoStream]
  /\ UNCHANGED <<topic, deployment, escrow, buyerSide, sellerSide, incoming, nextRequest>>

-----------------------------------------------------------------------------
(* The seller. *)

SellerGoto(phase) == seller' = [seller EXCEPT !.phase = phase]

\* runOneAgreement returns without an error: the next agreement, if there is one.
AgreementOver == IF PeriodDriven THEN "gate" ELSE "stopped"

SellerEvent(r, event) ==
  /\ Allowed(sellerSide[r], event)
  /\ sellerSide' = [sellerSide EXCEPT ![r] = Transition(@, event)]

EnterGate ==
  /\ seller.phase = "gate"
  /\ seller.round < MaxRounds
  /\ seller' = [seller EXCEPT !.phase = "awaitRequest", !.cursor = Subscribe(Seller),
                              !.round = @ + 1]
  /\ UNCHANGED <<topic, deployment, escrow, buyerSide, sellerSide, worker, incoming, nextRequest>>

\* The seller accepts the first request it sees, whoever sent it, with a fresh machine.
AcceptRequest ==
  /\ seller.phase = "awaitRequest"
  /\ \E i \in Awaited(Seller, seller.cursor, Messages({"serviceRequest"}, Requests)) :
     LET m == topic[Seller][i] IN
       /\ publishCommerce(m.from, "serviceResponse", m.request, Seller)
       /\ sellerSide' = [sellerSide EXCEPT ![m.request] =
                           Transition(Transition("IDLE", "SERVICE_REQUEST"), "ACCEPT")]
       /\ seller' = [seller EXCEPT !.phase = "awaitEscrow", !.request = m.request,
                                   !.buyer = m.from, !.cursor = i + 1, !.newcomer = 0]
  /\ UNCHANGED <<deployment, escrow, buyerSide, worker, incoming, nextRequest>>

ObserveEscrow ==
  /\ seller.phase = "awaitEscrow"
  /\ Awaited(Seller, seller.cursor, Messages({"escrowCreated"}, {seller.request})) # {}
  /\ SellerEvent(seller.request, "ESCROW_CREATED")
  /\ SellerGoto("subscribeSetup")
  /\ UNCHANGED <<topic, deployment, escrow, buyerSide, worker, incoming, nextRequest>>

SubscribeSetup ==
  /\ seller.phase = "subscribeSetup"
  /\ seller' = [seller EXCEPT !.phase = "awaitSetup", !.cursor = Subscribe(Seller)]
  /\ UNCHANGED <<topic, deployment, escrow, buyerSide, sellerSide, worker, incoming, nextRequest>>

\* What the loop in awaitSetup reacts to.
Relevant ==
  Messages({"serviceRequest"}, Requests) \cup Messages({"connectionSetup"}, {seller.request})

ReceiveSetup ==
  /\ seller.phase = "awaitSetup"
  /\ \E i \in Awaited(Seller, seller.cursor, Relevant) :
     LET m == topic[Seller][i] IN
       \/ /\ m.type = "connectionSetup"
          /\ SellerGoto("dial")
          /\ UNCHANGED topic
       \/ /\ m.type = "serviceRequest" /\ m.request = seller.request
          /\ publishCommerce(seller.buyer, "serviceResponse", seller.request, Seller)
          /\ seller' = [seller EXCEPT !.cursor = i + 1]
       \/ /\ m.type = "serviceRequest" /\ m.request # seller.request
          /\ seller' = [seller EXCEPT !.phase = "gate", !.newcomer = m.request]
          /\ UNCHANGED topic
  /\ UNCHANGED <<deployment, escrow, buyerSide, sellerSide, worker, incoming, nextRequest>>

\* IdleFundedTimeout.
AbandonIdle ==
  /\ deployment.faults
  /\ seller.phase = "awaitSetup"
  /\ SellerGoto("gate")
  /\ UNCHANGED <<topic, deployment, escrow, buyerSide, sellerSide, worker, incoming, nextRequest>>

\* The buyer's host hands the stream to the worker, or closes it when too many wait.
Dial ==
  LET b == seller.buyer
      stream == [request |-> seller.request, round |-> seller.round]
      full == Len(incoming[b]) >= IncomingCap
  IN /\ seller.phase = "dial"
     /\ incoming' = IF full THEN incoming ELSE [incoming EXCEPT ![b] = Append(@, stream)]
     /\ seller' = [seller EXCEPT !.phase = "streaming", !.cut = full]
     /\ UNCHANGED <<topic, deployment, escrow, buyerSide, sellerSide, worker, nextRequest>>

\* AgreementPeriod elapsed, the feed ended or the seller is shutting down.
CloseStream ==
  /\ seller.phase = "streaming"
  /\ seller' = [seller EXCEPT !.phase = "requestRelease", !.cut = FALSE]
  /\ UNCHANGED <<topic, deployment, escrow, buyerSide, sellerSide, worker, incoming, nextRequest>>

\* Faulty variant: a release is requested without a look at what is available.
requestReleaseAgain ==
  LET r == seller.request IN
  /\ seller.phase = "requestRelease"
  /\ sellerSide' = [sellerSide EXCEPT ![r] =
                      IF @ = "FUNDED" THEN Transition(@, "DELIVERY_STARTED") ELSE @]
  /\ escrow' = [escrow EXCEPT ![r] = IF @ = "funded" THEN "requested" ELSE @]
  /\ SellerGoto("publishInvoice")
  /\ UNCHANGED <<topic, deployment, buyerSide, worker, incoming, nextRequest>>

\* FUNDED -> ACTIVE, then RequestRelease; it fails when nothing is available.
RequestRelease ==
  LET r == seller.request IN
  /\ seller.phase = "requestRelease"
  /\ sellerSide' = [sellerSide EXCEPT ![r] =
                      IF @ = "FUNDED" THEN Transition(@, "DELIVERY_STARTED") ELSE @]
  /\ IF escrow[r] = "funded"
     THEN escrow' = [escrow EXCEPT ![r] = "requested"] /\ SellerGoto("publishInvoice")
     ELSE SellerGoto(AgreementOver) /\ UNCHANGED escrow
  /\ UNCHANGED <<topic, deployment, buyerSide, worker, incoming, nextRequest>>

PublishInvoice ==
  /\ seller.phase = "publishInvoice"
  /\ publishCommerce(seller.buyer, "invoice", seller.request, Seller)
  /\ SellerEvent(seller.request, "INVOICE")
  /\ SellerGoto("subscribeAck")
  /\ UNCHANGED <<deployment, escrow, buyerSide, worker, incoming, nextRequest>>

SubscribeAck ==
  /\ seller.phase = "subscribeAck"
  /\ seller' = [seller EXCEPT !.phase = "awaitAck", !.cursor = Subscribe(Seller)]
  /\ UNCHANGED <<topic, deployment, escrow, buyerSide, sellerSide, worker, incoming, nextRequest>>

\* The buyer only ever approves.
ReceiveAck ==
  /\ seller.phase = "awaitAck"
  /\ Awaited(Seller, seller.cursor, Messages({"invoiceAck"}, {seller.request})) # {}
  /\ SellerEvent(seller.request, "INVOICE_APPROVED")
  /\ SellerGoto(AgreementOver)
  /\ UNCHANGED <<topic, deployment, escrow, buyerSide, worker, incoming, nextRequest>>

\* IssueInvoice returns an error or its 180 s are over: logged, and the agreement is over.
FailInvoice ==
  /\ deployment.faults
  /\ seller.phase \in Invoicing
  /\ SellerGoto(AgreementOver)
  /\ UNCHANGED <<topic, deployment, escrow, buyerSide, sellerSide, worker, incoming, nextRequest>>

\* RunSeller returns an error (two minutes in the gate, a failed dial, a stream the buyer
\* disconnected) or the process crashes; its stream closes.
StopSeller ==
  /\ seller.phase # "stopped"
  /\ deployment.faults \/ (seller.phase = "streaming" /\ seller.cut)
  /\ seller' = [seller EXCEPT !.phase = "stopped", !.cut = FALSE, !.newcomer = 0]
  /\ UNCHANGED <<topic, deployment, escrow, buyerSide, sellerSide, worker, incoming, nextRequest>>

\* A new process of the same seller: it has kept its topics and nothing of its sessions.
RestartSeller ==
  /\ deployment.faults
  /\ seller.phase = "stopped"
  /\ SellerGoto("gate")
  /\ UNCHANGED <<topic, deployment, escrow, buyerSide, sellerSide, worker, incoming, nextRequest>>

-----------------------------------------------------------------------------

\* What a worker does while nothing goes wrong.
WorkerStep(b) ==
  \/ Drain(b) \/ Request(b) \/ SubscribeResponse(b) \/ ReceiveResponse(b)
  \/ CreateEscrow(b) \/ Deposit(b) \/ AnnounceEscrow(b)
  \/ PublishSetup(b) \/ TakeStream(b) \/ EndStream(b)
  \/ SubscribeInvoice(b) \/ ReceiveInvoice(b) \/ ApproveRelease(b) \/ AcknowledgeInvoice(b)

SellerStep ==
  \/ EnterGate \/ AcceptRequest \/ ObserveEscrow
  \/ SubscribeSetup \/ ReceiveSetup \/ Dial \/ CloseStream
  \/ RequestRelease \/ PublishInvoice \/ SubscribeAck \/ ReceiveAck

CommerceNext ==
  \/ \E b \in deployment.buyers : WorkerStep(b) \/ DropSession(b)
  \/ SellerStep \/ AbandonIdle \/ FailInvoice \/ StopSeller \/ RestartSeller

\* Each process goes on with what it can do.
CommerceFairness ==
  /\ \A b \in Buyers : WF_commerceVars(b \in deployment.buyers /\ WorkerStep(b))
  /\ WF_commerceVars(SellerStep)

CommerceSpec == CommerceInit /\ [][CommerceNext]_commerceVars /\ CommerceFairness

-----------------------------------------------------------------------------

\* The seller delivers, and invoices, only what has been paid into escrow: past its gate
\* the escrow of the agreement is funded, whatever the buyer has dropped or repeated.
ServedIsFunded ==
  seller.phase \in Serving => escrow[seller.request] \in {"funded", "requested", "paid"}

\* What the two machines say, and what the escrow says: the seller is told that its invoice
\* was approved only once the price is paid out, and it is paid out only for an invoice the
\* buyer's own machine has received.
ApprovedIsPaid ==
  \A r \in Requests :
    /\ (\E i \in DOMAIN topic[Seller] :
          topic[Seller][i].type = "invoiceAck" /\ topic[Seller][i].request = r)
         => escrow[r] = "paid"
    /\ escrow[r] = "paid" => buyerSide[r] \in {"INVOICED", "ACTIVE"}

\* An agreement is invoiced once, however often the seller serves it again after a restart,
\* a lost acknowledgement or a replayed request.
InvoicedOnce ==
  \A b \in Buyers : \A i, j \in DOMAIN topic[b] :
    /\ topic[b][i].type = "invoice" /\ topic[b][j].type = "invoice"
    /\ topic[b][i].request = topic[b][j].request
    => i = j

\* How far an agreement has come, read off its escrow and the seller's machine.
Trade ==
  [r \in Requests |->
     CASE escrow[r] = "paid"      -> "paid"
       [] escrow[r] = "requested" -> "claimed"
       [] escrow[r] = "funded"    -> "funded"
       [] OTHER -> IF sellerSide[r] = "IDLE" THEN "open" ELSE "accepted"]

Promise == INSTANCE PaidAgreement WITH Agreements <- Requests, trade <- Trade

\* The two processes implement the promised trade: a buyer pays into escrow only what the
\* seller has accepted, the seller claims only what is funded, and the price is paid out
\* once, whatever is dropped, repeated, replayed or restarted on the way.
KeepsPromise == Promise!TradeSpec

\* A funded escrow does not stay so: on a bus that replays, and while nothing fails, every
\* message is seen and the agreement is settled.
FundedIsPaid ==
  \A r \in Requests :
    escrow[r] = "funded" /\ ~deployment.faults ~> escrow[r] = "paid"

\* When the seller abandons an agreement for a new ServiceRequest, "the outer loop accepts
\* the new ServiceRequest as fresh" (seller.go:230-232): the gate's subscription sees it.
NewcomerIsSeen ==
  seller.phase = "awaitRequest" /\ seller.newcomer # 0 =>
    \E i \in seller.cursor..Len(topic[Seller]) :
      topic[Seller][i].type = "serviceRequest" /\ topic[Seller][i].request = seller.newcomer
=============================================================================
