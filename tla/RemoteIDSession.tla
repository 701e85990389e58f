---------------------------- MODULE RemoteIDSession ---------------------------
(***************************************************************************)
(* The sessions of the Remote ID seller and of its buyers                  *)
(* (internal/dapp/remoteid/session.go, negotiation.go, cli_orchestrator.go;*)
(* internal/dapp/adsb has the same).  A session is one straight line of    *)
(* publications and receptions, and ends at the first error.  Every        *)
(* reception subscribes to its topic from the first message on and takes   *)
(* the first payload of its type and request, so it sees what earlier      *)
(* sessions left there.  The seller serves one request per session; its    *)
(* program is started again, or loops.  A buyer's topic is made for its    *)
(* one request.  The buyer never refuses an invoice.                       *)
(***************************************************************************)
EXTENDS Integers, Sequences, FiniteSetsExt

CONSTANTS Buyers,         \* each with one request, of its own name
          Seller,
          Offers,         \* the settings of a trade to try, members of Offer
          MaxSessions     \* bound on the seller's sessions

\* full: the commerce mode; price: what the request offers, 1 by default (both escrows refuse a
\* deposit of 0); authenticates: the escrow is a contract that lets only the buyer approve, else
\* it is kept in memory.
Offer == [full: BOOLEAN, price: Nat \ {0}, authenticates: BOOLEAN, faults: BOOLEAN]

ASSUME SessionAssumption ==
  Offers \subseteq Offer /\ Seller \notin Buyers /\ MaxSessions \in Nat

VARIABLES offer,       \* the setting
          sellerStdIn, \* the seller's topic
          buyerStdIn,  \* buyerStdIn[b]: the topic of buyer b
          seller,      \* the seller's session: its step, its request, its release
          sessions,    \* the seller's sessions so far
          buyer,       \* buyer[b]: the step b is at, and the release of its invoice
          balance,     \* balance[b]: what the escrow of b holds
          releaseLog,  \* the releases requested
          mishap    \* history: whether something failed

sessionVars == <<offer, sellerStdIn, buyerStdIn, seller, sessions, buyer, balance, releaseLog,
                 mishap>>

SellerSteps == {"request", "respond", "escrow", "setup", "stop", "release", "invoice", "ack",
                "approve", "completed", "failed"}
BuyerSteps == {"new", "response", "create", "deposit", "announce", "setup", "stream", "stop",
               "invoice", "approve", "ack", "done", "failed"}
SellerEnds == {"completed", "failed"}
BuyerEnds == {"new", "done", "failed"}

Release == [escrow: Buyers, recipient: Buyers \cup {Seller}, paid: BOOLEAN]

SessionTypeOK ==
  /\ seller.at \in SellerSteps /\ seller.release \in 0..Len(releaseLog)
  /\ \A b \in Buyers : /\ buyer[b].at \in BuyerSteps /\ buyer[b].release \in 0..Len(releaseLog)
                       /\ balance[b] \in 0..offer.price
  /\ \A r \in DOMAIN releaseLog : releaseLog[r] \in Release
  /\ \A b \in Buyers : \A i \in DOMAIN buyerStdIn[b] :
       buyerStdIn[b][i].type = "invoice" => buyerStdIn[b][i].release \in DOMAIN releaseLog
  /\ Len(releaseLog) <= sessions

SessionInit ==
  /\ offer \in Offers
  /\ sellerStdIn = << >> /\ buyerStdIn = [b \in Buyers |-> << >>]
  /\ seller = [at |-> "request", id |-> Seller, release |-> 0]
  /\ sessions = 1
  /\ buyer = [b \in Buyers |-> [at |-> "new", release |-> 0]]
  /\ balance = [b \in Buyers |-> 0]
  /\ releaseLog = << >>
  /\ mishap = FALSE

-----------------------------------------------------------------------------
(* Topics *)

Payload(type, id, release) == [type |-> type, id |-> id, release |-> release]

\* Faulty variant: a subscription that starts with the next message.
matchesLive(log, type, ids) == {}

\* ReceiveTypedPayload: where in the topic, from its first message on, the payloads are that
\* it would take; it takes the first of them.
matches(log, type, ids) == {i \in DOMAIN log : log[i].type = type /\ log[i].id \in ids}

ToSeller(p) == sellerStdIn' = Append(sellerStdIn, p) /\ UNCHANGED buyerStdIn
ToBuyer(b, p) == buyerStdIn' = [buyerStdIn EXCEPT ![b] = Append(@, p)] /\ UNCHANGED sellerStdIn
Silent == UNCHANGED <<sellerStdIn, buyerStdIn>>

SellerGoes(step) ==
  /\ seller' = [seller EXCEPT !.at = step]
  /\ UNCHANGED <<offer, sessions, buyer, balance, releaseLog, mishap>>

BuyerGoes(b, step) ==
  /\ buyer' = [buyer EXCEPT ![b].at = step]
  /\ UNCHANGED <<offer, seller, sessions, releaseLog, mishap>>

-----------------------------------------------------------------------------
(* The escrow *)

Pending(b) == {r \in DOMAIN releaseLog : releaseLog[r].escrow = b /\ ~releaseLog[r].paid}

Available(b) == balance[b] - offer.price * Cardinality(Pending(b))

\* Approving a release of escrow b that is paid, or is another escrow's, is an error.
PayRelease(b, r) ==
  /\ r \in Pending(b)
  /\ releaseLog' = [releaseLog EXCEPT ![r].paid = TRUE]
  /\ balance' = [balance EXCEPT ![b] = @ - offer.price]

-----------------------------------------------------------------------------
(* RunSellerSession *)

\* Any request will do: the first one there ever was on the topic.
ReceiveServiceRequest ==
  /\ seller.at = "request"
  /\ LET found == matches(sellerStdIn, "serviceRequest", Buyers) IN
     /\ found # {}
     /\ seller' = [at |-> "respond", id |-> sellerStdIn[Min(found)].id, release |-> 0]
  /\ Silent /\ UNCHANGED <<offer, sessions, buyer, balance, releaseLog, mishap>>

PublishServiceResponse ==
  /\ seller.at = "respond"
  /\ ToBuyer(seller.id, Payload("serviceResponse", seller.id, 0))
  /\ SellerGoes(IF offer.full THEN "escrow" ELSE "setup")

\* That the escrow exists and holds the price is not looked up.
ReceiveEscrowCreated ==
  /\ seller.at = "escrow"
  /\ matches(sellerStdIn, "escrowCreated", {seller.id}) # {}
  /\ Silent /\ SellerGoes("setup")

PublishConnectionSetup ==
  /\ seller.at = "setup"
  /\ ToBuyer(seller.id, Payload("connectionSetup", seller.id, 0))
  /\ SellerGoes(IF offer.full THEN "stop" ELSE "completed")

ReceiveServiceStop ==
  /\ seller.at = "stop"
  /\ matches(sellerStdIn, "serviceStop", {seller.id}) # {}
  /\ Silent /\ SellerGoes("release")

\* The price is asked for, to be paid to the sender of the request.  The escrow refuses what
\* is more than it has and has not promised.
AskRelease ==
  /\ seller.at = "release"
  /\ IF offer.price <= Available(seller.id)
     THEN /\ releaseLog' = Append(releaseLog, [escrow |-> seller.id, recipient |-> seller.id,
                                              paid |-> FALSE])
          /\ seller' = [seller EXCEPT !.at = "invoice", !.release = Len(releaseLog) + 1]
     ELSE /\ seller' = [seller EXCEPT !.at = "failed"]
          /\ UNCHANGED releaseLog
  /\ Silent /\ UNCHANGED <<offer, sessions, buyer, balance, mishap>>

PublishInvoice ==
  /\ seller.at = "invoice"
  /\ ToBuyer(seller.id, Payload("invoice", seller.id, seller.release))
  /\ SellerGoes("ack")

\* Faulty variant: the acknowledgement is not waited for.
assumeInvoiceAck ==
  /\ seller.at = "ack"
  /\ Silent /\ SellerGoes("approve")

ReceiveInvoiceAck ==
  /\ seller.at = "ack"
  /\ matches(sellerStdIn, "invoiceAck", {seller.id}) # {}
  /\ Silent /\ SellerGoes("approve")

\* The seller approves as well, and takes an error for "the buyer has".
ApproveToo ==
  /\ seller.at = "approve"
  /\ seller' = [seller EXCEPT !.at = "completed"]
  /\ \/ ~offer.authenticates /\ PayRelease(seller.id, seller.release)
     \/ /\ offer.authenticates \/ seller.release \notin Pending(seller.id)
        /\ UNCHANGED <<balance, releaseLog>>
  /\ Silent /\ UNCHANGED <<offer, sessions, buyer, mishap>>

SellerSessionStep ==
  \/ ReceiveServiceRequest \/ PublishServiceResponse \/ ReceiveEscrowCreated
  \/ PublishConnectionSetup \/ ReceiveServiceStop \/ AskRelease \/ PublishInvoice
  \/ ReceiveInvoiceAck \/ ApproveToo

\* A publication fails, the context ends, or the process is killed.
SellerFails ==
  /\ offer.faults
  /\ seller.at \notin SellerEnds
  /\ seller' = [seller EXCEPT !.at = "failed"]
  /\ mishap' = TRUE
  /\ Silent /\ UNCHANGED <<offer, sessions, buyer, balance, releaseLog>>

NextSession ==
  /\ seller.at \in SellerEnds
  /\ sessions < MaxSessions
  /\ sessions' = sessions + 1
  /\ seller' = [at |-> "request", id |-> Seller, release |-> 0]
  /\ Silent /\ UNCHANGED <<offer, buyer, balance, releaseLog, mishap>>

-----------------------------------------------------------------------------
(* RunBuyerSession, the stream, FinaliseBuyerSession *)

PublishServiceRequest(b) ==
  /\ buyer[b].at = "new"
  /\ ToSeller(Payload("serviceRequest", b, 0))
  /\ BuyerGoes(b, "response") /\ UNCHANGED balance

Receives(b, step, type) ==
  /\ buyer[b].at = step
  /\ matches(buyerStdIn[b], type, {b}) # {}
  /\ Silent /\ UNCHANGED balance

ReceiveServiceResponse(b) ==
  Receives(b, "response", "serviceResponse")
    /\ BuyerGoes(b, IF offer.full THEN "create" ELSE "setup")

OpenEscrow(b) ==
  /\ buyer[b].at = "create"
  /\ Silent /\ BuyerGoes(b, "deposit") /\ UNCHANGED balance

Fund(b) ==
  /\ buyer[b].at = "deposit"
  /\ balance' = [balance EXCEPT ![b] = @ + offer.price]
  /\ Silent /\ BuyerGoes(b, "announce")

PublishEscrowCreated(b) ==
  /\ buyer[b].at = "announce"
  /\ ToSeller(Payload("escrowCreated", b, 0))
  /\ BuyerGoes(b, "setup") /\ UNCHANGED balance

ReceiveConnectionSetup(b) ==
  Receives(b, "setup", "connectionSetup") /\ BuyerGoes(b, "stream")

\* The frames end at their limit, with the context, or when the seller closes.
EndFrames(b) ==
  /\ buyer[b].at = "stream"
  /\ Silent /\ BuyerGoes(b, IF offer.full THEN "stop" ELSE "done") /\ UNCHANGED balance

PublishServiceStop(b) ==
  /\ buyer[b].at = "stop"
  /\ ToSeller(Payload("serviceStop", b, 0))
  /\ BuyerGoes(b, "invoice") /\ UNCHANGED balance

ReceiveInvoice(b) ==
  /\ Receives(b, "invoice", "invoice")
  /\ LET first == Min(matches(buyerStdIn[b], "invoice", {b})) IN
     buyer' = [buyer EXCEPT ![b] = [at |-> "approve", release |-> buyerStdIn[b][first].release]]
  /\ UNCHANGED <<offer, seller, sessions, releaseLog, mishap>>

ApproveInvoice(b) ==
  /\ buyer[b].at = "approve"
  /\ IF buyer[b].release \in Pending(b)
     THEN PayRelease(b, buyer[b].release) /\ buyer' = [buyer EXCEPT ![b].at = "ack"]
     ELSE buyer' = [buyer EXCEPT ![b].at = "failed"] /\ UNCHANGED <<balance, releaseLog>>
  /\ Silent /\ UNCHANGED <<offer, seller, sessions, mishap>>

PublishInvoiceAck(b) ==
  /\ buyer[b].at = "ack"
  /\ ToSeller(Payload("invoiceAck", b, 0))
  /\ BuyerGoes(b, "done") /\ UNCHANGED balance

BuyerSessionStep(b) ==
  \/ ReceiveServiceResponse(b) \/ OpenEscrow(b) \/ Fund(b) \/ PublishEscrowCreated(b)
  \/ ReceiveConnectionSetup(b) \/ EndFrames(b) \/ PublishServiceStop(b) \/ ReceiveInvoice(b)
  \/ ApproveInvoice(b) \/ PublishInvoiceAck(b)

\* A publication or a dial fails, the context ends, or the process is killed.
BuyerFails(b) ==
  /\ offer.faults
  /\ buyer[b].at \notin BuyerEnds
  /\ buyer' = [buyer EXCEPT ![b].at = "failed"]
  /\ mishap' = TRUE
  /\ Silent /\ UNCHANGED <<offer, seller, sessions, balance, releaseLog>>

SessionNext ==
  \/ SellerSessionStep \/ SellerFails \/ NextSession
  \/ \E b \in Buyers : PublishServiceRequest(b) \/ BuyerSessionStep(b) \/ BuyerFails(b)

\* Both programs run on; whether a buyer or another session of the seller starts is up to
\* their owners.
SessionFairness ==
  WF_sessionVars(SellerSessionStep) /\ \A b \in Buyers : WF_sessionVars(BuyerSessionStep(b))

SessionSpec == SessionInit /\ [][SessionNext]_sessionVars /\ SessionFairness

-----------------------------------------------------------------------------

Sent(b, type) == matches(buyerStdIn[b], type, {b}) # {}

\* The way to the stream is shown only to a buyer whose escrow was funded, although the
\* seller trusts the announcement: what was deposited is there, or was released again.
SetupIsFunded ==
  \A b \in Buyers :
    offer.full /\ Sent(b, "connectionSetup") =>
      balance[b] = offer.price \/ \E r \in DOMAIN releaseLog : releaseLog[r].escrow = b

\* A session that reports COMPLETED was paid for, in whatever session of the seller, started
\* over an old request, it ends: the price has left the escrow of that request.
CompletedIsPaid ==
  offer.full /\ seller.at = "completed" =>
    \E r \in DOMAIN releaseLog : releaseLog[r].escrow = seller.id /\ releaseLog[r].paid

\* A buyer that reports its session as approved has released the price of its own escrow,
\* once, whatever other sessions left on its topic.
ApprovedPaysOwnEscrow ==
  \A b \in Buyers :
    offer.full /\ buyer[b].at = "done" =>
      /\ buyer[b].release \in DOMAIN releaseLog
      /\ releaseLog[buyer[b].release].escrow = b
      /\ releaseLog[buyer[b].release].paid
      /\ balance[b] = 0

\* Whatever either side goes by or reports is backed by the escrow it belongs to.
ReportedIsPaid == SetupIsFunded /\ CompletedIsPaid /\ ApprovedPaysOwnEscrow

\* When nothing fails, the buyer whose request reaches the seller first is served and, in the
\* full mode, has paid: no reception waits for a message published before it subscribed.
FirstIsSettled ==
  sellerStdIn # << >> ~>
    mishap \/ \E b \in Buyers : /\ buyer[b].at = "done"
                                   /\ \A i \in DOMAIN sellerStdIn : i = 1 => sellerStdIn[i].id = b

\* "The recipient in requestRelease SHOULD default to the seller's paymentAddress"
\* (specs/008-payment/spec.md:296, FR-P28).
SellerIsPaid ==
  \A r \in DOMAIN releaseLog : releaseLog[r].paid => releaseLog[r].recipient = Seller
=============================================================================
