# A TLA+ model of the Neuron commerce and health stack

This directory holds TLA+ modules, TLC configurations and TLAPS proofs about the
program in `src/`: the on-chain escrow of the payment protocol
(`src/contracts`), the Go SDK and the edge applications that use it
(`src/impl/golang/internal`). `PROJECT.json` indexes it: the components, the runs,
which lines each definition translates (`map`), the hazards of the code and the
properties that watch them.

Contents: 1 the system, 2 the modules, 3 the runs, 4 where code and documents
disagree, 5 bounds, 6 fairness, 7 proofs, 8 what is not modelled, 9 the plan.

Paths below are relative to `src/`; `internal/` stands for `impl/golang/internal/`.

## 1. The system

Sellers of data streams and their buyers meet on *topics* (an ordered log with
subscribers: Hedera Consensus Service, or `MemoryBus` in tests and demos). A buyer
asks for a service, the seller accepts, the buyer pays the price into an *escrow*
contract, the seller dials a p2p stream and sends data, closes it, asks the escrow
for a release and sends an invoice; the buyer approves the release and acknowledges.
Independently, every seller publishes *heartbeats* that carry the deadline of the
next one, and a buyer with an open stream watches them.

| Component | State it keeps | Operations | Talks to |
|---|---|---|---|
| `NeuronEscrow.sol` | per escrow: parties, token, timeout, balance, `pendingReleaseTotal`, state; per release: amount, recipient, state | `createEscrow`, `deposit`, `requestRelease`, `approveRelease`, `withdraw`, `claimRefund` | an ERC-20 |
| EVM adapter (`internal/payment/escrow_evm.go`) | a key, the goroutine's place in its script | `CreateEscrow`, `Deposit`, `RequestRelease`, `ApproveRelease`, `ClaimRefund`, each one or two transactions | contract, token, node |
| Agreement machine (`internal/payment/agreement.go`) | the state of one agreement | `Transition(event)` | buyer and seller run one each |
| Edge commerce (`internal/edgeapp/{buyer,seller,commerce}.go`) | a worker's session, streams waiting for it; the seller's current agreement | request, accept, create and fund escrow, connection setup, dial, stream, invoice, acknowledge, abandon | topics, escrow, p2p |
| Health library (`internal/health`) | publisher: time of the last publish; observer: last sequence, deadline, timestamp of a peer | publish, accept, evaluate | topics |
| Heartbeat loop, liveness watch (`internal/edgeapp/{heartbeat,liveness}.go`) | ticker; tracker's `lastEmitted` | tick, sentinel on shutdown; deliver, poll, emit | stdOut topic, the stream |
| `MemoryBus` (`internal/edgeapp/bus.go`), `MemoryTopicAdapter` (`internal/topic/memory_adapter.go`) | per topic: the log, the sequence counter, the list of channels | `Publish`, `Subscribe`, cancel | everyone |
| HCS subscription (`internal/topic/{hcs_real_client,adapter_hcs,dedup}.go`) | poller: last sequence, incomplete groups of chunks; adapter: the message in hand; tracker: what was seen | poll a page, assemble, forward, drop duplicates, cancel | mirror node, consumer |
| Memory escrow (`internal/payment/mock_escrow.go`) | per escrow: sums deposited and released, map of pending releases, state; a clock | as the contract | sessions of the sensor applications, tests |
| Service store (`internal/payment/persistence`) | a JSON file | `Save`, `Load`, `Replay`, `Evict`, `Delete` | the file system |
| Identity registry (`NeuronIdentityRegistry.sol`, `internal/registry`, `internal/edgeapp/registration.go`) | tokens, approvals, reverse mapping, agentURIs; a program's place in registering | `register`, `setAgentURI`, `revoke`, transfers, approvals; `RegisterOrUpdate`, `EnsureRegistered` | a node, other programs with the key |
| P2P delivery (`internal/delivery`) | per channel: connection state, stream; the protected peers | `Connect`, `HandleIncoming`, `Disconnect`, `StartReconnection` and its loop | libp2p host |
| Edge validator (`internal/edgeapp/validator.go`) | per request id: the messages seen; what was emitted | take a message, emit evidence | both parties' topics |
| Remote ID sessions (`internal/dapp/remoteid`) | how far a session has come | request, response, escrow, setup, stop, release, invoice, acknowledgement | topics that replay, an escrow |
| SAPIENT tasking (`internal/dapp/sapient/{tasking,auditlane}`, `cmd/sapient-{task,rid-seller}`) | a file of lines that all append to; per session a gate | issue a task, obey it, acknowledge, forward a frame | consumers of the sensor |

What is hard in it, and the properties that make it right:

- *Escrow.* Legal calls in any order: refunds with releases outstanding, deposits
  after refunds, several escrows over one pot of tokens. Reservations are covered
  by balances, the contract is solvent, a refund after the timeout and the withdrawal of an
  approved release cannot be blocked, and money leaves only in those two ways.
- *EVM adapter.* Between estimating, sending and mining a transaction others are
  mined; receipts' statuses are never read; an operation may be left between its
  two transactions. What it reports must have happened, ids must be its own.
- *Edge commerce.* Two processes with nothing shared but messages; each of them
  times out, fails, restarts; subscriptions are set up after publications; on one bus history
  is replayed, on the other it is not. Only funded agreements are
  served, each is invoiced once, and the price is paid out once, for what was claimed.
- *Health.* Deadlines measured from three moments (sender's clock, consensus,
  delivery), late tickers, replayed history, runs of a seller that follow one
  another. No running seller is suspected, and a silent one is reported in time.
- *Transports.* Work done after the lock is given up: fan-out, replay and closing are
  interleaved with subscription and cancellation; some sends wait and some drop. Long
  messages come in chunks between those of others, in pages, and publications are repeated.
  Each subscription gets each message once, whole, and the history first; nobody is left
  hanging.
- *Stores and registries.* A file is replaced in five steps, each of which may fail or be
  the last before a crash. A reverse mapping is kept by hand beside the tokens.
  Programs that register read the chain several times before they write to it. A file is
  the old one or the new one, the mapping is exact, a success reported is a fact.
- *Delivery.* Two goroutines and a reconnection loop act on one channel with a lock around
  the map only. No channel is left connected to a closed stream, no peer protected for ever.
- *Validator, sessions, tasking.* Messages of several topics in any order and seen again,
  restarts that read everything from the start, requests of several buyers on one topic, torn
  lines. Evidence is true and given once, completed sessions are paid, a gate is what the last
  control said.

The remaining components (feeds, keys, browser profile, TypeScript SDK) are
listed in `PROJECT.json` with the reason they are not modelled.

## 2. The modules

```
TestToken <- NeuronEscrow <- EVMEscrowAdapter <- MCEVMEscrowAdapter
                  ^     ^--- MCNeuronEscrow <- MCLedgers
                  '--------- NeuronEscrowProofs <- EVMEscrowAdapterProofs (TLAPS)
MemoryEscrow, ServiceStore <- MCLedgers       EscrowPromise: INSTANCEd by MemoryEscrow
IdentityRegistry <- RegistryClient <- MCLedgers
Agreement <- EdgeCommerce <- MCEdgeCommerce   PaidAgreement: INSTANCEd by EdgeCommerce
                  ^--- EdgeCommerceProofs (TLAPS)
Health <- Heartbeat <- MCHeartbeat, HeartbeatProofs (TLAPS)
MemoryBus <- MCMemoryBus
MemoryBus, MemoryTopicAdapter, MirrorSubscription <- MCTopics
RemoteIDSession <- MCRemoteIDSession <- MCServices
P2PDelivery, EdgeValidator, SapientTasking <- MCServices
SumTheorems <- NeuronEscrowProofs (TLAPS)
MCLedgers, NeuronEscrowProofs <- LedgersProofs (TLAPS)
MCTopics <- TopicsProofs (TLAPS)
MCServices <- ServicesProofs (TLAPS)
```

**TestToken** is the ERC-20 of the repository's tests and demos, with
OpenZeppelin's transfer rules (external code, modelled from how the contract
uses it): balances, allowances, supply; a transfer that would overdraw is disabled.

**NeuronEscrow** has one action per external function. The EVM and
`nonReentrant` make a call atomic, so an action is the whole function; a call
that reverts changes nothing, so its action is disabled: every `require` is a
guard, including the subtractions Solidity 0.8 checks. `Tick` lets block timestamps
grow. `epoch` is a history variable (which releases predate the last refund).
Left out: `threshold`, `agreementHash`, `evidenceHash`, stored and never read.

**EVMEscrowAdapter** runs the contract's actions from a mempool. A caller is a
goroutine of a process; callers with one account share its key. An operation is a
script of one or two transactions: `Send` needs the estimation to succeed on the
latest block (`Accepted`: the guards of the contract's function), `Mine` executes the head of an
account's queue or marks it reverted, `Continue` and `Return` are what the adapter does
with a receipt *whatever its status*. `GiveUp` is a lost node or a cancelled
context: the transaction stays in the mempool and nobody waits for it. `Serialized` is
the mutex which `cmd/multistream-buyer` puts around the adapter and
`edgeapp` does not: it names the accounts whose callers take turns.

**Agreement** is the transition table and `Transition`.

**PaidAgreement** is the abstract specification of an agreement: open, accepted,
funded, claimed, paid, in that order, each at most once.

**EdgeCommerce** has the program counters of `runSellerWorker` (a buyer's worker,
one per seller) and of `RunSeller`/`runOneAgreement`. A topic is a sequence, a
subscription a cursor; `Awaited` is what all waiting loops do: skip what is not wanted,
take the first message that is. `Subscribe` is where the two buses differ: `MemoryBus`
replays from the first message, HCS starts after the last (`FromSequence` is nil everywhere
in `edgeapp`). An escrow here is five states, because edgeapp deposits the price
once and releases all of it at once; NeuronEscrow has the arithmetic.
`DropSession` is every error return of the worker, each of which lets the session
go and starts the loop over; a restart of the buyer's process does the same, since
sessions are kept nowhere. `AbandonIdle`, `FailInvoice`, `StopSeller` and
`RestartSeller` are the seller's. A stream is named by its agreement and the seller's
round; `incoming` is the channel of capacity 4 between a buyer's host and its worker.
`KeepsPromise` is `PaidAgreement!TradeSpec` under the mapping `Trade`, read off the
escrow and the seller's machine.

**Health** is arithmetic: the checks of a heartbeat by the publisher and by
the observer, the transition of an observer's record, the evaluation of it.

**Heartbeat** composes a seller's heartbeat loop, its topic and a buyer's watch.
`Emit` is `HeartbeatPublisher.Publish` with its rate limiter; `Consensus` orders and stamps
submitted messages in any order; `DeliverReplay` and `DeliverLive` are the two
sources that reach the tracker through one channel (the first without a
consensus timestamp, as `bus.go` replays); `Poll` is `tickEvaluate`. Time is one clock of
whole seconds. `Tick` does not pass a moment at which a step is due, so
how late the ticker's loop, consensus and delivery may be are constants, as in the
timing argument the code relies on. The period and the bus are one record,
`setting`, chosen at the start from `Settings`.

**MemoryBus** splits `Publish` and `Subscribe` where the code gives up the lock:
`Publish` then `FanOut` once per subscriber of the copied list; `Subscribe` then
`Replay`, `Close` of its goroutine. A send on a closed channel sets `panicked`.

**MemoryTopicAdapter** splits its operations in the same way, with other choices: `Publish`
waits for a full channel instead of dropping (`SendDelivery`), `Subscribe` puts the history into
a channel large enough for it while it holds the lock, and the goroutine of a subscription only
waits for its context, leaves the list and closes the channel (`Detach`, `CloseChannel`).

**MirrorSubscription** is the poller of a mirror node (`FetchPage`, one `Ingest` per chunk of the page,
`SendOut` of what was completed, `EndPage` with the forgetting of old groups) and the adapter's
goroutine (`TakeFromOut` with validation and duplicates, `HandOver`). Chunks get on the topic in any
order, those of one publication too (`SubmitChunk`), and a message carries the sequence number of its
chunk with the highest number, as `ingest` has it, not of the one that completed it. `feed`, chosen at
the start, says what is on the topic and whether there is a tracker. Publications are transactions; two
of them may carry the same message, which is how a retry after a lost receipt looks.

**EscrowPromise** is the abstract escrow: what was put in, what the seller may claim, what left and
to whom. **MemoryEscrow** is the escrow the sensor applications run without a chain, one
action per method (each holds the lock), and `KeepsThePromise` is `EscrowPromise!PromiseSpec`
under a mapping of its sums and maps.

**ServiceStore** has two goroutines of one process over a file. An operation takes the lock and reads
the list (`Rewrite`), then creates, writes, synchronises, closes and renames a temporary file; a `Fail`
of any step removes it. `Kill` ends the process and leaves the files to the kernel, which
writes them back (`Flush`) when it likes; `PowerLoss` keeps of a file that was not synchronised what it
likes, nothing or part of it included, and of a rename that was not written back either side.

**IdentityRegistry** has one action per function of the contract and of the ERC-721 base, which is
external. A key's `register` is one step. A contract's is two, `safeMint` and `finishRegister`, with the
call of its `onERC721Received` in between: `_safeMint` makes that call before the mapping and the
agentURI are written. In it contracts may transfer and approve, which is not `nonReentrant`, and may not
register, revoke or set a URI, which is. `strayed` is a history variable: the contracts that, when
`register` wrote the mapping, did not own the new token or owned another one too. **RegistryClient**
puts on top of it how programs get into it: `RegisterOrUpdate` of the SDK and `EnsureRegistered` of the
edge programs, reading by reading and transaction by transaction, with calls that fail, waits that end,
keys used by two programs and owners that act on their own. `disturbed` is a history variable: whether
somebody else touched the registration while a call ran.

**P2PDelivery** has one action per step of `Connect`, `Disconnect`, `StartReconnection` and
`reconnectionLoop` that others can see: the map is locked, and what lies between two uses of it is not.
Neither is the state of a connection: `ConnectionStateMachine` has no lock (`connection.go:77-80`,
`99-121`). So `Transition` is a look-up (`LookUps`, in `SetDisconnected`, `SetReconnecting`, `LoopEnds`)
and an assignment (`AssignState`, `AssignLast`) with steps of others in between. A Go string is two
words; one that is read or assigned while another is being assigned may be the pointer of the one and
the length of the other, so where two assignments of states of different length are under way the
look-up may find nothing and the state may be left `Torn`. Any number of readers may be on one channel.
`contested` and `givenUp` are history variables: where that happened, and where a loop gave up. Delays
and dials take time, which only the loop's budget counts.

**EdgeValidator** takes the messages of two topics in any order that keeps each topic's own,
may get a topic again from the start, and emits the envelopes of a snapshot that is complete and whose
key is new. `reused` says whether buyers use a request id for two agreements, as older ones do.

**SapientTasking** is the audit lane (`AppendLine`, a write cut short in `AppendFails`, `drain`), the
`sapient-task` program (`Issue`, `ReceiveTaskAck`, `TimeOut`), and the seller: `Consume` takes a
line and goes through `setGate`, `setActiveTask` and `PublishTaskAck`, beside `Forward` and
`SendFrame`, which copy the open sessions and then send.

**RemoteIDSession** runs the session of a Remote ID seller, one after another, and of its buyers, over
topics that every reception reads from the first message (`matches`), with the memory escrow. `offer`,
chosen at the start, says whether the full commerce is on, the price and whether things fail.

Operators commented as *faulty variant* or *mutation* stand before the
definition they vary. They are used by no specification: each shows, put in the
place of that definition, that a property fails when the code has that mistake.

## 3. The runs

| Run | What it checks | Distinct states |
|---|---|---|
| `ledgers` | `MCLedgers`: the contract (`PendingCovered`, `Solvent`, `FundsNeverStuck`, `OnlyReleaseOrRefundPays`), the memory escrow (`KeepsThePromise`), the registry and two programs (`ReverseMappingExact`, `URIFollowsToken`, `SuccessIsOnChain`), the store (`StoreKeeps`), the types of all (`LedgersTypeOK`) | 951,802 |
| `evm` | `MCEVMEscrowAdapter`: goroutines of buyers and a seller on one chain: `OkIsTrue`, `IdsAreOwn`, `OperationsReturn` | 290,525 |
| `commerce` | `MCEdgeCommerce`: two buyers and a seller with faults on either bus, and one buyer without faults on a bus that replays: `ServedIsFunded`, `ApprovedIsPaid`, `InvoicedOnce`, `KeepsPromise`, `FundedIsPaid` | 476,103 |
| `heartbeat` | `MCHeartbeat`: a late topic and an immediate, replaying bus: `NoFalseSuspicion`, `HeartbeatsAreTaken`, `WatchReports`, `NewestCounts` | 3,497,211 |
| `topics` | `MCTopics`: the bus of edgeapp, the memory adapter, an HCS subscription: `DeliveredExactlyOnce`, `HistoryThenEveryLive`, `WholeInOrderOnce`, `TimelyIsCompleted`, `CancelledIsClosed`, `PublishReturns`, `CompletedIsDelivered`, `TopicsTypeOK` | 389,851 |
| `services` | `MCServices`: p2p delivery (`ConnectedHasStream`, `ProtectionReleased`, `ReconnectionEnds`), the validator (`EvidenceIsSound`), tasking (`GateIsLastControl`, `AcknowledgedIsObeyed`, `LaneIsConsumed`), Remote ID (`ReportedIsPaid`, `FirstIsSettled`), the types of all (`ServicesTypeOK`) | 502,260 |

`MCLedgers`, `MCTopics` and `MCServices` each put several components into one run that do
not interact: a variable chosen at the start says which of them the behaviour is of, and the
others stay in their initial states, where none of their fair actions is enabled. The state
spaces add up, they do not multiply, and every property is checked over the behaviours of the
component it is about. Components that do interact are composed properly: the contract and its
token, the adapter over the contract, the heartbeat loop with its topic and watch, the
commerce of two processes, the registry with the programs that call it, the Remote ID session
with the memory escrow.

Some properties are conjunctions of named parts that ask one question together:
`FundsNeverStuck` (`RefundNeverStuck`: no `require` refuses a refund after the timeout;
`ApprovedWithdrawable`: nor the withdrawal of an approved release while its escrow is open);
`StoreKeeps` (a file is whole, is one that was saved, no temporary file is left by a failure,
replay returns exactly what is active); `DeliveredExactlyOnce` (a subscription of the bus gets
every message once); `HistoryThenEveryLive` and `WholeInOrderOnce` (the same questions for
the memory adapter and for HCS); `WatchReports` (`SilenceIsReported`, `EventsTellTheState`);
`EvidenceIsSound` (evidence is given once, is true, and is complete once both topics are read);
`AcknowledgedIsObeyed` (a task acknowledged as done has set the gate, and a stop lets nothing
through); `ReportedIsPaid` (a session that was set up was funded, one reported as
complete is paid, and an approval pays the escrow of its own request).

Five results deserve a word:

- `RefundNeverStuck` says that `claimRefund` succeeds: no `require` and
  no checked subtraction can keep a buyer from its money after the timeout.
- `OkIsTrue` in `evm` holds although no receipt's status is read. It holds because
  the gas estimation refuses a transaction that would revert, and because callers of one
  account either take turns (`multistream-buyer`) or are the only one, so that nothing happens
  between estimation and mining that could change the outcome. Two goroutines without the
  mutex break it (section 4). Of a refund it can only say that the escrow has paid out
  (`PaidOut`), not that this call refunded it: a withdrawal that its caller had given up on may be mined
  just before and empty the escrow; the refund then reverts and is reported all the same, and a later
  deposit may fill the escrow again.
- `KeepsPromise` is about the order across two processes: the price of an
  agreement is put into escrow only when the seller has accepted it, claimed
  only when funded, paid only when claimed, whatever was dropped or replayed.
- On a replaying bus the gate of the seller always takes the oldest request of its
  topic again. It is therefore the first agreement that gets
  funded, and `FundedIsPaid` is about every agreement that is. `FirstIsSettled` says
  the same of a Remote ID seller.
- `SuccessIsOnChain` says of a program that reports a registration that the chain has it, *unless*
  somebody else acted on that registration while the call ran. The exception is needed: the reads of
  `RegisterOrUpdate` are not one transaction.

## 4. Where code and documents disagree

Each of these runs checks one statement a comment or a spec makes, and TLC shows
a behaviour of the code that contradicts it.

| Run | Statement | What the code does |
|---|---|---|
| `escrow_cancel` | A refund cancels pending releases (`specs/008-payment/spec.md:136`) | `claimRefund` zeroes the total and keeps the records; after a new deposit such a release can still be approved and withdrawn |
| `evm_shared` | Deposit adds funds (`escrow_evm.go:108`) | two workers of a buyer overwrite each other's allowance; the deposit that reverts is reported as made |
| `commerce_newcomer` | the outer loop accepts the new request (`seller.go:230-232`) | on HCS the new subscription starts after that request |
| `heartbeat_recovery` | every crossing from ALIVE emits (`liveness.go:34-36`) | a return from OFFLINE is not emitted, and the next OFFLINE equals `lastEmitted` |
| `bus_closed` | safe for concurrent use (`bus.go:18`) | a publisher sends to a channel that was closed after it copied the list: panic |
| `remoteid_recipient` | the recipient of a release defaults to the seller's payment address (`specs/008-payment/spec.md:296`) | the Remote ID seller names the sender of the request, which is the buyer (`dapp/remoteid/session.go:219`) |

The same recipient is named in `dapp/adsb/session.go:169-170`, whereas
`dapp/sapient/commerce_test.go:287` asserts the seller. The panic of `bus_closed` is possible in
`MemoryTopicAdapter` too.

Other places where the models, or reading for them, show behaviour that a comment does not lead
one to expect. No run is kept for them.

Payment:

- `ApproveRelease` left between its two transactions cannot be retried: the retry
  starts with `approveRelease`, which the contract refuses (`escrow_evm.go:241`).
- The memory escrow voids approved releases at a refund and authenticates nobody; the contract does
  not void them.
- `store.go:26` speaks of entries by `(requestId, role)`; the store finds them by request id. The
  rename of a saved file is not followed by a synchronisation of its directory, so a power loss may
  bring back the file before (`store.go:66-67`). No program uses the package yet.

Edge commerce:

- A session dropped after the deposit takes the escrow's reference with it, and nothing
  in `edgeapp` claims the refund that `buyer.go:421-422` speaks of.
- The seller compares request ids and not senders: another buyer's request makes it drop a
  funded agreement (`seller.go:305-306`).
- A stream dialled for the previous agreement after the worker has drained its channel
  is taken for the new one (`buyer.go:294-296`).
- A buyer that uses a request id for a second agreement gets evidence which mixes the two
  (`validator.go:105-115` against `242-265`).

Health and topics:

- With a period of `MinDeadlineDelta`, which the configuration accepts, any consensus
  delay makes the observer drop every heartbeat (`heartbeat.go:58`).
- A watch that never took a heartbeat stays UNKNOWN and reports nothing (`liveness.go:193`).
- `MemoryBus` replays without consensus timestamps (`bus.go:104`): old heartbeats are rejected, an
  old sentinel is accepted, and a running seller counts as offline until its next heartbeat.
- A live message may reach a new subscription before its history (`bus.go:109-125`).
- A message from HCS carries the sequence number and the timestamp of its chunk with the highest number
  (`hcs_real_client.go:322-331`), which the comment there takes for the one that made it complete; when chunks
  come out of order, which `chunk_assembler_test.go:88-102` calls common, another chunk completes it,
  and the numbers that the consumer sees need not increase. `WholeInOrderOnce` is about the order of
  completion.
- The forwarding goroutine of an HCS subscription may be left waiting on a channel nobody reads
  (`adapter_hcs.go:123-124` against `166`).
- `remoteid/session.go:478-480` says that `MemoryTopicAdapter` does not send the history; it does.

Registry:

- `register` calls a contract back while its mapping is not written
  (`NeuronIdentityRegistry.sol:94-96`). One that transfers the new token in `onERC721Received` is then
  recorded as the owner of a token it does not own, and cannot register again; one that takes another
  token by a transfer there owns two and is found under one of them. `ReverseMappingExact` exempts these
  (`strayed`) and nobody else: no key and no contract that leaves its tokens alone in the callback.
- `contract_evm.go:94` ignores the status of a receipt, so `RegisterOrUpdate` reports "Updated"
  (`register_or_update.go:18`) for a transaction that reverted; `SuccessIsOnChain` holds of it
  only because the estimation came before and nobody disturbed it.
- `memory_contract.go` says that it mirrors the contract; it lets an account register twice.

Delivery and applications:

- `Disconnect` takes away the protection of a peer that another stream still uses
  (`libp2p_host.go:84-86`, `libp2p_adapter.go:213`); during a reconnection it leaves the stream that is
  being dialled open, for a channel nobody knows any more. No program calls `StartReconnection`.
- Two reconnections of one channel: the one closes the stream that the other has wired, and if it then
  gives up, its `BACKOFF_EXHAUSTED` is refused (`connection.go:52` allows it in RECONNECTING only), so
  the channel stays CONNECTED to a closed stream, where `specs/009-p2p-data-delivery/spec.md:178` says
  that "the channel transitions to DISCONNECTED". Or both connect, and the stream of the first is never
  closed. And since the state has no lock, it may be left a mixture of two strings. `ConnectedHasStream`
  exempts the first (`contested` and `givenUp`) and confines the last to channels that two readers were
  on.
- SAPIENT tasking: after a restart the gates are open until the lane has been read again, old tasks
  are acknowledged again, and a line cut short takes the next record with it (`doc.go:7-10`).
- Remote ID: a second session takes the oldest request again, so later buyers are not served
  (`cli_orchestrator.go:38-42`); a seller that stops between release and invoice leaves the
  reservation, a buyer that fails after its deposit leaves it in escrow; in memory
  mode the seller may approve itself. `session.go:217` and `negotiation.go:40` count on a price of
  zero, which the escrow refuses.

## 5. Bounds

All bounds are constants with names and stand in guards; the model's
behaviour up to them is that of the code.

- *Contract*: `MaxSupply` 2, `MaxEscrows` 2, `MaxReleases` 2, `MaxTime` 1, `Amounts` {1}. A supply
  of two and two releases per escrow let a partial release, a refund with one outstanding,
  a new deposit and a release that is more than what is left all happen. Escrows meet
  only in the pot of their token, for which two escrows are enough.
- *Memory escrow*: amounts 1 and 2, timeouts 0 and 1, two ids, two releases of each, a balance
  of at most 3, a clock up to 1: releases of different sizes and an exhausted balance.
- *Store*: two goroutines, two request ids, a clock up to 1, one crash. One crash may happen at any of
  the five steps, with the file of another goroutine's operation before or after it.
- *Registry*: by itself, a key and a contract, two URIs, three tokens: a callback that gives the new
  token away, or takes the key's, and registrations after it. With its clients, two programs of the key
  and three starts: a registration, an update of it, and one that finds what the other program has left;
  there two tokens are minted and the contract gets one by transfer only.
- *Adapter*: `MaxCalls` per caller. One setting lets a buyer create, deposit, approve and try
  again against a seller; one has two workers of a buyer, which take turns, and two of the seller;
  `MaxTime` is 1 so that a refund is possible.
- *Commerce*: `MaxRequests` 2, `MaxRounds` 3: an agreement, its
  abandonment or loss, another one, and a seller that serves the first again.
  `IncomingCap` is 1 instead of 4 so that the channel does fill.
- *Heartbeat*: the protocol's constants are scaled (`MinDeadlineDelta` 2,
  `GracePeriod` 3, `SuspectToDead` 1, periods 2 and 3) and keep their order. The
  horizon of 7 seconds holds two periods, the grace period, suspicion, death and
  a second run of the seller (`MaxLives` 2). In the late setting, `Lateness`,
  `ConsensusDelay` and `DeliveryDelay` add up to `GracePeriod`, the largest value for
  which the timing argument holds; the immediate one has the shortest period, so that
  a late tick meets the rate limiter.
- *Bus and memory adapter*: two publishers, two subscriptions, capacity 1 and two messages: a
  channel full of history or of a live message, a publisher behind another, a
  subscription between them.
- *HCS*: publications of two chunks, of one chunk, and of the same message again, two of them on
  a topic, with their chunks in every order, pages of two messages (so that a publication spans two of them), a
  channel of one, groups forgotten after zero ticks of a clock that goes to 1.
- *Delivery*: one peer, three streams, delays capped at one, a budget of 3, under two bounds: two
  callers, two channels and one reader (`ChannelsBound`), or one caller, one channel and two readers,
  each with its loop (`ReadersBound`). Channels meet only in the protection of their peer, readers only
  on a channel. *Validator*: two agreements, with and without a common id, one replay. *Tasking*: two
  consumers, one session, two tasks, one fault, two runs. *Remote ID*: two buyers, two sessions, offers
  with and without a price and with and without faults.

Deadlock checking is off in every configuration: at its bounds each model stops,
and so does the system when nobody calls.

## 6. Fairness

- `AdapterFairness`: a goroutine goes on when it can (the Go scheduler), and the chain
  mines what is in a mempool. No fairness for beginning a call or giving up.
- `CommerceFairness`: each worker and the seller go on when they can. One weak
  fairness condition covers a whole process, because a process is sequential; none
  covers failures, timeouts, restarts.
- `BusFairness`: the goroutine of a subscription runs (`Replay`, `Close`). Nobody has to
  publish, to receive or to cancel.
- `TopicFairness`: the publisher that holds a message sends it when there is room, the goroutine
  of a subscription detaches and closes, *and* consumers take what is in their channel: a
  blocking publisher returns only if they do, and `PublishReturns` says so.
- `MirrorFairness`: poller and forwarder go on; the consumer takes what it is handed as long as
  it has not cancelled.
- `DeliveryFairness`: a goroutine inside a call goes on, and so does a reconnection loop.
- `TaskingFairness`: the seller reads its lane. `SessionFairness`: the seller and each
  buyer go on, in offers without faults to some effect.
- `Heartbeat` uses none: its promises have a time in them, are checked as
  invariants, and rest on the lateness constants. Neither do the contract, the memory escrow, the
  store, the registry and the validator: nobody has to call them.

## 7. Proofs

Eight modules hold theorems. They are about all values of the constants that satisfy the ASSUMEs of
the modules they extend, which TLC evaluates in the runs of those modules. Every safety invariant and
every action property of a passing run is stated by one of them; section 7 ends with what is not.

**SumTheorems** is about sums over finite sets of any size, as the community modules define them:
a sum does not depend on the order of its terms, is natural when they are, changes by what one
term changes (`SumChange`) and is at least each term. Such a sum is a function defined by recursion
over a set; the induction is `SubsetInduction`, in which a *set* of subsets stands for the
predicate. The money in the ledgers and the number of registration calls are such sums.

**NeuronEscrowProofs**, for all accounts, tokens, amounts, terms and bounds:

- `TypeCorrect`: the balance, the reservation and every token account stay natural numbers.
- `ReservedCovered` (`PendingCovered`): `getBalance` and `requestRelease` never revert on their
  subtraction.
- `MoneyOut` (`OnlyReleaseOrRefundPays`).
- `ContractSolvent` (`Solvent`): the contract owns what its escrows say they hold, token by token.
- `NeverLocked` (`FundsNeverStuck`): refunds and approved withdrawals always succeed.

The invariant is `IInv == TypeOK /\ PendingCovered /\ WellFormed`. `WellFormed`
(an existing escrow names a deployed token and numbers its releases from 1) is
what makes the token transfers typed: without it a transfer could be applied to an
account outside the token's domain. `PendingCovered` supports itself: `withdraw`
lowers both sides by one amount, `claimRefund` zeroes both, `requestRelease`
reserves at most what `getBalance` leaves. There is one lemma per function
(`CreateIInv`, `DepositIInv`, ...) and `NextIInv` puts them together. `Unissued` (ids not yet used have
no escrow) makes a step that lowers a balance a `withdraw` or a `claimRefund` of that escrow, and
keeps a new escrow from bringing a balance into the sum of `Solvent`, which each other step changes in one
term (`OwesChange`). `NeverLocked` needs to know what the reservation is made of: `ClaimsKept`
says that until a refund it is the sum of what the escrow's unpaid releases ask for, so an approved
release is covered by the reservation, that by the balance, and that by the contract's tokens.

**EVMEscrowAdapterProofs**, for any callers, operations, accounts and limits: `AdapterTypeCorrect`,
`IdsOwn` (`IdsAreOwn`) for every deployment, and `OkIsTrueInTurns` (`OkIsTrue`) under two hypotheses
about the deployment, which the settings of the run `evm` satisfy. `TurnsTaken`: callers of an account
that deposits, approves or claims back take turns or are one; this is the mutex of
`cmd/multistream-buyer`, and `evm_shared` shows the statement false without it. `BuyerApproves`: nobody
but the buyer may approve releases; every program of the repository creates its escrows without an
arbiter. The argument follows a transaction from its estimation to its block. `Coupled`: a transaction
somebody waits for is in one place and is the one the script is at. `LastIsOwn`: with turns, it is the
last of its account. `Holds`: what the estimation saw is still so, because transactions of other
accounts can neither take away an allowance nor withdraw a release they may not approve.
`MempoolPromising` says the same of the transactions that were given up on.

**LedgersProofs**. The registry, for all accounts, URIs and bounds:

- `MappingExact` (`ReverseMappingExact`) and `URIExact` (`URIFollowsToken`) of the contract, for any set
  of accounts, any subset of them contracts. The invariant adds `Unminted`: ids from `nextAgentId` on
  are nobody's and have no URI. Without it `register` could give away a token twice, and the mapping of
  the former owner would be stale. `MintUnderWay`: while a contract is called back its token exists and
  has no URI yet, so the end of `register` gives the URI to a token that somebody owns, whoever that is
  by then.
- `ClientsCallTheRegistry`: `RegistrationSpec => RegistrySpec`, that is, the programs with
  their failures and orphaned transactions only ever call the contract or leave it alone; so
  `MappingExactForClients`.
- `SuccessIsReal` (`SuccessIsOnChain`), for any number of processes and keys. `Sound` says of each
  process what its call has found out and may still rely on. What it has read stays true while its
  registration is not `disturbed`, and a transaction it waits for carries the number of its own start,
  so one that an earlier call left behind is not mistaken for it: that one disturbs the call when it is
  mined. `disturbed` also covers the transaction of another key that is approved for the token, mined while the
  call runs: with more than one key the statement is false without it.
- `ClientTypeCorrect`: a mempool never holds more transactions than calls were started. `PoolsBounded`
  compares it with the sum of what each process may have sent (`MaySend`).

The store, for any goroutines, services and bounds: `StoreTypeCorrect` and `StoreIsDurable`
(`StoreKeeps`). One goroutine at a time is between the reading and the renaming of the file (`OneWriter`), so
what it writes is still its own change of what is there (`WritesItsChange`), and a file is synchronised
before it has its name (`FilesAreSynced`), so that no power loss takes away part of it.

The memory escrow: `MemTypeCorrect`, and `MemoryKeepsThePromise`, the refinement of `EscrowPromise`. An escrow
holds at least what it has promised (`Backed`), a release is in one escrow only (`OneHolder`) and has a number
that was given out (`NumberedSoFar`); so the claims of the abstract escrow, which are read off all maps,
change by one claim at a time (`ClaimsExact`, `ClaimStays`). There is one lemma per method for what it
does to the record and one for the step of the promise it is.

`LedgersTypeCorrect` (`LedgersTypeOK`) is about all four side by side, as the run takes them.

**EdgeCommerceProofs**, for any number of workers, requests and rounds, any capacity, either bus, with
and without faults:

- `CommerceTypeCorrect`, `ServedFunded`, `ApprovedPaid` and `Invoiced`: the type invariant and
  the three safety properties of the run.
- `PromiseKept`: `CommerceSpec => KeepsPromise`, the refinement of `PaidAgreement`.

None of the properties is inductive by itself: the seller believes a message about an escrow that
others change. `Knowledge` is what makes it work. `TrueMessages`: what a posted message says is so
and stays so, because an escrow and the seller's machine only go forward (`Advances`,
`MessagesStayTrue`). `SessionStages`: what the worker knows of its escrow in each phase; it
survives the steps of others because no two sessions share a request (`OwnRequests`). `SellerStage`: a
seller about to publish an invoice has moved the escrow from funded to requested in this
round, so no invoice of that request is posted; that is why an agreement served twice is
invoiced once (`StillInvoicedOnce`). `WorkerKnows` and `SellerKnows` carry these over a step of
one process in general; `WorkerKeeps`, `RequestKeeps` and `SellerKeeps` have one step per
action. For the refinement, `TradeMoves` reduces a step to the agreement it is about, and
`TradeSteps` shows that each step moves it to the next state of the trade or not at all.

**HeartbeatProofs**, for any periods, delays, lateness, poll interval and grace period that the
configuration accepts, any number of the seller's lives and either kind of bus:

- `SilenceIsAlwaysReported` (`WatchReports`) and `TheNewestCounts` (`NewestCounts`) for every timing.
- `PromptHeartbeatsAreTaken` (`HeartbeatsAreTaken`) and `PromptSellerStaysAlive` (`NoFalseSuspicion`) for
  the timings of `Prompt`; the settings of the run satisfy it (`SettingsArePrompt`).

`Prompt` says what the code leaves to its constants: consensus comes before the next heartbeat
may be submitted and leaves of a period the shortest delta a deadline may have; the grace period
covers `Slack`, consensus and delivery. `Slack` is the lateness of a tick, and the lateness plus
`MinDeadlineDelta - 1` when the period is so short that a late tick makes the rate limiter keep the
next one back. That such a skip is never followed by a second one needs the lateness to be less than a
period, which `HeartbeatAssumption` states. The invariant has four parts besides the newest message.
`Shape`: types and cursors. `Judged`: what was evaluated and emitted belongs to the record and to
a moment since the last poll. `OnTheWay`: how old a message is that waits for consensus or
delivery. `Beating`: the last heartbeat is one period before the ticker's next time or was followed
by a skip (`Fresh`, `Skipped`), and each message of the running life is the last one or has a
successor at most `Apart` later (`Followed`). The record then names a live message, as a replayed
heartbeat is rejected, and its successor is still under way, so it is not too late.

**TopicsProofs**, for any number of publishers, subscriptions and messages and any capacity.

The bus: `BusTypeCorrect` and `ExactlyOnce` (`DeliveredExactlyOnce`). What was delivered is judged by
what is still to come, so the invariant follows each message. `Replayed`: the history up to the next
message to replay is delivered. `LiveArrives`: a live message is delivered or a publisher still has to send
it (`Underway`), unless the channel was full. `Origin`: what is delivered is history that was replayed,
or live and nobody's to send again, so nothing that is sent has been delivered before. It holds because
`Publish` and `Subscribe` each take what they copy and what they append under one lock
(`OwnMessages`, `ChannelBounds`). The lemmas on sequences say that receiving keeps what was delivered
(`TakeKeeps`) and that sending adds one message to it (`PutDelivers`, `FreshAppend`).

The memory adapter: `TopicTypeCorrect` and `HistoryFirst` (`HistoryThenEveryLive`). A writer that has
published owes its message to the subscriptions it has copied (`SendsItsOwn`); what a subscription was
given begins with its history (`Begun`), holds every live message that is not owed to it any more
(`LiveComes`), and none twice, since none that is owed has come (`ComesOnce`).

The mirror subscription, for any publications, chunks, page length, time to live and capacity:
`MirrorTypeCorrect`, `TimelyCompleted` (`TimelyIsCompleted`) and `WholeOnce` (`WholeInOrderOnce`), with
chunks in any order. `Numbered`: no number of a publication is on the topic twice. `Complete`: a group
never has all numbers, so the chunk that fills the last gap, whichever it is, completes the publication
before any later one. `Collected`: what was read of a publication is in its group, unless the group was
forgotten, and that takes a publication that is `Late`. `ReadOn`: how far the poller has read says which
are complete. What was completed goes through a queue, the poller's hand and the forwarder's in the
order of last chunks (`InLine`), and the tracker knows what it has let through (`Told`).

`TopicsTypeCorrect` (`TopicsTypeOK`) is about the three side by side.

**ServicesProofs**. *Delivery*, for any number of peers, goroutines, channels and streams:
`DeliveryTypeCorrect`; `PeersReleased` (`ProtectionReleased`); and `ConnectedIsWired`
(`ConnectedHasStream`). `ProtectionReleased` is not inductive: the goroutine that works on the channel
of a protected peer may be about to delete it. But that goroutine has released the peer before, so
whoever protected it since has another channel: `Protected` asks for a channel that nobody is closing
(`Held`). `Unshared` keeps the channel between its opening and its registration out of reach of the
others. `ConnectedIsWired` is for any number of readers on a channel and needs nothing of how
`StartReconnection` is called. `WiringInv` says two things of a channel that nobody closes. `Streamed`:
its stream is open, or some loop on it still dials or wires, or one has given up; this holds whatever
states are looked up and assigned, as whoever closes the stream starts a loop of its own. `Alone`, where
no two readers have met: the state is what the one reader or loop is at, so giving up ends in
DISCONNECTED and nothing is mixed. No two channels, nor a channel and a stream being dialled, share a
stream (`Distinct`).

*Tasking*, for any consumers, sessions, tasks, faults and restarts:
`TaskingTypeCorrect`, `GatesFollowTheLane` (`GateIsLastControl`) and `AcknowledgedTakesHold`
(`AcknowledgedIsObeyed`). A gate is set between the reading of a
line and the end of its handling, so the invariant says what it shows *meanwhile* (`GatesFollow`:
the lane up to the line before the one in hand while `consuming` is "gate", and up to that
line otherwise) and that what is in hand is the line last read (`AtControl`). The lemmas
`ObeysFrame`, `ObeysOther` and `ObeysNewest` say what one more line does to the last control of a session.
An acknowledgement then tells the gate because ids grow along the lane (`Ordered`), the task a consumer
waits for is the newest of its lines (`Own`), and this run of the seller has answered nothing it has not
handled (`Handled`); `Stopped` counts the frames after a stop.

*Remote ID*, for any number of buyers, sessions and failures: `SessionTypeCorrect` and `ReportsArePaid`
(`ReportedIsPaid`). The escrow of a buyer is unused, or holds the price and has promised it once at most, or
has paid it and is used up (`EscrowStage`); a message on a topic says something about an escrow that stays true
(`TopicsTell`), and each side goes by what it has received (`SidesKnow`). A request that an old session
left on the topic finds nothing left to release, and the seller's own approval, where the memory escrow lets it,
nothing left to pay twice.

*The validator*, for any number of agreements, any order of the two topics and any replays:
`ValidatorTypeCorrect` and `Attested` (`EvidenceIsSound`). A snapshot never loses a type it has
(`ReadIsKept`), a complete one was emitted (`CompleteIsEmitted`), and what was published has its key
kept (`PublishedIsKept`), so no key is published twice; with fresh ids a snapshot has the messages of
one agreement only (`SnapshotsArePure`).

`ServicesTypeCorrect` (`ServicesTypeOK`) is about the four side by side.

Model-checked only: `OperationsReturn`, `FundedIsPaid`,
`CancelledIsClosed`, `PublishReturns`, `CompletedIsDelivered`, `ReconnectionEnds`, `LaneIsConsumed` and
`FirstIsSettled`, which are liveness under fairness and need ENABLED, and the violations of section 4. The two
refinements that are proved (`KeepsPromise`, `KeepsThePromise`) are of safety specifications.

## 8. What the models leave out

- Signatures are unforgeable and messages well formed; envelopes, encodings and key
  material are not represented.
- Frames of a stream, discovery of sellers by registries, several
  streams per seller, sessions of edgeapp without an escrow.
- Topics are ordered sequences with cursors in `EdgeCommerce`, `Heartbeat` and
  `RemoteIDSession`. The concurrency below is in `MemoryBus`, `MemoryTopicAdapter` and
  `MirrorSubscription`, and with it the drops of a full channel; the lag of an HCS
  mirror is a late subscription or a delay.
- The negotiation deadline and counter-offers, the stop, complete and cancel
  handlers of `lifecycle.go`: `edgeapp` reaches none of them.
- A duplicate tracker that a caller passes to several subscriptions: each of them would get what the others have
  not seen. The models have one for each subscription; no program shares one.
- What the receiver of a registration token calls back besides the registry; and a registration program
  never sees a half-made registration, since a transaction is one step to it.
- A clock that steps back (`health/publisher.go:228` would wrap) and a consumer that
  never takes a liveness event.
- Kafka and ERC topic backends, the in-memory contracts of the registry, the commerce service, the
  lane on a topic, the ADS-B sessions (which repeat those of Remote ID).
- Most lines of the repository are not control: generated protocol buffers and contract
  bindings, command-line parsing, displays and demonstrations, wire formats, the TypeScript SDK's
  copies of the same formats. They hold no state that the properties here could be about, and
  `PROJECT.json` lists them as not modelled with the reason.

## 9. Plan

1. Proofs: the contract's refinement of `EscrowPromise`, as the memory escrow has it. It needs a mapping in
   which a refund leaves the older releases claimable, which is what `escrow_cancel` is about.
2. Modules: the commerce service and the in-memory contracts beside what they stand for, the lane
   on a topic, the Kafka backend with its consumer groups.
3. Composition: `EdgeCommerce` over `EVMEscrowAdapter` instead of its five escrow states, for a
   buyer that is left between the two transactions of an operation.
