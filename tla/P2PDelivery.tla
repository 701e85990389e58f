------------------------------ MODULE P2PDelivery ------------------------------
(***************************************************************************)
(* The delivery channels of one host (internal/delivery/connection.go,     *)
(* libp2p_adapter.go, backoff.go): goroutines that open channels, close    *)
(* them and report broken streams, and one goroutine per reconnection.     *)
(* The map of channels has a lock; what is between two uses of it          *)
(* interleaves.  The state of a connection has none: who changes it looks  *)
(* up the transition and assigns the new state in two steps, and a string  *)
(* that is read or assigned while another is being assigned may be mixed   *)
(* of the two when their lengths differ.                                   *)
(***************************************************************************)
EXTENDS Naturals
LOCAL INSTANCE FiniteSetsExt

CONSTANTS Peers,
          Users,         \* goroutines that open and close channels
          Readers,       \* goroutines that find a stream broken and start a reconnection
          MaxChannels,   \* bound on the channels opened
          MaxStreams,    \* bound on the streams opened
          InitialDelay, Factor, MaxDelay, MaxDuration,   \* BackoffConfig
          DialTimeout    \* the time a dial that fails may take (10 s)

ASSUME DeliveryAssumption ==
  /\ MaxChannels \in Nat /\ MaxStreams \in Nat /\ Users \cap Readers = {}
  /\ InitialDelay \in Nat \ {0} /\ Factor \in Nat \ {0} /\ MaxDelay \in Nat \ {0}
  /\ MaxDuration \in Nat /\ DialTimeout \in Nat

VARIABLES nextChannel,     \* channels made so far
          nextStream, \* streams opened so far
          channels,   \* the adapter's map: the channels it knows
          peerOf,     \* [channel -> its peer]
          connState,  \* [channel -> state of its connection]
          stream,     \* [channel -> the stream it is wired to]
          open,       \* the streams this host has not closed
          protected,  \* the peers the connection manager must not prune
          doing,      \* [goroutine -> the operation it is in the middle of]
          retry,      \* [reader -> the reconnection loop it has started]
          contested,  \* history: channels a reader took while another was on them
          givenUp     \* history: channels a loop gave up on

wiringVars == <<nextChannel, nextStream, channels, peerOf, stream, open, protected>>
historyVars == <<contested, givenUp>>
deliveryVars == <<wiringVars, connState, doing, retry, historyVars>>

Channel == 1..MaxChannels
Workers == Users \cup Readers
AtRest == [at |-> "idle", channel |-> 0]
NoLoop == [at |-> "none", channel |-> 0, stream |-> 0, attempt |-> 0, elapsed |-> 0]

ConnectionState ==
  {"IDLE", "CONNECTING", "CONNECTED", "RECONNECTING", "RELAYING", "DISCONNECTED"}

connTransitions ==
  {<<"IDLE", "CONNECT", "CONNECTING">>, <<"CONNECTING", "DIAL_SUCCESS", "CONNECTED">>,
   <<"CONNECTING", "DIAL_FAIL_RELAY_SUCCESS", "RELAYING">>,
   <<"CONNECTING", "DIAL_FAIL_ALL", "DISCONNECTED">>,
   <<"CONNECTED", "TRANSPORT_DROP", "RECONNECTING">>,
   <<"RELAYING", "DCUTR_SUCCESS", "CONNECTED">>, <<"RELAYING", "RELAY_DROP", "RECONNECTING">>,
   <<"RECONNECTING", "RECONNECT_DIRECT", "CONNECTED">>,
   <<"RECONNECTING", "RECONNECT_RELAY", "RELAYING">>,
   <<"RECONNECTING", "BACKOFF_EXHAUSTED", "DISCONNECTED">>}
  \cup {<<s, e, "DISCONNECTED">> : s \in {"CONNECTED", "RELAYING"},
                                   e \in {"DISCONNECT", "FATAL_ERROR"}}

\* Neither a state nor an event: what is left of two strings assigned at once.
Torn == "TORN"

\* A mutation: the state is assigned before it is known that the table has one.
leadsUnchecked(state, event) ==
  IF \E t \in connTransitions : t[1] = state /\ t[2] = event
  THEN {t[3] : t \in {u \in connTransitions : u[1] = state /\ u[2] = event}}
  ELSE {""}

\* The state an event leads to, if the table has one.  (The error is not looked at.)
Leads(state, event) == {t[3] : t \in {u \in connTransitions : u[1] = state /\ u[2] = event}}

\* The states goroutines have looked up for channel c and are about to assign.
Assigning(c) ==
  ConnectionState \cap
    ({doing[g].at : g \in {h \in Workers : doing[h].channel = c}}
       \cup {retry[r].at : r \in {q \in Readers : retry[q].channel = c}})

\* CONNECTED is shorter than the other states that are assigned while somebody looks.
Mixes(state, other) == state = "CONNECTED" <=> other # "CONNECTED"

\* What looking up an event finds; {} when the table, or what was read, has no entry.
LookUps(c, event) ==
  {Leads(connState[c], event)}
    \cup (IF \E s \in Assigning(c) : Mixes(connState[c], s) THEN {{}} ELSE {})

Assign(c, next) ==
  connState' \in {[connState EXCEPT ![c] = s] :
    s \in {next} \cup (IF connState[c] = Torn \/ \E t \in Assigning(c) : Mixes(next, t)
                      THEN {Torn} ELSE {})}

DeliveryTypeOK ==
  /\ nextChannel \in 0..MaxChannels /\ nextStream \in 0..MaxStreams
  /\ channels \subseteq 1..nextChannel /\ open \subseteq 1..nextStream /\ protected \subseteq Peers
  /\ \A c \in 1..nextChannel : /\ peerOf[c] \in Peers /\ stream[c] \in 1..nextStream
                              /\ connState[c] \in ConnectionState \cup {Torn}
  /\ doing \in [Workers ->
       [at: {"idle", "register", "close", "disconnect", "DISCONNECTED", "delete", "drop",
             "RECONNECTING", "restart"},
        channel: 0..nextChannel]]
  /\ \A r \in Readers :
       retry[r].at \in {"none", "sleep", "dial", "rewire", "report", "CONNECTED", "DISCONNECTED"}
  /\ contested \subseteq 1..nextChannel /\ givenUp \subseteq 1..nextChannel

DeliveryInit ==
  /\ nextChannel = 0 /\ nextStream = 0 /\ channels = {} /\ open = {} /\ protected = {}
  /\ peerOf = [c \in Channel |-> CHOOSE p \in Peers : TRUE]
  /\ connState = [c \in Channel |-> "IDLE"]
  /\ stream = [c \in Channel |-> 0]
  /\ doing = [g \in Workers |-> AtRest]
  /\ retry = [r \in Readers |-> NoLoop]
  /\ contested = {} /\ givenUp = {}

(***************************************************************************)
(* Opening a channel, by dialling (Connect) or by accepting a stream       *)
(* (HandleIncoming).                                                       *)
(***************************************************************************)

\* The stream is open and its peer protected; only then has the channel an id.  A dial that
\* fails, or reaches somebody else, leaves nothing behind.
OpenStream(g, p) ==
  /\ doing[g] = AtRest /\ nextChannel < MaxChannels /\ nextStream < MaxStreams
  /\ nextChannel' = nextChannel + 1 /\ nextStream' = nextStream + 1
  /\ open' = open \cup {nextStream + 1}
  /\ protected' = protected \cup {p}
  /\ peerOf' = [peerOf EXCEPT ![nextChannel + 1] = p]
  /\ stream' = [stream EXCEPT ![nextChannel + 1] = nextStream + 1]
  /\ \E c \in Leads("IDLE", "CONNECT") : \E s \in Leads(c, "DIAL_SUCCESS") :
       connState' = [connState EXCEPT ![nextChannel + 1] = s]
  /\ doing' = [doing EXCEPT ![g] = [at |-> "register", channel |-> nextChannel + 1]]
  /\ UNCHANGED <<channels, retry, historyVars>>

Register(g) ==
  /\ doing[g].at = "register"
  /\ channels' = channels \cup {doing[g].channel}
  /\ doing' = [doing EXCEPT ![g] = AtRest]
  /\ UNCHANGED <<nextChannel, nextStream, peerOf, connState, stream, open, protected, retry,
                 historyVars>>

(***************************************************************************)
(* Disconnect                                                              *)
(***************************************************************************)

\* A mutation: only a channel that is connected gives its peer free.
disconnectConnected(g, c) ==
  /\ doing[g] = AtRest /\ c \in channels
  /\ protected' = IF connState[c] = "CONNECTED" THEN protected \ {peerOf[c]} ELSE protected
  /\ doing' = [doing EXCEPT ![g] = [at |-> "close", channel |-> c]]
  /\ UNCHANGED <<nextChannel, nextStream, channels, peerOf, connState, stream, open, retry,
                 historyVars>>

\* A channel that is still in the map; its peer is protected no longer, whoever else has a
\* stream to it.
Disconnect(g, c) ==
  /\ doing[g] = AtRest /\ c \in channels
  /\ protected' = protected \ {peerOf[c]}
  /\ doing' = [doing EXCEPT ![g] = [at |-> "close", channel |-> c]]
  /\ UNCHANGED <<nextChannel, nextStream, channels, peerOf, connState, stream, open, retry,
                 historyVars>>

CloseStream(g) ==
  /\ doing[g].at = "close"
  /\ open' = open \ {stream[doing[g].channel]}
  /\ doing' = [doing EXCEPT ![g].at = "disconnect"]
  /\ UNCHANGED <<nextChannel, nextStream, channels, peerOf, connState, stream, protected, retry,
                 historyVars>>

SetDisconnected(g) ==
  /\ doing[g].at = "disconnect"
  /\ \E found \in LookUps(doing[g].channel, "DISCONNECT") :
       \/ \E next \in found : doing' = [doing EXCEPT ![g].at = next]
       \/ found = {} /\ doing' = [doing EXCEPT ![g].at = "delete"]
  /\ UNCHANGED <<wiringVars, connState, retry, historyVars>>

\* Disconnect or StartReconnection assigns the state it looked up.
AssignState(g) ==
  /\ doing[g].at \in ConnectionState
  /\ Assign(doing[g].channel, doing[g].at)
  /\ doing' = [doing EXCEPT ![g].at = IF @ = "DISCONNECTED" THEN "delete" ELSE "restart"]
  /\ UNCHANGED <<wiringVars, retry, historyVars>>

DeleteChannel(g) ==
  /\ doing[g].at = "delete"
  /\ channels' = channels \ {doing[g].channel}
  /\ doing' = [doing EXCEPT ![g] = AtRest]
  /\ UNCHANGED <<nextChannel, nextStream, peerOf, connState, stream, open, protected, retry,
                 historyVars>>

(***************************************************************************)
(* Reconnection                                                            *)
(***************************************************************************)

\* A reader whose stream broke: the channel is in the map and its state is read.
StartReconnection(g, c) ==
  /\ doing[g] = AtRest /\ retry[g].at = "none" /\ c \in channels
  /\ connState[c] \in {"CONNECTED", "RELAYING"}
  /\ doing' = [doing EXCEPT ![g] = [at |-> "drop", channel |-> c]]
  /\ contested' = IF \E q \in Readers \ {g} : doing[q].channel = c \/ retry[q].channel = c
                  THEN contested \cup {c} ELSE contested
  /\ UNCHANGED <<wiringVars, connState, retry, givenUp>>

\* The event that fits the state that was read is applied to the state there is now.  (No
\* channel ever is RELAYING: nothing in the adapter raises the events that lead there.)
SetReconnecting(g) ==
  /\ doing[g].at = "drop"
  /\ \E found \in LookUps(doing[g].channel, "TRANSPORT_DROP") :
       \/ \E next \in found : doing' = [doing EXCEPT ![g].at = next]
       \/ found = {} /\ doing' = [doing EXCEPT ![g].at = "restart"]
  /\ UNCHANGED <<wiringVars, connState, retry, historyVars>>

\* A mutation: the old stream is closed and nobody dials again.
launchNothing(g) ==
  /\ doing[g].at = "restart"
  /\ open' = open \ {stream[doing[g].channel]}
  /\ doing' = [doing EXCEPT ![g] = AtRest]
  /\ UNCHANGED <<nextChannel, nextStream, channels, peerOf, connState, stream, protected, retry,
                 historyVars>>

LaunchLoop(g) ==
  /\ doing[g].at = "restart"
  /\ open' = open \ {stream[doing[g].channel]}
  /\ retry' = [retry EXCEPT ![g] = [NoLoop EXCEPT !.at = "sleep", !.channel = doing[g].channel]]
  /\ doing' = [doing EXCEPT ![g] = AtRest]
  /\ UNCHANGED <<nextChannel, nextStream, channels, peerOf, connState, stream, protected,
                 historyVars>>

NextDelay(attempt) == Min({MaxDelay, InitialDelay * Factor ^ attempt})

IsExhausted(elapsed) == elapsed >= MaxDuration

\* The last thing a loop does is to raise an event.
LoopEnds(r, event) ==
  \E found \in LookUps(retry[r].channel, event) :
    \/ \E next \in found : retry' = [retry EXCEPT ![r].at = next]
    \/ found = {} /\ retry' = [retry EXCEPT ![r] = NoLoop]

\* The loop gives up, or sleeps before its next attempt.
SleepOrGiveUp(r) ==
  LET loop == retry[r] IN
  /\ loop.at = "sleep"
  /\ \/ /\ IsExhausted(loop.elapsed)
        /\ LoopEnds(r, "BACKOFF_EXHAUSTED")
        /\ givenUp' = givenUp \cup {loop.channel}
     \/ /\ ~IsExhausted(loop.elapsed)
        /\ retry' = [retry EXCEPT ![r].at = "dial", ![r].elapsed = @ + NextDelay(loop.attempt)]
        /\ UNCHANGED givenUp
  /\ UNCHANGED <<wiringVars, connState, doing, contested>>

DialFails(r) ==
  /\ retry[r].at = "dial"
  /\ retry' = [retry EXCEPT ![r].at = "sleep", ![r].attempt = @ + 1,
                            ![r].elapsed = @ + DialTimeout]
  /\ UNCHANGED <<wiringVars, connState, doing, historyVars>>

DialSucceeds(r) ==
  /\ retry[r].at = "dial" /\ nextStream < MaxStreams
  /\ nextStream' = nextStream + 1
  /\ open' = open \cup {nextStream + 1}
  /\ retry' = [retry EXCEPT ![r].at = "rewire", ![r].stream = nextStream + 1]
  /\ UNCHANGED <<nextChannel, channels, peerOf, connState, stream, protected, doing, historyVars>>

\* A mutation: the state is reported before the stream is in place, and the stream is lost.
rewireNothing(r) ==
  /\ retry[r].at = "rewire"
  /\ retry' = [retry EXCEPT ![r].at = "report"]
  /\ UNCHANGED <<wiringVars, connState, doing, historyVars>>

\* The channel gets the new stream, whether or not it is still in the map.
Rewire(r) ==
  /\ retry[r].at = "rewire"
  /\ stream' = [stream EXCEPT ![retry[r].channel] = retry[r].stream]
  /\ retry' = [retry EXCEPT ![r].at = "report"]
  /\ UNCHANGED <<nextChannel, nextStream, channels, peerOf, connState, open, protected, doing,
                 historyVars>>

Reconnected(r) ==
  /\ retry[r].at = "report"
  /\ LoopEnds(r, "RECONNECT_DIRECT")
  /\ UNCHANGED <<wiringVars, connState, doing, historyVars>>

\* The loop assigns the state it looked up, and is done.
AssignLast(r) ==
  /\ retry[r].at \in ConnectionState
  /\ Assign(retry[r].channel, retry[r].at)
  /\ retry' = [retry EXCEPT ![r] = NoLoop]
  /\ UNCHANGED <<wiringVars, doing, historyVars>>

Continue(g) ==
  Register(g) \/ CloseStream(g) \/ SetDisconnected(g) \/ AssignState(g) \/ DeleteChannel(g)
    \/ SetReconnecting(g) \/ LaunchLoop(g)
LoopStep(r) ==
  SleepOrGiveUp(r) \/ DialFails(r) \/ DialSucceeds(r) \/ Rewire(r) \/ Reconnected(r)
    \/ AssignLast(r)

DeliveryNext ==
  \/ \E g \in Users : \/ \E p \in Peers : OpenStream(g, p)
                      \/ \E c \in Channel : Disconnect(g, c)
  \/ \E r \in Readers, c \in Channel : StartReconnection(r, c)
  \/ \E g \in Workers : Continue(g)
  \/ \E r \in Readers : LoopStep(r)

\* A goroutine finishes what it has begun, and a dial ends, well or badly.
DeliveryFairness ==
  /\ \A g \in Workers : WF_deliveryVars(Continue(g))
  /\ \A r \in Readers : WF_deliveryVars(LoopStep(r))

DeliverySpec == DeliveryInit /\ [][DeliveryNext]_deliveryVars /\ DeliveryFairness

(***************************************************************************)
(* Properties                                                              *)
(***************************************************************************)
Touched(c) ==
  \/ \E g \in Workers : doing[g].channel = c
  \/ \E r \in Readers : retry[r].channel = c

\* A channel that is in the map, says it is connected and is not being worked on has a stream
\* this host has not closed: what Disconnect and the loops look up, assign, close and wire in
\* any order, no channel is left CONNECTED to a dead stream.  Two loops on one channel may leave
\* it so, but only if one of them gave up: the event of giving up is refused once the other has
\* connected the channel (connection.go:52, libp2p_adapter.go:335).  And only where two readers
\* were on one channel is the state left a mixture, which is no state of the machine.
ConnectedHasStream ==
  \A c \in channels : ~Touched(c) =>
    /\ connState[c] = "CONNECTED" => stream[c] \in open \/ c \in contested \cap givenUp
    /\ connState[c] = Torn => c \in contested

\* Nobody protects a peer for ever: once no channel to it is known or being made, the
\* connection manager may prune it again.
ProtectionReleased ==
  \A p \in protected : \E c \in 1..nextChannel : peerOf[c] = p /\ (c \in channels \/ Touched(c))

\* A channel does not stay in reconnection: a loop runs for it, which connects it again or
\* gives up, also when it was disconnected meanwhile (RECONNECTING ignores DISCONNECT).
\* (Streams are bounded, so there is a moment when no channel is in reconnection.)
ReconnectionEnds ==
  []<>(\A c \in Channel : connState[c] # "RECONNECTING")
=============================================================================
