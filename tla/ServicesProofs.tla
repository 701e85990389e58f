---------------------------- MODULE ServicesProofs ----------------------------
(***************************************************************************)
(* Proofs about the services beside the trade, each for itself: the        *)
(* delivery channels of a host, the tasking of a SAPIENT sensor, the       *)
(* sessions of the Remote ID seller and the evidence of the validator.     *)
(***************************************************************************)
EXTENDS MCServices, FiniteSetTheorems, SequenceTheorems, TLAPS

-----------------------------------------------------------------------------
(***************************************************************************)
(* Delivery channels, for any number of peers, goroutines, channels and    *)
(* streams: no peer stays protected for ever.                              *)
(*                                                                         *)
(* ProtectionReleased is not inductive: it says of a protected peer that a *)
(* channel to it is known or worked on, and a goroutine may be about to    *)
(* delete that channel.  But that goroutine has released the peer before,  *)
(* so whoever protected it since has another channel.  Protected says so:  *)
(* a protected peer has a channel that nobody is closing.                  *)
(***************************************************************************)

\* Where a goroutine is that closes a channel: its peer is released already.
Closing == {"close", "disconnect", "DISCONNECTED", "delete"}

\* Somebody registers the channel, or it is in the map and nobody closes it.
Held(c) ==
  \/ \E g \in Workers : doing[g].at = "register" /\ doing[g].channel = c
  \/ c \in channels /\ \A g \in Workers : doing[g].channel = c => doing[g].at \notin Closing

Protected == \A p \in protected : \E c \in 1..nextChannel : peerOf[c] = p /\ Held(c)

\* A channel that is not in the map yet is known to the goroutine alone that opened it.
Unshared ==
  \A g \in Workers : doing[g].at = "register" =>
    /\ doing[g].channel \in 1..nextChannel /\ doing[g].channel \notin channels
    /\ \A h \in Workers : h # g => doing[h].channel # doing[g].channel

Operation ==
  [at: {"idle", "register", "close", "disconnect", "DISCONNECTED", "delete", "drop",
        "RECONNECTING", "restart"},
   channel: 0..nextChannel]

DeliveryShape ==
  /\ nextChannel \in 0..MaxChannels
  /\ channels \subseteq 1..nextChannel
  /\ DOMAIN peerOf = Channel /\ peerOf = [c \in Channel |-> peerOf[c]]
  /\ doing \in [Workers -> Operation]

DeliveryInv == DeliveryShape /\ Unshared /\ Protected

-----------------------------------------------------------------------------
(* What the table says of the events the adapter raises *)

LEMMA LeadsTo ==
  /\ Leads("IDLE", "CONNECT") = {"CONNECTING"}
  /\ Leads("CONNECTING", "DIAL_SUCCESS") = {"CONNECTED"}
  /\ Leads("CONNECTED", "TRANSPORT_DROP") = {"RECONNECTING"}
  /\ Leads("RECONNECTING", "RECONNECT_DIRECT") = {"CONNECTED"}
  /\ Leads("RECONNECTING", "BACKOFF_EXHAUSTED") = {"DISCONNECTED"}
<1>1. \A t \in connTransitions :
        /\ t[1] = "IDLE" /\ t[2] = "CONNECT" => t[3] = "CONNECTING"
        /\ t[1] = "CONNECTING" /\ t[2] = "DIAL_SUCCESS" => t[3] = "CONNECTED"
        /\ t[1] = "CONNECTED" /\ t[2] = "TRANSPORT_DROP" => t[3] = "RECONNECTING"
        /\ t[1] = "RECONNECTING" /\ t[2] = "RECONNECT_DIRECT" => t[3] = "CONNECTED"
        /\ t[1] = "RECONNECTING" /\ t[2] = "BACKOFF_EXHAUSTED" => t[3] = "DISCONNECTED"
  BY DEF connTransitions
<1>2. /\ <<"IDLE", "CONNECT", "CONNECTING">> \in connTransitions
      /\ <<"CONNECTING", "DIAL_SUCCESS", "CONNECTED">> \in connTransitions
      /\ <<"CONNECTED", "TRANSPORT_DROP", "RECONNECTING">> \in connTransitions
      /\ <<"RECONNECTING", "RECONNECT_DIRECT", "CONNECTED">> \in connTransitions
      /\ <<"RECONNECTING", "BACKOFF_EXHAUSTED", "DISCONNECTED">> \in connTransitions
  BY DEF connTransitions
<1> QED  BY <1>1, <1>2 DEF Leads

\* An event leads to one state, from wherever it is raised, and what is looked up is no other.
LEMMA LooksUp ==
  ASSUME NEW c, NEW found, NEW next \in found
  PROVE  /\ found \in LookUps(c, "DISCONNECT") => next = "DISCONNECTED"
         /\ found \in LookUps(c, "TRANSPORT_DROP") => next = "RECONNECTING"
         /\ found \in LookUps(c, "RECONNECT_DIRECT") => next = "CONNECTED"
         /\ found \in LookUps(c, "BACKOFF_EXHAUSTED") => next = "DISCONNECTED"
<1>1. \A t \in connTransitions :
        /\ t[2] = "DISCONNECT" => t[3] = "DISCONNECTED"
        /\ t[2] = "TRANSPORT_DROP" => t[3] = "RECONNECTING"
        /\ t[2] = "RECONNECT_DIRECT" => t[3] = "CONNECTED"
        /\ t[2] = "BACKOFF_EXHAUSTED" => t[3] = "DISCONNECTED"
  BY DEF connTransitions
<1>2. \A e : found \in LookUps(c, e) => next \in Leads(connState[c], e)
  BY DEF LookUps
<1> QED  BY <1>1, <1>2 DEF Leads

-----------------------------------------------------------------------------

\* The initial states satisfy the invariant: nothing is protected.
LEMMA DeliveryInitInv == DeliveryInit => DeliveryInv
BY DeliveryAssumption
   DEF DeliveryInit, DeliveryInv, DeliveryShape, Unshared, Protected, AtRest, Operation

\* A new channel is its opener's alone, and holds its peer.
LEMMA OpenStreamIInv ==
  ASSUME DeliveryInv, NEW g \in Users, NEW p \in Peers, OpenStream(g, p)
  PROVE  DeliveryInv'
<1> USE DEF DeliveryInv
<1> DEFINE new == nextChannel + 1
<1>1. /\ nextChannel \in Nat /\ new \in Channel /\ nextChannel' = new /\ new \notin 0..nextChannel
      /\ new \in 0..MaxChannels
      /\ 1..new = 1..nextChannel \cup {new} /\ 0..new = 0..nextChannel \cup {new}
  BY DeliveryAssumption DEF OpenStream, DeliveryShape, Channel
<1>2. g \in Workers /\ doing[g].at = "idle" /\ doing[g].channel = 0
  BY DEF OpenStream, AtRest, Workers
<1> HIDE DEF new
<1>3. /\ doing' = [doing EXCEPT ![g] = [at |-> "register", channel |-> new]]
      /\ peerOf' = [peerOf EXCEPT ![new] = p]
      /\ channels' = channels /\ protected' = protected \cup {p}
  <2>1. doing' = [doing EXCEPT ![g] = [at |-> "register", channel |-> new]]
    BY Zenon DEF OpenStream, new
  <2>2. peerOf' = [peerOf EXCEPT ![new] = p]
    BY Zenon DEF OpenStream, new
  <2>3. channels' = channels /\ protected' = protected \cup {p}
    BY Zenon DEF OpenStream
  <2> QED  BY <2>1, <2>2, <2>3
<1>4. DeliveryShape'
  BY <1>1, <1>3 DEF DeliveryShape, Operation
<1>5. /\ doing'[g].at = "register" /\ doing'[g].channel = new
      /\ \A h \in Workers \ {g} : doing'[h] = doing[h] /\ doing[h].channel \in 0..nextChannel
      /\ \A c \in 1..nextChannel : peerOf'[c] = peerOf[c]
      /\ peerOf'[new] = p /\ new \notin channels
  <2>1. /\ doing'[g].at = "register" /\ doing'[g].channel = new
        /\ \A h \in Workers \ {g} : doing'[h] = doing[h]
    BY <1>2, <1>3 DEF DeliveryShape
  <2>2. \A h \in Workers : doing[h].channel \in 0..nextChannel
    BY DEF DeliveryShape, Operation
  <2>3. new \notin channels /\ new \notin 1..nextChannel /\ 1..nextChannel \subseteq Channel
    BY <1>1, DeliveryAssumption DEF DeliveryShape, Channel
  <2>4. (\A c \in 1..nextChannel : peerOf'[c] = peerOf[c]) /\ peerOf'[new] = p
    BY <1>1, <1>3, <2>3 DEF DeliveryShape
  <2> QED  BY <2>1, <2>2, <2>3, <2>4
<1>6. Unshared'
  BY <1>1, <1>2, <1>3, <1>5 DEF Unshared
<1>7. Protected'
  <2> SUFFICES ASSUME NEW q \in protected'
               PROVE  \E c \in 1..nextChannel' : peerOf'[c] = q /\ Held(c)'
    BY DEF Protected
  <2>1. CASE q = p
    BY <1>1, <1>2, <1>5, <2>1 DEF Held
  <2>2. CASE q # p
    <3>1. PICK c \in 1..nextChannel : peerOf[c] = q /\ Held(c)
      BY <1>3, <2>2 DEF Protected
    <3>2. c # new /\ c \in 1..nextChannel'
      BY <1>1
    <3>3. Held(c)'
      BY <1>2, <1>3, <1>5, <3>1, <3>2 DEF Held
    <3> QED  BY <1>5, <3>1, <3>2, <3>3
  <2> QED  BY <2>1, <2>2
<1> QED  BY <1>4, <1>6, <1>7

\* What the three steps on a connection's state leave of everything else.
LEMMA SetDisconnectedDoes ==
  ASSUME NEW g \in Workers, SetDisconnected(g)
  PROVE  /\ doing[g].at = "disconnect"
         /\ \E at \in {"DISCONNECTED", "delete"} : doing' = [doing EXCEPT ![g].at = at]
         /\ UNCHANGED <<nextChannel, nextStream, channels, peerOf, stream, open, protected>>
         /\ UNCHANGED <<connState, retry, contested, givenUp>>
BY LooksUp DEF SetDisconnected, wiringVars, historyVars

LEMMA SetReconnectingDoes ==
  ASSUME NEW g \in Workers, SetReconnecting(g)
  PROVE  /\ doing[g].at = "drop"
         /\ \E at \in {"RECONNECTING", "restart"} : doing' = [doing EXCEPT ![g].at = at]
         /\ UNCHANGED <<nextChannel, nextStream, channels, peerOf, stream, open, protected>>
         /\ UNCHANGED <<connState, retry, contested, givenUp>>
BY LooksUp DEF SetReconnecting, wiringVars, historyVars

LEMMA AssignStateDoes ==
  ASSUME NEW g \in Workers, doing \in [Workers -> Operation], AssignState(g)
  PROVE  /\ \/ /\ doing[g].at = "DISCONNECTED"
               /\ doing' = [doing EXCEPT ![g].at = "delete"]
            \/ /\ doing[g].at = "RECONNECTING"
               /\ doing' = [doing EXCEPT ![g].at = "restart"]
         /\ UNCHANGED <<nextChannel, nextStream, channels, peerOf, stream, open, protected>>
         /\ UNCHANGED <<retry, contested, givenUp>>
<1>1. doing[g].at \in {"DISCONNECTED", "RECONNECTING"}
  BY DEF AssignState, Operation, ConnectionState
<1>2. UNCHANGED <<nextChannel, nextStream, channels, peerOf, stream, open, protected>>
  BY DEF AssignState, wiringVars
<1>3. UNCHANGED <<retry, contested, givenUp>>
  BY DEF AssignState, historyVars
<1>4. CASE doing[g].at = "DISCONNECTED"
  BY <1>2, <1>3, <1>4 DEF AssignState
<1>5. CASE doing[g].at = "RECONNECTING"
  BY <1>2, <1>3, <1>5 DEF AssignState
<1> QED  BY <1>1, <1>4, <1>5

\* A step of a goroutine at work leaves the peers and the number of channels alone.
LEMMA ContinueIInv ==
  ASSUME DeliveryInv, NEW g \in Workers, Continue(g)
  PROVE  DeliveryInv'
<1> USE DEF DeliveryInv
<1> DEFINE c == doing[g].channel
<1>1. /\ UNCHANGED <<nextChannel, peerOf, protected>> /\ doing[g] \in Operation
      /\ doing \in [Workers -> Operation] /\ AtRest \in Operation
  BY DEF DeliveryShape, Continue, Register, CloseStream, SetDisconnected, AssignState,
     DeleteChannel, SetReconnecting, LaunchLoop, wiringVars, AtRest, Operation
<1>2. CASE Register(g)
  <2>1. /\ doing[g].at = "register" /\ channels' = channels \cup {c}
        /\ doing' = [doing EXCEPT ![g] = AtRest]
    BY <1>2 DEF Register
  <2>2. /\ c \in 1..nextChannel /\ c \notin channels
        /\ \A h \in Workers \ {g} : doing[h].channel # c
    BY <2>1 DEF Unshared
  <2>3. DeliveryShape'
    BY <1>1, <2>1, <2>2 DEF DeliveryShape, Operation
  <2>4. /\ \A h \in Workers \ {g} : doing'[h] = doing[h]
        /\ doing'[g].at = "idle" /\ doing'[g].channel = 0
    BY <1>1, <2>1 DEF AtRest
  <2>5. Unshared'
    BY <1>1, <2>1, <2>2, <2>4 DEF Unshared
  <2>6. ASSUME NEW d \in 1..nextChannel, Held(d) PROVE Held(d)'
    <3>1. CASE d = c
      BY <2>1, <2>2, <2>4, <3>1 DEF Held, Closing
    <3>2. CASE d # c
      BY <2>1, <2>4, <2>6, <3>2 DEF Held
    <3> QED  BY <3>1, <3>2
  <2>7. Protected'
    BY <1>1, <2>6 DEF Protected
  <2> QED  BY <2>3, <2>5, <2>7
<1>3. CASE DeleteChannel(g)
  <2>1. /\ doing[g].at = "delete" /\ channels' = channels \ {c}
        /\ doing' = [doing EXCEPT ![g] = AtRest]
    BY <1>3 DEF DeleteChannel
  <2>2. DeliveryShape'
    BY <1>1, <2>1 DEF DeliveryShape, Operation
  <2>3. /\ \A h \in Workers \ {g} : doing'[h] = doing[h]
        /\ doing'[g].at = "idle" /\ doing'[g].channel = 0
    BY <1>1, <2>1 DEF AtRest
  <2>4. Unshared'
    BY <1>1, <2>1, <2>3 DEF Unshared
  <2>5. ASSUME NEW d \in 1..nextChannel, Held(d) PROVE Held(d)'
    <3>1. d # c
      BY <2>1, <2>5 DEF Held, Unshared, Closing
    <3>2. d # 0
      OBVIOUS
    <3> QED  BY <2>1, <2>3, <2>5, <3>1, <3>2 DEF Held
  <2>6. Protected'
    BY <1>1, <2>5 DEF Protected
  <2> QED  BY <2>2, <2>4, <2>6
<1>4. CASE CloseStream(g) \/ SetDisconnected(g) \/ AssignState(g) \/ SetReconnecting(g)
  <2>1. PICK at \in {"disconnect", "DISCONNECTED", "delete", "RECONNECTING", "restart"} :
          /\ doing' = [doing EXCEPT ![g].at = at]
          /\ doing[g].at \in Closing \/ at \notin Closing
          /\ doing[g].at # "register" /\ channels' = channels
    <3>1. CASE CloseStream(g)
      BY <3>1 DEF CloseStream, Closing
    <3>2. CASE SetDisconnected(g)
      BY <3>2, SetDisconnectedDoes DEF Closing
    <3>3. CASE SetReconnecting(g)
      BY <3>3, SetReconnectingDoes DEF Closing
    <3>4. CASE AssignState(g)
      BY <1>1, <3>4, AssignStateDoes DEF Closing
    <3> QED  BY <1>4, <3>1, <3>2, <3>3, <3>4
  <2>2. DeliveryShape'
    BY <1>1, <2>1 DEF DeliveryShape, Operation
  <2>3. /\ \A h \in Workers \ {g} : doing'[h] = doing[h]
        /\ doing'[g].at = at /\ doing'[g].channel = doing[g].channel
    BY <1>1, <2>1 DEF Operation
  <2>4. Unshared'
    BY <1>1, <2>1, <2>3 DEF Unshared
  <2>5. ASSUME NEW d \in 1..nextChannel, Held(d) PROVE Held(d)'
    BY <2>1, <2>3, <2>5 DEF Held
  <2>6. Protected'
    BY <1>1, <2>5 DEF Protected
  <2> QED  BY <2>2, <2>4, <2>6
<1>5. CASE LaunchLoop(g)
  <2>1. doing[g].at = "restart" /\ channels' = channels /\ doing' = [doing EXCEPT ![g] = AtRest]
    BY <1>5 DEF LaunchLoop
  <2>2. DeliveryShape'
    BY <1>1, <2>1 DEF DeliveryShape, Operation
  <2>3. /\ \A h \in Workers \ {g} : doing'[h] = doing[h]
        /\ doing'[g].at = "idle" /\ doing'[g].channel = 0
    BY <1>1, <2>1 DEF AtRest
  <2>4. Unshared'
    BY <1>1, <2>1, <2>3 DEF Unshared
  <2>5. ASSUME NEW d \in 1..nextChannel, Held(d) PROVE Held(d)'
    BY <2>1, <2>3, <2>5 DEF Held
  <2>6. Protected'
    BY <1>1, <2>5 DEF Protected
  <2> QED  BY <2>2, <2>4, <2>6
<1> QED  BY <1>2, <1>3, <1>4, <1>5 DEF Continue

\* A goroutine at rest takes a channel of the map to work on: to close it, which releases its
\* peer, or to reconnect it.
LEMMA TakeChannelIInv ==
  ASSUME DeliveryInv, NEW g \in Workers, NEW c \in Channel, Disconnect(g, c) \/ StartReconnection(g, c)
  PROVE  DeliveryInv'
<1> USE DEF DeliveryInv
<1>1. /\ UNCHANGED <<nextChannel, peerOf, channels>> /\ doing \in [Workers -> Operation]
      /\ doing[g].at = "idle" /\ doing[g].channel = 0 /\ c \in channels
  BY DEF DeliveryShape, Disconnect, StartReconnection, AtRest, wiringVars
<1>2. PICK at \in {"close", "drop"} :
        /\ doing' = [doing EXCEPT ![g] = [at |-> at, channel |-> c]]
        /\ protected' \subseteq protected
        /\ at = "close" => peerOf[c] \notin protected'
  BY DEF Disconnect, StartReconnection, AtRest, wiringVars
<1>3. c \in 1..nextChannel
  BY <1>1 DEF DeliveryShape
<1>4. DeliveryShape'
  BY <1>1, <1>2, <1>3 DEF DeliveryShape, Operation
<1>5. /\ \A h \in Workers \ {g} : doing'[h] = doing[h]
      /\ doing'[g].at = at /\ doing'[g].channel = c
  BY <1>1, <1>2
<1>6. Unshared'
  BY <1>1, <1>2, <1>5 DEF Unshared
<1>7. ASSUME NEW d \in 1..nextChannel, Held(d), d # c \/ at = "drop" PROVE Held(d)'
  BY <1>1, <1>2, <1>5, <1>7 DEF Held, Closing
<1>8. Protected'
  BY <1>1, <1>2, <1>7 DEF Protected
<1> QED  BY <1>4, <1>6, <1>8

\* Every step keeps the invariant; the loops look at no map and protect nobody.
LEMMA DeliveryNextInv == DeliveryInv /\ [DeliveryNext]_deliveryVars => DeliveryInv'
<1> SUFFICES ASSUME DeliveryInv, [DeliveryNext]_deliveryVars PROVE DeliveryInv'
  OBVIOUS
<1>1. ASSUME UNCHANGED <<nextChannel, channels, peerOf, protected, doing>> PROVE DeliveryInv'
  BY <1>1 DEF DeliveryInv, DeliveryShape, Operation, Unshared, Protected, Held
<1>2. CASE UNCHANGED deliveryVars
  BY <1>1, <1>2 DEF deliveryVars, wiringVars
<1>3. ASSUME NEW r \in Readers, LoopStep(r) PROVE DeliveryInv'
  BY <1>1, <1>3 DEF LoopStep, SleepOrGiveUp, DialFails, DialSucceeds, Rewire, Reconnected,
     AssignLast, wiringVars
<1>4. Users \subseteq Workers /\ Readers \subseteq Workers
  BY DEF Workers
<1> QED
  BY <1>2, <1>3, <1>4, OpenStreamIInv, ContinueIInv, TakeChannelIInv DEF DeliveryNext

\* Nobody protects a peer for ever: once no channel to it is known or being made, it is
\* released (libp2p_adapter.go, Connect and Disconnect).
THEOREM PeersReleased == DeliverySpec => []ProtectionReleased
<1>1. DeliveryInv => ProtectionReleased
  BY DEF DeliveryInv, Protected, ProtectionReleased, Held, Touched
<1> QED  BY <1>1, DeliveryInitInv, DeliveryNextInv, PTL DEF DeliverySpec

-----------------------------------------------------------------------------
(***************************************************************************)
(* A connected channel has its stream.  A channel that somebody is closing *)
(* is on its way out of the map, so the invariant speaks of the others,    *)
(* those that are Held: such a channel has an open stream, or a loop on it *)
(* that is still dialling, or one has given up.  While no two readers have *)
(* been on it, nothing that is read or assigned of its state is mixed with *)
(* what another assigns: it is CONNECTED and not given up, or in the hands *)
(* of the one reader, or given up and DISCONNECTED.  Streams are never     *)
(* shared, not even with one that a reader has dialled and not wired yet,  *)
(* so who closes a stream closes none of another channel.                  *)
(***************************************************************************)

On(r, c) == doing[r].channel = c \/ retry[r].channel = c

\* Where a reader is that works on a channel, and where its loop is.
Reconnecting == {"drop", "RECONNECTING", "restart"}
Dialling == {"sleep", "dial", "rewire"}
LoopStages == {"none", "report", "CONNECTED", "DISCONNECTED"} \cup Dialling

LoopShape ==
  /\ DOMAIN retry = Readers
  /\ \A r \in Readers : /\ {"at", "channel", "stream"} \subseteq DOMAIN retry[r]
                        /\ retry[r].at \in LoopStages
                        /\ retry[r].channel \in 0..nextChannel
  /\ nextStream \in Nat /\ stream \in [Channel -> Nat]
  /\ connState \in [Channel -> ConnectionState \cup {Torn}]
  /\ givenUp \subseteq 1..nextChannel

Roles ==
  /\ \A g \in Workers : doing[g].at = "idle" <=> doing[g].channel = 0
  /\ \A r \in Readers : /\ doing[r].at \in Reconnecting \cup {"idle"}
                        /\ doing[r].at # "idle" => retry[r].at = "none"
                        /\ retry[r].at = "none" <=> retry[r].channel = 0
  /\ \A g \in Users : doing[g].at \notin Reconnecting

Distinct ==
  /\ \A c \in 1..nextChannel : stream[c] \in 1..nextStream
  /\ \A c, d \in 1..nextChannel : c # d => stream[c] # stream[d]
  /\ \A r \in Readers : retry[r].at = "rewire" =>
       /\ retry[r].stream \in open /\ retry[r].stream \in 1..nextStream
       /\ \A c \in 1..nextChannel : stream[c] # retry[r].stream
       /\ \A q \in Readers : q # r /\ retry[q].at = "rewire" => retry[q].stream # retry[r].stream

\* What is known of a channel that nobody closes,
Streamed(c) ==
  \/ c \in givenUp
  \/ stream[c] \in open
  \/ \E r \in Readers : retry[r].channel = c /\ retry[r].at \in Dialling

\* and of one that no two readers have been on.
Alone(c) ==
  /\ \A r, q \in Readers : On(r, c) /\ On(q, c) => r = q
  /\ connState[c] \in {"CONNECTED", "RECONNECTING", "DISCONNECTED"}
  /\ connState[c] = "CONNECTED" => c \notin givenUp
  /\ \A r \in Readers : doing[r].channel = c =>
       /\ doing[r].at \in {"drop", "RECONNECTING"} => connState[c] = "CONNECTED"
       /\ doing[r].at = "restart" => connState[c] = "RECONNECTING" /\ c \notin givenUp
  /\ \A r \in Readers : retry[r].channel = c =>
       connState[c] = "RECONNECTING" /\ (c \in givenUp <=> retry[r].at = "DISCONNECTED")

WiringInv ==
  /\ LoopShape /\ Roles /\ Distinct
  /\ \A c \in 1..nextChannel : Held(c) => Streamed(c) /\ (c \notin contested => Alone(c))

LEMMA WiringInitInv == DeliveryInit => WiringInv
<1> SUFFICES ASSUME DeliveryInit PROVE WiringInv
  OBVIOUS
<1>1. LoopShape
  BY DEF DeliveryInit, LoopShape, NoLoop, ConnectionState, LoopStages
<1>2. Roles
  BY DEF DeliveryInit, Roles, AtRest, NoLoop, Workers, Reconnecting
<1>3. Distinct /\ \A c \in 1..nextChannel : FALSE
  BY DEF DeliveryInit, Distinct, NoLoop
<1> QED  BY <1>1, <1>2, <1>3 DEF WiringInv

\* What is read while nobody assigns anything that mixes with it is what there is,
LEMMA Finds ==
  ASSUME NEW c, NEW e, NEW found \in LookUps(c, e),
         \A s \in Assigning(c) : ~Mixes(connState[c], s)
  PROVE  found = Leads(connState[c], e)
BY DEF LookUps

\* and what is assigned while nobody assigns anything else is what there is afterwards.
LEMMA Assigns ==
  ASSUME NEW c, NEW next, Assign(c, next), connState[c] # Torn,
         \A s \in Assigning(c) : s = next
  PROVE  connState' = [connState EXCEPT ![c] = next]
<1>1. ~Mixes(next, next)
  BY DEF Mixes
<1> QED  BY <1>1 DEF Assign

\* Of a channel that nobody closes and no two readers are on, only its reader assigns a state.
LEMMA OnlyReaderAssigns ==
  ASSUME DeliveryInv, WiringInv, NEW c \in 1..nextChannel, Held(c), c \notin contested,
         NEW r \in Readers, On(r, c), NEW s \in Assigning(c)
  PROVE  \/ doing[r].channel = c /\ s = doing[r].at
         \/ retry[r].channel = c /\ s = retry[r].at
<1>1. \A q \in Readers : On(q, c) => q = r
  BY DEF WiringInv, Alone
<1>2. ASSUME NEW g \in Users, doing[g].channel = c PROVE doing[g].at \notin ConnectionState
  <2>1. g \in Workers /\ doing[g] \in Operation /\ doing[g].at \notin Reconnecting
    BY DEF Workers, DeliveryInv, DeliveryShape, WiringInv, Roles
  <2>2. doing[g].at \in {"idle", "register"} \cup Reconnecting
    BY <1>2, <2>1 DEF Held, DeliveryInv, Unshared, Closing, Operation, Reconnecting
  <2> QED  BY <2>1, <2>2 DEF ConnectionState
<1>3. CASE \E g \in Workers : doing[g].channel = c /\ s = doing[g].at /\ s \in ConnectionState
  BY <1>1, <1>2, <1>3 DEF Workers, On
<1>4. CASE \E q \in Readers : retry[q].channel = c /\ s = retry[q].at
  BY <1>1, <1>4 DEF On
<1> QED  BY <1>3, <1>4 DEF Assigning

\* Operations of a user: one channel at most is closed, one that nobody holds afterwards.
LEMMA UserWiring ==
  ASSUME DeliveryInv, WiringInv, NEW g \in Users, NEW op \in Operation,
         doing' = [doing EXCEPT ![g] = op], op.at \notin Reconnecting,
         op.at = "idle" <=> op.channel = 0,
         UNCHANGED <<nextChannel, nextStream, stream, retry, contested, givenUp>>,
         connState' \in [Channel -> ConnectionState \cup {Torn}],
         \A s \in open : s \in open' \/ \E x \in 1..nextChannel : s = stream[x],
         \A c \in 1..nextChannel : Held(c)' =>
           /\ Held(c) /\ connState'[c] = connState[c]
           /\ stream[c] \in open => stream[c] \in open'
  PROVE  WiringInv'
<1>1. g \in Workers /\ g \notin Readers /\ doing \in [Workers -> Operation] /\ Readers \subseteq Workers
  BY DeliveryAssumption DEF Workers, DeliveryInv, DeliveryShape
<1>2. /\ \A h \in Workers \ {g} : doing'[h] = doing[h]
      /\ doing'[g] = op
  BY <1>1
<1>3. \A r \in Readers : doing'[r] = doing[r]
  BY <1>1, <1>2
<1>4. LoopShape'
  BY DEF WiringInv, LoopShape
<1>5. Roles'
  BY <1>1, <1>2, <1>3 DEF WiringInv, Roles, Workers
<1>6. Distinct'
  <2>1. ASSUME NEW r \in Readers, retry[r].at = "rewire" PROVE retry[r].stream \in open'
    BY <2>1 DEF WiringInv, Distinct
  <2> QED  BY <2>1 DEF WiringInv, Distinct
<1>7. ASSUME NEW c \in 1..nextChannel, Held(c)'
      PROVE  Streamed(c)' /\ (c \notin contested' => Alone(c)')
  <2>1. Streamed(c) /\ (c \notin contested => Alone(c))
    BY <1>7 DEF WiringInv
  <2>2. Streamed(c)'
    BY <1>7, <2>1 DEF Streamed
  <2>3. ASSUME c \notin contested PROVE Alone(c)'
    BY <1>3, <1>7, <2>1, <2>3 DEF Alone, On
  <2> QED  BY <2>2, <2>3
<1> QED  BY <1>4, <1>5, <1>6, <1>7 DEF WiringInv

LEMMA UserStepWiring ==
  ASSUME DeliveryInv, WiringInv, NEW g \in Users,
         Continue(g) \/ \E c \in Channel : Disconnect(g, c)
  PROVE  WiringInv'
<1>1. g \in Workers /\ doing \in [Workers -> Operation] /\ doing[g] \in Operation
  BY DEF Workers, DeliveryInv, DeliveryShape
<1>2. PICK x \in 0..nextChannel : x = doing[g].channel
  BY <1>1 DEF Operation
<1>3. /\ connState \in [Channel -> ConnectionState \cup {Torn}] /\ AtRest \in Operation
      /\ AtRest.at = "idle" /\ AtRest.channel = 0 /\ nextChannel \in Nat
      /\ doing[g].at \notin Reconnecting
      /\ doing[g].at # "idle" => x \in 1..nextChannel
  <2>1. nextChannel \in Nat /\ connState \in [Channel -> ConnectionState \cup {Torn}]
    BY DeliveryAssumption DEF WiringInv, LoopShape, DeliveryInv, DeliveryShape
  <2>2. AtRest \in Operation /\ AtRest.at = "idle" /\ AtRest.channel = 0
    BY <2>1 DEF AtRest, Operation
  <2>3. doing[g].at \notin Reconnecting /\ (doing[g].at = "idle" <=> x = 0)
    BY <1>1, <1>2 DEF WiringInv, Roles
  <2>4. doing[g].at # "idle" => x \in 1..nextChannel
    BY <2>1, <2>3
  <2> QED  BY <2>1, <2>2, <2>3, <2>4
<1>4. CASE Register(g)
  <2>1. /\ doing[g].at = "register" /\ channels' = channels \cup {x}
        /\ doing' = [doing EXCEPT ![g] = AtRest]
        /\ UNCHANGED <<nextChannel, nextStream, connState, stream, open, retry, contested, givenUp>>
    BY <1>2, <1>4 DEF Register, historyVars
  <2>2. \A c \in 1..nextChannel : Held(c)' => Held(c)
    BY <1>1, <1>2, <1>3, <2>1 DEF Held, Closing
  <2>3. AtRest.at \notin Reconnecting
    BY <1>3 DEF Reconnecting
  <2> QED  BY <1>3, <2>1, <2>2, <2>3, UserWiring
<1>5. CASE CloseStream(g) \/ SetDisconnected(g) \/ AssignState(g)
  <2>1. PICK at \in {"disconnect", "DISCONNECTED", "delete"} :
          /\ doing' = [doing EXCEPT ![g].at = at]
          /\ doing[g].at \in Closing /\ channels' = channels
          /\ UNCHANGED <<nextChannel, nextStream, stream, retry, contested, givenUp>>
          /\ open' = open \/ open' = open \ {stream[x]}
    <3>1. CASE CloseStream(g)
      BY <1>2, <3>1 DEF CloseStream, Closing, historyVars
    <3>2. CASE SetDisconnected(g)
      BY <1>1, <3>2, SetDisconnectedDoes DEF Closing
    <3>3. CASE AssignState(g)
      BY <1>1, <1>3, <3>3, AssignStateDoes DEF Closing, Reconnecting
    <3> QED  BY <1>5, <3>1, <3>2, <3>3
  <2>2. doing[g].at \in Closing /\ channels' = channels
    BY <2>1
  <2>3. /\ connState' \in [Channel -> ConnectionState \cup {Torn}]
        /\ \A c \in Channel : c # x => connState'[c] = connState[c]
    <3>1. CASE connState' = connState
      BY <1>3, <3>1
    <3>2. CASE AssignState(g)
      <4>1. PICK s \in ConnectionState \cup {Torn} : connState' = [connState EXCEPT ![x] = s]
        BY <1>2, <3>2 DEF AssignState, Assign
      <4> QED  BY <1>3, <4>1
    <3> QED  BY <1>1, <1>5, <3>1, <3>2, SetDisconnectedDoes DEF CloseStream
  <2>5. PICK op \in Operation : /\ op.at = at /\ op.channel = x
                                /\ doing' = [doing EXCEPT ![g] = op]
    BY <1>1, <1>2, <2>1 DEF Operation
  <2>6. x \in 1..nextChannel /\ 1..nextChannel \subseteq Channel
    BY <1>3, <2>2, DeliveryAssumption DEF Closing, Channel, DeliveryInv, DeliveryShape
  <2>7. ASSUME NEW c \in 1..nextChannel, Held(c)'
        PROVE  Held(c) /\ c # x
    <3>1. c # x
      BY <1>1, <1>2, <2>1, <2>2, <2>5, <2>7, DeliveryAssumption
         DEF Held, Closing, DeliveryInv, Unshared
    <3> QED  BY <1>1, <1>2, <2>2, <2>5, <2>7, <3>1 DEF Held, Closing
  <2>8. \A c \in 1..nextChannel : c # x => stream[c] # stream[x]
    BY <2>6 DEF WiringInv, Distinct
  <2>9. \A s \in open : s \in open' \/ \E d \in 1..nextChannel : s = stream[d]
    BY <2>1, <2>6
  <2>10. \A c \in 1..nextChannel : Held(c)' =>
           /\ Held(c) /\ connState'[c] = connState[c]
           /\ stream[c] \in open => stream[c] \in open'
    BY <2>1, <2>3, <2>6, <2>7, <2>8
  <2>11. op.at \notin Reconnecting /\ (op.at = "idle" <=> op.channel = 0)
    BY <1>3, <2>1, <2>5, <2>6 DEF Reconnecting
  <2> QED  BY <2>1, <2>3, <2>5, <2>9, <2>10, <2>11, UserWiring
<1>6. CASE DeleteChannel(g)
  <2>1. /\ doing[g].at = "delete" /\ channels' = channels \ {x}
        /\ doing' = [doing EXCEPT ![g] = AtRest]
        /\ UNCHANGED <<nextChannel, nextStream, connState, stream, open, retry, contested, givenUp>>
    BY <1>2, <1>6 DEF DeleteChannel, historyVars
  <2>2. \A c \in 1..nextChannel : Held(c)' => Held(c)
    BY <1>1, <1>2, <1>3, <2>1 DEF Held, Closing
  <2>3. AtRest.at \notin Reconnecting
    BY <1>3 DEF Reconnecting
  <2> QED  BY <1>3, <2>1, <2>2, <2>3, UserWiring
<1>7. ASSUME NEW c \in Channel, Disconnect(g, c) PROVE WiringInv'
  <2> DEFINE op == [at |-> "close", channel |-> c]
  <2>1. /\ doing[g] = AtRest /\ c \in channels /\ channels' = channels
        /\ doing' = [doing EXCEPT ![g] = op]
        /\ UNCHANGED <<nextChannel, nextStream, connState, stream, open, retry, contested, givenUp>>
    BY <1>7 DEF Disconnect, historyVars
  <2>2. c \in 1..nextChannel
    BY <2>1 DEF DeliveryInv, DeliveryShape
  <2>3. op \in Operation /\ op.at = "close" /\ op.channel # 0 /\ op.at \notin Reconnecting
    BY <1>3, <2>2 DEF Operation, Reconnecting
  <2>4. \A d \in 1..nextChannel : Held(d)' => Held(d)
    BY <1>1, <1>3, <2>1, <2>3 DEF Held, Closing
  <2> HIDE DEF op
  <2> QED  BY <1>3, <2>1, <2>3, <2>4, UserWiring
<1>8. ~SetReconnecting(g) /\ ~LaunchLoop(g)
  BY <1>3 DEF SetReconnecting, LaunchLoop, Reconnecting
<1> QED
  BY <1>4, <1>5, <1>6, <1>7, <1>8 DEF Continue

\* A new channel is connected to its own new stream, and no reader knows it.
LEMMA OpenStreamWiring ==
  ASSUME DeliveryInv, WiringInv, NEW g \in Users, NEW p \in Peers, OpenStream(g, p)
  PROVE  WiringInv'
<1>1. PICK new \in Channel, s \in Nat :
        /\ new = nextChannel + 1 /\ s = nextStream + 1
        /\ new \notin 0..nextChannel /\ s \notin 1..nextStream
        /\ 1..nextChannel' = 1..nextChannel \cup {new} /\ 1..nextStream' = 1..nextStream \cup {s}
        /\ 0..nextChannel' = 0..nextChannel \cup {new} /\ 1..nextChannel \subseteq Channel
        /\ nextStream' \in Nat
  <2>1. nextChannel \in Nat /\ nextStream \in Nat /\ nextChannel + 1 \in Channel
    BY DeliveryAssumption DEF OpenStream, Channel, DeliveryInv, DeliveryShape, WiringInv, LoopShape
  <2>2. nextChannel' = nextChannel + 1 /\ nextStream' = nextStream + 1
    BY DEF OpenStream
  <2>3. \A n \in Nat : /\ n + 1 \notin 0..n /\ n + 1 \notin 1..n
                      /\ 1..(n + 1) = 1..n \cup {n + 1} /\ 0..(n + 1) = 0..n \cup {n + 1}
    OBVIOUS
  <2>4. 1..nextChannel \subseteq Channel
    BY <2>1, DeliveryAssumption DEF Channel
  <2> QED  BY <2>1, <2>2, <2>3, <2>4
<1>2. /\ g \in Workers /\ g \notin Readers /\ Readers \subseteq Workers
      /\ doing \in [Workers -> Operation]
  BY DeliveryAssumption DEF Workers, DeliveryInv, DeliveryShape
<1>3. /\ doing' = [doing EXCEPT ![g] = [at |-> "register", channel |-> new]]
      /\ stream' = [stream EXCEPT ![new] = s]
      /\ connState' = [connState EXCEPT ![new] = "CONNECTED"]
      /\ open' = open \cup {s} /\ UNCHANGED <<channels, retry, contested, givenUp>>
  BY <1>1, LeadsTo DEF OpenStream, historyVars
<1>4. /\ \A h \in Workers \ {g} : doing'[h] = doing[h]
      /\ doing'[g].at = "register" /\ doing'[g].channel = new
      /\ doing[g].at = "idle"
  BY <1>2, <1>3 DEF OpenStream, AtRest
<1>5. new # 0 /\ new \notin givenUp
  BY <1>1, DeliveryAssumption DEF Channel, WiringInv, LoopShape
<1>6. LoopShape'
  BY <1>1, <1>3 DEF WiringInv, LoopShape, ConnectionState
<1>7. \A r \in Readers : /\ doing'[r] = doing[r] /\ retry'[r] = retry[r]
                         /\ doing[r].channel # new /\ retry[r].channel # new
  BY <1>1, <1>2, <1>3, <1>4 DEF Operation, WiringInv, LoopShape
<1>8. Roles'
  <2>1. \A h \in Workers : doing'[h].at = "idle" <=> doing'[h].channel = 0
    BY <1>4, <1>5 DEF WiringInv, Roles
  <2>2. \A h \in Users : doing'[h].at \notin Reconnecting
    BY <1>4 DEF WiringInv, Roles, Workers, Reconnecting
  <2> QED  BY <1>7, <2>1, <2>2 DEF WiringInv, Roles
<1>9. \A c \in 1..nextChannel : stream'[c] = stream[c] /\ connState'[c] = connState[c] /\ c # new
  BY <1>1, <1>3 DEF WiringInv, LoopShape
<1>10. stream'[new] = s /\ connState'[new] = "CONNECTED"
  BY <1>3 DEF WiringInv, LoopShape
<1>11. Distinct'
  BY <1>1, <1>3, <1>7, <1>9, <1>10 DEF WiringInv, Distinct
<1>12. \A c \in 1..nextChannel' : Held(c)' => Streamed(c)' /\ (c \notin contested' => Alone(c)')
  <2>1. Streamed(new)' /\ Alone(new)'
    BY <1>3, <1>5, <1>7, <1>10 DEF Streamed, Alone, On
  <2>2. ASSUME NEW c \in 1..nextChannel, Held(c)'
        PROVE  Streamed(c)' /\ (c \notin contested' => Alone(c)')
    <3>1. Held(c)
      BY <1>2, <1>3, <1>4, <1>9, <2>2 DEF Held, Closing
    <3>2. Streamed(c) /\ (c \notin contested => Alone(c))
      BY <3>1 DEF WiringInv
    <3>3. Streamed(c)'
      BY <1>3, <1>7, <1>9, <3>2 DEF Streamed
    <3>4. c \notin contested => Alone(c)'
      BY <1>3, <1>7, <1>9, <3>2 DEF Alone, On
    <3> QED  BY <1>3, <3>3, <3>4
  <2> QED  BY <1>1, <2>1, <2>2
<1> QED  BY <1>6, <1>8, <1>11, <1>12 DEF WiringInv

\* A reader's step before its loop: it keeps to one channel, and to that channel's state.
LEMMA ReaderWiring ==
  ASSUME DeliveryInv, WiringInv, NEW r \in Readers, NEW c \in 1..nextChannel, NEW op \in Operation,
         doing' = [doing EXCEPT ![r] = op], op.channel = c, op.at \in Reconnecting,
         doing[r].at \in Reconnecting \cup {"idle"}, retry[r].at = "none",
         UNCHANGED <<nextChannel, nextStream, channels, stream, open, retry, givenUp>>,
         contested \subseteq contested',
         connState' \in [Channel -> ConnectionState \cup {Torn}],
         \A d \in Channel : d # c => connState'[d] = connState[d],
         doing[r].channel \in {0, c},
         Held(c) /\ c \notin contested' => Alone(c)'
  PROVE  WiringInv'
<1>1. /\ r \in Workers /\ doing \in [Workers -> Operation] /\ 1..nextChannel \subseteq Channel
      /\ Readers \subseteq Workers /\ Users \subseteq Workers /\ r \notin Users /\ c # 0
      /\ nextChannel \in Nat
  BY DeliveryAssumption DEF Workers, DeliveryInv, DeliveryShape, Channel
<1>2. /\ \A h \in Workers \ {r} : doing'[h] = doing[h]
      /\ doing'[r] = op
  BY <1>1
<1>3. LoopShape' /\ Distinct'
  BY DEF WiringInv, LoopShape, Distinct
<1>4. Roles'
  <2>1. op.at # "idle"
    BY DEF Reconnecting
  <2> QED  BY <1>1, <1>2, <2>1 DEF WiringInv, Roles
<1>5. ASSUME NEW d \in 1..nextChannel, Held(d)'
      PROVE  Streamed(d)' /\ (d \notin contested' => Alone(d)')
  <2>1. Held(d)
    BY <1>1, <1>2, <1>5 DEF Held, Closing, Reconnecting
  <2>2. Streamed(d) /\ (d \notin contested => Alone(d))
    BY <2>1 DEF WiringInv
  <2>3. Streamed(d)'
    BY <2>2 DEF Streamed
  <2>4. ASSUME d # c, d \notin contested' PROVE Alone(d)'
    <3>1. Alone(d) /\ connState'[d] = connState[d]
      BY <1>1, <2>2, <2>4
    <3>2. \A q \in Readers : /\ doing'[q].channel = d => doing'[q] = doing[q]
                             /\ On(q, d)' => On(q, d)
      BY <1>1, <1>2, <2>4 DEF On
    <3> QED  BY <3>1, <3>2 DEF Alone
  <2> QED  BY <2>1, <2>3, <2>4
<1> QED  BY <1>3, <1>4, <1>5 DEF WiringInv

\* The first reader on a channel finds it connected, and takes the old stream away.
LEMMA ReaderStepWiring ==
  ASSUME DeliveryInv, WiringInv, NEW r \in Readers,
         Continue(r) \/ \E c \in Channel : StartReconnection(r, c)
  PROVE  WiringInv'
<1>1. /\ r \in Workers /\ doing \in [Workers -> Operation] /\ doing[r] \in Operation
      /\ Readers \subseteq Workers /\ Users \subseteq Workers /\ r \notin Users
  BY DeliveryAssumption DEF Workers, DeliveryInv, DeliveryShape
<1>2. /\ nextChannel \in Nat /\ 1..nextChannel \subseteq Channel
      /\ connState \in [Channel -> ConnectionState \cup {Torn}]
      /\ doing[r].at \in Reconnecting \cup {"idle"}
      /\ doing[r].at = "idle" <=> doing[r].channel = 0
      /\ doing[r].at # "idle" => retry[r].at = "none" /\ retry[r].channel = 0
  BY <1>1, DeliveryAssumption
     DEF WiringInv, LoopShape, Roles, DeliveryInv, DeliveryShape, Channel
<1>3. ASSUME NEW c \in Channel, StartReconnection(r, c) PROVE WiringInv'
  <2> DEFINE op == [at |-> "drop", channel |-> c]
  <2>1. /\ doing[r].at = "idle" /\ doing[r].channel = 0 /\ retry[r].at = "none"
        /\ c \in channels /\ connState[c] \in {"CONNECTED", "RELAYING"}
        /\ doing' = [doing EXCEPT ![r] = op]
        /\ UNCHANGED <<nextChannel, nextStream, channels, connState, stream, open, retry, givenUp>>
        /\ contested \subseteq contested'
    BY <1>3 DEF StartReconnection, AtRest, wiringVars
  <2>2. c \in 1..nextChannel /\ c # 0 /\ retry[r].channel = 0
    BY <1>2, <2>1 DEF DeliveryInv, DeliveryShape, WiringInv, Roles
  <2>3. op \in Operation /\ op.channel = c /\ op.at = "drop" /\ op.at \in Reconnecting
    BY <1>2, <2>2 DEF Operation, Reconnecting
  <2> HIDE DEF op
  <2>4. /\ \A h \in Workers \ {r} : doing'[h] = doing[h]
        /\ doing'[r].at = "drop" /\ doing'[r].channel = c
    BY <1>1, <2>1, <2>3
  <2>5. ASSUME Held(c), c \notin contested' PROVE Alone(c)'
    <3>1. Alone(c) /\ connState[c] = "CONNECTED"
      BY <2>1, <2>2, <2>5 DEF WiringInv, Alone
    <3>2. \A q \in Readers : q # r => ~On(q, c)
      BY <1>3, <2>5 DEF StartReconnection, On
    <3>3. \A q \in Readers : q # r => ~On(q, c)'
      BY <1>1, <2>1, <2>4, <3>2 DEF On
    <3>4. \A q \in Readers : doing'[q].channel = c => q = r
      BY <3>3 DEF On
    <3>5. \A q \in Readers : retry[q].channel # c
      BY <2>2, <3>2 DEF On
    <3> QED  BY <2>1, <2>4, <3>1, <3>3, <3>4, <3>5 DEF Alone
  <2> QED  BY <1>2, <2>1, <2>2, <2>3, <2>5, ReaderWiring
<1>4. CASE SetReconnecting(r)
  <2>1. PICK c \in 1..nextChannel : c = doing[r].channel
    BY <1>1, <1>2, <1>4 DEF SetReconnecting, Operation
  <2>2. PICK at \in {"RECONNECTING", "restart"} : doing' = [doing EXCEPT ![r].at = at]
    BY <1>1, <1>4, SetReconnectingDoes
  <2>3. /\ UNCHANGED <<nextChannel, nextStream, channels, stream, open, retry>>
        /\ UNCHANGED <<connState, contested, givenUp>>
        /\ doing[r].at = "drop" /\ retry[r].at = "none" /\ retry[r].channel = 0
    BY <1>1, <1>2, <1>4, SetReconnectingDoes
  <2>4. PICK op \in Operation : /\ op.at = at /\ op.channel = c
                                /\ doing' = [doing EXCEPT ![r] = op]
    BY <1>1, <2>1, <2>2 DEF Operation
  <2>5. op.at \in Reconnecting
    BY <2>4 DEF Reconnecting
  <2>6. /\ \A h \in Workers \ {r} : doing'[h] = doing[h]
        /\ doing'[r].at = at /\ doing'[r].channel = c
    BY <1>1, <2>4
  <2>7. ASSUME Held(c), c \notin contested PROVE Alone(c)'
    <3>1. Alone(c) /\ On(r, c)
      BY <2>1, <2>7 DEF WiringInv, On
    <3>2. connState[c] = "CONNECTED"
      BY <2>1, <2>3, <3>1 DEF Alone
    <3>3. Assigning(c) = {}
      <4>1. ASSUME NEW s \in Assigning(c) PROVE FALSE
        <5>1. s = "drop" /\ s \in ConnectionState
          BY <2>1, <2>3, <2>7, <3>1, <4>1, OnlyReaderAssigns DEF Assigning
        <5> QED  BY <5>1 DEF ConnectionState
      <4> QED  BY <4>1
    <3>4. at = "RECONNECTING"
      <4>1. PICK found \in LookUps(c, "TRANSPORT_DROP") :
              \/ \E next \in found : doing' = [doing EXCEPT ![r].at = next]
              \/ found = {}
        BY <1>4, <2>1 DEF SetReconnecting
      <4>2. found = {"RECONNECTING"}
        BY <3>2, <3>3, Finds, LeadsTo
      <4>3. doing' = [doing EXCEPT ![r].at = "RECONNECTING"]
        BY <4>1, <4>2
      <4>4. doing'[r].at = "RECONNECTING"
        BY <1>1, <4>3 DEF Operation
      <4> QED  BY <2>6, <4>4
    <3>5. \A q \in Readers : On(q, c)' => q = r
      BY <1>1, <2>3, <2>6, <3>1 DEF Alone, On
    <3>6. \A q \in Readers : doing'[q].channel = c => q = r
      BY <3>5 DEF On
    <3>7. \A q \in Readers : retry[q].channel # c
      BY <2>3, <3>1, <2>1 DEF Alone, On
    <3> QED  BY <2>3, <2>6, <3>1, <3>2, <3>4, <3>5, <3>6, <3>7 DEF Alone
  <2> QED  BY <1>2, <2>1, <2>3, <2>4, <2>5, <2>7, ReaderWiring
<1>5. CASE AssignState(r)
  <2>1. PICK c \in 1..nextChannel : c = doing[r].channel
    BY <1>1, <1>2, <1>5 DEF AssignState, ConnectionState, Operation
  <2>2. /\ doing[r].at = "RECONNECTING" /\ doing' = [doing EXCEPT ![r].at = "restart"]
        /\ UNCHANGED <<nextChannel, nextStream, channels, stream, open, retry, contested, givenUp>>
        /\ retry[r].at = "none" /\ retry[r].channel = 0
    BY <1>1, <1>2, <1>5, AssignStateDoes DEF Reconnecting
  <2>3. PICK op \in Operation : /\ op.at = "restart" /\ op.channel = c
                                /\ doing' = [doing EXCEPT ![r] = op]
    BY <1>1, <2>1, <2>2 DEF Operation
  <2>4. op.at \in Reconnecting
    BY <2>3 DEF Reconnecting
  <2>5. /\ \A h \in Workers \ {r} : doing'[h] = doing[h]
        /\ doing'[r].at = "restart" /\ doing'[r].channel = c
    BY <1>1, <2>3
  <2>6. /\ connState' \in [Channel -> ConnectionState \cup {Torn}]
        /\ \A d \in Channel : d # c => connState'[d] = connState[d]
    <3>1. PICK s \in ConnectionState \cup {Torn} : connState' = [connState EXCEPT ![c] = s]
      BY <1>5, <2>1 DEF AssignState, Assign
    <3> QED  BY <1>2, <3>1
  <2>7. ASSUME Held(c), c \notin contested PROVE Alone(c)'
    <3>1. Alone(c) /\ On(r, c)
      BY <2>1, <2>7 DEF WiringInv, On
    <3>2. connState[c] = "CONNECTED" /\ c \notin givenUp
      BY <2>1, <2>2, <3>1 DEF Alone
    <3>3. \A s \in Assigning(c) : s = "RECONNECTING"
      BY <2>1, <2>2, <2>7, <3>1, OnlyReaderAssigns
    <3>4. connState' = [connState EXCEPT ![c] = "RECONNECTING"]
      BY <1>5, <2>1, <2>2, <3>2, <3>3, Assigns DEF AssignState, Torn
    <3>5. \A q \in Readers : On(q, c)' => q = r
      BY <1>1, <2>2, <2>5, <3>1 DEF Alone, On
    <3>6. \A q \in Readers : doing'[q].channel = c => q = r
      BY <3>5 DEF On
    <3>7. \A q \in Readers : retry[q].channel # c
      BY <2>1, <2>2, <3>1 DEF Alone, On
    <3>8. connState'[c] = "RECONNECTING"
      BY <1>2, <2>1, <3>4
    <3> QED  BY <2>2, <2>5, <3>2, <3>5, <3>6, <3>7, <3>8 DEF Alone
  <2> QED  BY <1>2, <2>1, <2>2, <2>3, <2>4, <2>6, <2>7, ReaderWiring
<1>6. CASE LaunchLoop(r)
  <2>1. PICK c \in 1..nextChannel : c = doing[r].channel
    BY <1>1, <1>2, <1>6 DEF LaunchLoop, Operation
  <2>2. /\ doing[r].at = "restart" /\ retry[r].channel = 0 /\ retry[r].at = "none"
        /\ doing' = [doing EXCEPT ![r] = AtRest]
        /\ open' = open \ {stream[c]}
        /\ retry' = [retry EXCEPT ![r] = [NoLoop EXCEPT !.at = "sleep", !.channel = c]]
        /\ UNCHANGED <<nextChannel, nextStream, channels, stream, connState, contested, givenUp>>
    BY <1>2, <1>6, <2>1 DEF LaunchLoop, historyVars
  <2>3. /\ \A h \in Workers \ {r} : doing'[h] = doing[h]
        /\ doing'[r].at = "idle" /\ doing'[r].channel = 0
        /\ \A q \in Readers \ {r} : retry'[q] = retry[q]
        /\ retry'[r].at = "sleep" /\ retry'[r].channel = c
        /\ DOMAIN retry' = Readers
        /\ {"at", "channel", "stream"} \subseteq DOMAIN retry'[r]
    BY <1>1, <2>2 DEF AtRest, NoLoop, WiringInv, LoopShape
  <2>4. LoopShape'
    BY <1>2, <2>1, <2>2, <2>3 DEF WiringInv, LoopShape, LoopStages, Dialling
  <2>5. Roles'
    <3>1. \A h \in Workers : doing'[h].at = "idle" <=> doing'[h].channel = 0
      BY <2>3 DEF WiringInv, Roles
    <3>2. \A h \in Users : doing'[h].at \notin Reconnecting
      BY <1>1, <2>3 DEF WiringInv, Roles
    <3>3. \A q \in Readers : /\ doing'[q].at \in Reconnecting \cup {"idle"}
                             /\ doing'[q].at # "idle" => retry'[q].at = "none"
                             /\ retry'[q].at = "none" <=> retry'[q].channel = 0
      BY <1>1, <2>1, <2>3 DEF WiringInv, Roles
    <3> QED  BY <3>1, <3>2, <3>3 DEF Roles
  <2>6. Distinct'
    BY <2>1, <2>2, <2>3 DEF WiringInv, Distinct
  <2>7. ASSUME NEW d \in 1..nextChannel, Held(d)'
        PROVE  Streamed(d)' /\ (d \notin contested' => Alone(d)')
    <3>1. Held(d)
      BY <1>1, <2>1, <2>2, <2>3, <2>7 DEF Held, Closing
    <3>2. Streamed(d) /\ (d \notin contested => Alone(d))
      BY <3>1 DEF WiringInv
    <3>3. Streamed(d)'
      <4>1. CASE d = c
        BY <2>3, <4>1 DEF Streamed, Dialling
      <4>2. CASE d # c
        <5>1. stream[d] # stream[c]
          BY <2>1, <4>2 DEF WiringInv, Distinct
        <5>2. \A q \in Readers : retry[q].channel = d => retry'[q] = retry[q]
          BY <2>1, <2>2, <2>3
        <5> QED  BY <2>2, <3>2, <5>1, <5>2 DEF Streamed
      <4> QED  BY <4>1, <4>2
    <3>4. ASSUME d \notin contested PROVE Alone(d)'
      <4>1. Alone(d)
        BY <3>2, <3>4
      <4>2. \A q \in Readers : On(q, d)' => On(q, d)
        BY <1>1, <2>1, <2>3 DEF On
      <4>3. \A q \in Readers : doing'[q].channel = d => doing'[q] = doing[q]
        BY <1>1, <2>1, <2>3
      <4>4. \A q \in Readers : retry'[q].channel = d =>
              connState[d] = "RECONNECTING" /\ (d \in givenUp <=> retry'[q].at = "DISCONNECTED")
        BY <2>1, <2>2, <2>3, <4>1 DEF Alone
      <4> QED  BY <2>2, <4>1, <4>2, <4>3, <4>4 DEF Alone
    <3> QED  BY <2>2, <3>3, <3>4
  <2> QED  BY <2>2, <2>4, <2>5, <2>6, <2>7 DEF WiringInv
<1>7. ~(Register(r) \/ CloseStream(r) \/ SetDisconnected(r) \/ DeleteChannel(r))
  BY <1>2 DEF Register, CloseStream, SetDisconnected, DeleteChannel, Reconnecting
<1> QED
  BY <1>3, <1>4, <1>5, <1>6, <1>7 DEF Continue

\* A step of the loop of channel c keeps to that channel: what it wires or dials is no other
\* channel's, and if it is done the channel has a stream or is given up.
LEMMA LoopWiring ==
  ASSUME DeliveryInv, WiringInv, NEW r \in Readers, NEW c \in 1..nextChannel,
         c = retry[r].channel,
         UNCHANGED <<nextChannel, channels, doing, contested>>,
         nextStream' \in Nat, open \subseteq open',
         givenUp' = givenUp \/ givenUp' = givenUp \cup {c},
         \A q \in Readers : q # r => retry'[q] = retry[q],
         DOMAIN retry' = Readers, {"at", "channel", "stream"} \subseteq DOMAIN retry'[r],
         retry'[r].at \in LoopStages,
         retry'[r].at = "none" <=> retry'[r].channel = 0,
         retry'[r].channel \in {0, c},
         stream' \in [Channel -> Nat], connState' \in [Channel -> ConnectionState \cup {Torn}],
         \A d \in Channel : d # c => stream'[d] = stream[d] /\ connState'[d] = connState[d],
         Distinct',
         Held(c) => Streamed(c)',
         Held(c) /\ c \notin contested =>
           /\ connState'[c] \in {"CONNECTED", "RECONNECTING", "DISCONNECTED"}
           /\ connState'[c] = "CONNECTED" => c \notin givenUp'
           /\ retry'[r].channel = c =>
                connState'[c] = "RECONNECTING" /\ (c \in givenUp' <=> retry'[r].at = "DISCONNECTED")
  PROVE  WiringInv'
<1>1. /\ nextChannel \in Nat /\ c \in Channel /\ c # 0 /\ 1..nextChannel \subseteq Channel
      /\ r \in Workers /\ 0 \in 0..nextChannel /\ c \in 0..nextChannel
  BY DeliveryAssumption DEF DeliveryInv, DeliveryShape, Channel, Workers
<1>2. LoopShape'
  BY <1>1 DEF WiringInv, LoopShape
<1>3. Roles'
  <2>1. \A q \in Readers : doing[q].at # "idle" => retry'[q].at = "none"
    BY <1>1 DEF WiringInv, Roles
  <2> QED  BY <2>1 DEF WiringInv, Roles
<1>4. doing[r].channel # c /\ On(r, c)
  BY <1>1 DEF WiringInv, Roles, On
<1>5. ASSUME NEW d \in 1..nextChannel, Held(d)'
      PROVE  Streamed(d)' /\ (d \notin contested' => Alone(d)')
  <2>1. Held(d)
    BY <1>5 DEF Held
  <2>2. Streamed(d) /\ (d \notin contested => Alone(d))
    BY <2>1 DEF WiringInv
  <2>3. CASE d = c
    <3>1. ASSUME d \notin contested PROVE Alone(d)'
      <4>1. \A q \in Readers : On(q, c) => q = r
        BY <1>4, <2>2, <2>3, <3>1 DEF Alone
      <4>2. \A q \in Readers : /\ On(q, c)' => q = r
                               /\ doing'[q].channel # c
                               /\ retry'[q].channel = c => q = r
        BY <1>4, <4>1 DEF On
      <4> QED  BY <2>1, <2>3, <3>1, <4>2 DEF Alone
    <3> QED  BY <2>1, <2>3, <3>1
  <2>4. CASE d # c
    <3>1. /\ connState'[d] = connState[d] /\ stream'[d] = stream[d]
          /\ \A q \in Readers : retry[q].channel = d <=> retry'[q].channel = d
          /\ \A q \in Readers : retry[q].channel = d => retry'[q] = retry[q]
          /\ d \in givenUp' <=> d \in givenUp
      BY <1>1, <2>4
    <3>2. Streamed(d)'
      BY <2>2, <3>1 DEF Streamed
    <3>3. ASSUME d \notin contested PROVE Alone(d)'
      <4>1. \A q \in Readers : On(q, d)' <=> On(q, d)
        BY <3>1 DEF On
      <4> QED  BY <2>2, <3>1, <3>3, <4>1 DEF Alone
    <3> QED  BY <3>2, <3>3
  <2> QED  BY <2>3, <2>4
<1> QED  BY <1>2, <1>3, <1>5 DEF WiringInv

\* The last event of a loop leads to one state, or to none and the loop is done.
LEMMA LoopEndsDoes ==
  ASSUME NEW r \in Readers, DOMAIN retry = Readers,
         {"at", "channel", "stream"} \subseteq DOMAIN retry[r],
         NEW e, NEW s, NEW t, <<e, t>> \in {<<"BACKOFF_EXHAUSTED", "DISCONNECTED">>,
                                            <<"RECONNECT_DIRECT", "CONNECTED">>},
         s = retry[r].channel, LoopEnds(r, e)
  PROVE  /\ \A q \in Readers : q # r => retry'[q] = retry[q]
         /\ DOMAIN retry' = Readers /\ {"at", "channel", "stream"} \subseteq DOMAIN retry'[r]
         /\ \/ retry'[r] = NoLoop
            \/ retry'[r].at = t /\ retry'[r].channel = s
         /\ LookUps(s, e) = {{t}} => retry'[r].at = t /\ retry'[r].channel = s
<1>1. PICK found \in LookUps(s, e) :
        \/ \E next \in found : retry' = [retry EXCEPT ![r].at = next]
        \/ found = {} /\ retry' = [retry EXCEPT ![r] = NoLoop]
  BY DEF LoopEnds
<1>2. CASE \E next \in found : retry' = [retry EXCEPT ![r].at = next]
  <2>1. retry' = [retry EXCEPT ![r].at = t]
    BY <1>2, LooksUp
  <2> QED  BY <2>1
<1>3. CASE found = {} /\ retry' = [retry EXCEPT ![r] = NoLoop]
  <2>1. retry'[r] = NoLoop /\ \A q \in Readers : q # r => retry'[q] = retry[q]
    BY <1>3
  <2>2. DOMAIN retry' = Readers /\ {"at", "channel", "stream"} \subseteq DOMAIN NoLoop
    BY <1>3 DEF NoLoop
  <2>3. LookUps(s, e) # {{t}}
    BY <1>1, <1>3
  <2> QED  BY <2>1, <2>2, <2>3
<1> QED  BY <1>1, <1>2, <1>3

LEMMA LoopStepWiring ==
  ASSUME DeliveryInv, WiringInv, NEW r \in Readers, LoopStep(r)
  PROVE  WiringInv'
<1>1. /\ retry[r].at \in {"sleep", "dial", "rewire", "report"} \cup ConnectionState
      /\ UNCHANGED <<nextChannel, channels, doing, contested>>
  BY DEF LoopStep, SleepOrGiveUp, DialFails, DialSucceeds, Rewire, Reconnected, AssignLast,
     wiringVars, historyVars
<1>2. PICK c \in 1..nextChannel : c = retry[r].channel
  <2>1. nextChannel \in Nat /\ retry[r].at # "none"
    BY <1>1, DeliveryAssumption DEF DeliveryInv, DeliveryShape, ConnectionState
  <2> QED  BY <2>1 DEF WiringInv, LoopShape, Roles
<1>3. /\ DOMAIN retry = Readers /\ {"at", "channel", "stream"} \subseteq DOMAIN retry[r]
      /\ nextStream \in Nat /\ stream \in [Channel -> Nat] /\ retry[r].at \in LoopStages
      /\ connState \in [Channel -> ConnectionState \cup {Torn}]
      /\ c \in Channel /\ c # 0
      /\ NoLoop.at = "none" /\ NoLoop.channel = 0
      /\ {"at", "channel", "stream"} \subseteq DOMAIN NoLoop
  BY <1>2, DeliveryAssumption
     DEF WiringInv, LoopShape, DeliveryInv, DeliveryShape, Channel, NoLoop
<1>4. /\ Held(c) => Streamed(c)
      /\ Held(c) /\ c \notin contested =>
           /\ connState[c] = "RECONNECTING"
           /\ c \in givenUp <=> retry[r].at = "DISCONNECTED"
  BY <1>2 DEF WiringInv, Alone
<1>5. Distinct
  BY DEF WiringInv
\* what is looked up, or assigned, by the one reader of a channel
<1>6. ASSUME Held(c), c \notin contested, retry[r].at \notin ConnectionState,
             NEW e, NEW found \in LookUps(c, e)
      PROVE  found = Leads("RECONNECTING", e)
  <2>1. On(r, c) /\ doing[r].channel # c
    BY <1>1, <1>2, <1>3 DEF On, WiringInv, Roles, Workers
  <2>2. \A s \in Assigning(c) : s = retry[r].at /\ s \in ConnectionState
    BY <1>6, <2>1, OnlyReaderAssigns DEF Assigning
  <2> QED  BY <1>4, <1>6, <2>2, Finds
<1>7. CASE SleepOrGiveUp(r)
  <2>1. UNCHANGED <<nextStream, stream, open, connState>> /\ retry[r].at = "sleep"
    BY <1>7 DEF SleepOrGiveUp, wiringVars
  <2>2. CASE LoopEnds(r, "BACKOFF_EXHAUSTED") /\ givenUp' = givenUp \cup {c}
    <3>1. /\ \A q \in Readers : q # r => retry'[q] = retry[q]
          /\ DOMAIN retry' = Readers /\ {"at", "channel", "stream"} \subseteq DOMAIN retry'[r]
          /\ \/ retry'[r] = NoLoop
             \/ retry'[r].at = "DISCONNECTED" /\ retry'[r].channel = c
          /\ LookUps(c, "BACKOFF_EXHAUSTED") = {{"DISCONNECTED"}} =>
               retry'[r].at = "DISCONNECTED" /\ retry'[r].channel = c
      BY <1>2, <1>3, <2>2, LoopEndsDoes
    <3>2. /\ retry'[r].at \in LoopStages /\ retry'[r].at # "rewire"
          /\ retry'[r].at = "none" <=> retry'[r].channel = 0
          /\ retry'[r].channel \in {0, c}
      BY <1>3, <3>1 DEF LoopStages
    <3>3. Distinct'
      BY <1>1, <1>3, <1>5, <2>1, <3>1, <3>2 DEF Distinct
    <3>4. Streamed(c)'
      BY <2>2 DEF Streamed
    <3>5. Held(c) /\ c \notin contested =>
            retry'[r].at = "DISCONNECTED" /\ c \in givenUp' /\ connState'[c] = "RECONNECTING"
      <4> SUFFICES ASSUME Held(c), c \notin contested
                   PROVE  retry'[r].at = "DISCONNECTED" /\ c \in givenUp'
                          /\ connState'[c] = "RECONNECTING"
        OBVIOUS
      <4>1. retry[r].at \notin ConnectionState
        BY <2>1 DEF ConnectionState
      <4>2. \A found \in LookUps(c, "BACKOFF_EXHAUSTED") : found = {"DISCONNECTED"}
        BY <1>6, <4>1, LeadsTo
      <4>3. LookUps(c, "BACKOFF_EXHAUSTED") # {}
        BY DEF LookUps
      <4>4. LookUps(c, "BACKOFF_EXHAUSTED") = {{"DISCONNECTED"}}
        BY <4>2, <4>3
      <4> QED  BY <1>4, <2>1, <2>2, <3>1, <4>4
    <3> QED  BY <1>1, <1>2, <1>3, <2>1, <2>2, <3>1, <3>2, <3>3, <3>4, <3>5, LoopWiring
  <2>3. CASE /\ retry' = [retry EXCEPT ![r].at = "dial",
                                       ![r].elapsed = @ + NextDelay(retry[r].attempt)]
             /\ UNCHANGED givenUp
    <3>1. /\ \A q \in Readers : q # r => retry'[q] = retry[q]
          /\ retry'[r].at = "dial" /\ retry'[r].channel = c /\ DOMAIN retry' = Readers
          /\ {"at", "channel", "stream"} \subseteq DOMAIN retry'[r]
      BY <1>2, <1>3, <2>3
    <3>2. Distinct'
      BY <1>1, <1>3, <1>5, <2>1, <3>1 DEF Distinct
    <3>3. Streamed(c)' /\ retry'[r].at \in LoopStages
      BY <3>1 DEF Streamed, Dialling, LoopStages
    <3> QED  BY <1>1, <1>2, <1>3, <1>4, <2>1, <2>3, <3>1, <3>2, <3>3, LoopWiring
  <2> QED  BY <1>2, <1>7, <2>2, <2>3 DEF SleepOrGiveUp
<1>8. CASE DialFails(r)
  <2>1. UNCHANGED <<nextStream, stream, open, connState, givenUp>> /\ retry[r].at = "dial"
    BY <1>8 DEF DialFails, wiringVars, historyVars
  <2>2. /\ \A q \in Readers : q # r => retry'[q] = retry[q]
        /\ retry'[r].at = "sleep" /\ retry'[r].channel = c /\ DOMAIN retry' = Readers
        /\ {"at", "channel", "stream"} \subseteq DOMAIN retry'[r]
    BY <1>2, <1>3, <1>8 DEF DialFails
  <2>3. Distinct'
    BY <1>1, <1>3, <1>5, <2>1, <2>2 DEF Distinct
  <2>4. Streamed(c)' /\ retry'[r].at \in LoopStages
    BY <2>2 DEF Streamed, Dialling, LoopStages
  <2> QED  BY <1>1, <1>2, <1>3, <1>4, <2>1, <2>2, <2>3, <2>4, LoopWiring
<1>9. CASE DialSucceeds(r)
  <2>1. PICK s \in Nat :
          /\ s = nextStream + 1 /\ nextStream' = s /\ s \notin 1..nextStream
          /\ 1..s = 1..nextStream \cup {s} /\ open' = open \cup {s}
    BY <1>3, <1>9 DEF DialSucceeds
  <2>2. UNCHANGED <<stream, connState, givenUp>> /\ retry[r].at = "dial"
    BY <1>9 DEF DialSucceeds, historyVars
  <2>3. /\ \A q \in Readers : q # r => retry'[q] = retry[q]
        /\ retry'[r].at = "rewire" /\ retry'[r].channel = c /\ retry'[r].stream = s
        /\ DOMAIN retry' = Readers
        /\ {"at", "channel", "stream"} \subseteq DOMAIN retry'[r]
    BY <1>2, <1>3, <1>9, <2>1 DEF DialSucceeds
  <2>4. Distinct'
    BY <1>1, <1>3, <1>5, <2>1, <2>2, <2>3 DEF Distinct
  <2>5. Streamed(c)' /\ retry'[r].at \in LoopStages
    BY <2>3 DEF Streamed, Dialling, LoopStages
  <2> QED  BY <1>1, <1>2, <1>3, <1>4, <2>1, <2>2, <2>3, <2>4, <2>5, LoopWiring
<1>10. CASE Rewire(r)
  <2>1. PICK s \in Nat : s = retry[r].stream
    BY <1>3, <1>5, <1>10 DEF Rewire, Distinct
  <2>2. /\ retry[r].at = "rewire" /\ UNCHANGED <<nextStream, open, connState, givenUp>>
        /\ stream' = [stream EXCEPT ![c] = s]
        /\ retry' = [retry EXCEPT ![r].at = "report"]
    BY <1>2, <1>10, <2>1 DEF Rewire, historyVars
  <2>3. /\ \A q \in Readers : q # r => retry'[q] = retry[q]
        /\ retry'[r].at = "report" /\ retry'[r].channel = c /\ DOMAIN retry' = Readers
        /\ {"at", "channel", "stream"} \subseteq DOMAIN retry'[r]
    BY <1>2, <1>3, <2>2
  <2>4. /\ stream' \in [Channel -> Nat] /\ stream'[c] = s
        /\ \A d \in Channel : d # c => stream'[d] = stream[d]
        /\ 1..nextChannel \subseteq Channel
    BY <1>3, <2>2, DeliveryAssumption DEF DeliveryInv, DeliveryShape, Channel
  <2>5. /\ s \in open /\ s \in 1..nextStream
        /\ \A d \in 1..nextChannel : stream[d] # s
        /\ \A q \in Readers : q # r /\ retry[q].at = "rewire" => retry[q].stream # s
    BY <1>5, <2>1, <2>2 DEF Distinct
  <2>6. Distinct'
    BY <1>1, <1>3, <1>5, <2>2, <2>3, <2>4, <2>5 DEF Distinct
  <2>7. Streamed(c)' /\ retry'[r].at \in LoopStages
    BY <2>2, <2>3, <2>4, <2>5 DEF Streamed, LoopStages
  <2> QED  BY <1>1, <1>2, <1>3, <1>4, <2>2, <2>3, <2>4, <2>6, <2>7, LoopWiring
<1>11. CASE Reconnected(r)
  <2>1. /\ retry[r].at = "report" /\ UNCHANGED <<nextStream, stream, open, connState, givenUp>>
        /\ LoopEnds(r, "RECONNECT_DIRECT")
    BY <1>11 DEF Reconnected, wiringVars, historyVars
  <2>2. /\ \A q \in Readers : q # r => retry'[q] = retry[q]
        /\ DOMAIN retry' = Readers /\ {"at", "channel", "stream"} \subseteq DOMAIN retry'[r]
        /\ \/ retry'[r] = NoLoop
           \/ retry'[r].at = "CONNECTED" /\ retry'[r].channel = c
    BY <1>2, <1>3, <2>1, LoopEndsDoes
  <2>3. /\ retry'[r].at \in LoopStages /\ retry'[r].at # "rewire"
        /\ retry'[r].at = "none" <=> retry'[r].channel = 0
        /\ retry'[r].channel \in {0, c} /\ retry'[r].at # "DISCONNECTED"
    BY <1>3, <2>2 DEF LoopStages
  <2>4. Distinct'
    BY <1>1, <1>3, <1>5, <2>1, <2>2, <2>3 DEF Distinct
  <2>5. Held(c) => Streamed(c)'
    <3>1. \A q \in Readers : retry[q].at \in Dialling => retry'[q] = retry[q]
      BY <2>1, <2>2 DEF Dialling
    <3> QED  BY <1>4, <2>1, <3>1 DEF Streamed
  <2> QED  BY <1>1, <1>2, <1>3, <1>4, <2>1, <2>2, <2>3, <2>4, <2>5, LoopWiring
<1>12. CASE AssignLast(r)
  <2>1. /\ retry[r].at \in {"CONNECTED", "DISCONNECTED"}
        /\ UNCHANGED <<nextStream, stream, open, givenUp>>
        /\ retry' = [retry EXCEPT ![r] = NoLoop] /\ Assign(c, retry[r].at)
    BY <1>2, <1>3, <1>12 DEF AssignLast, wiringVars, historyVars, LoopStages, Dialling,
       ConnectionState
  <2>2. /\ \A q \in Readers : q # r => retry'[q] = retry[q]
        /\ retry'[r] = NoLoop /\ DOMAIN retry' = Readers /\ retry'[r].at \in LoopStages
    BY <1>3, <2>1 DEF LoopStages
  <2>3. /\ connState' \in [Channel -> ConnectionState \cup {Torn}]
        /\ \A d \in Channel : d # c => connState'[d] = connState[d]
    <3>1. PICK s \in ConnectionState \cup {Torn} : connState' = [connState EXCEPT ![c] = s]
      BY <2>1 DEF Assign, ConnectionState
    <3> QED  BY <1>3, <3>1
  <2>4. Distinct'
    BY <1>1, <1>3, <1>5, <2>1, <2>2 DEF Distinct
  <2>5. Held(c) => Streamed(c)'
    <3>1. \A q \in Readers : retry[q].at \in Dialling => retry'[q] = retry[q]
      BY <2>1, <2>2 DEF Dialling
    <3> QED  BY <1>4, <2>1, <3>1 DEF Streamed
  <2>6. ASSUME Held(c), c \notin contested
        PROVE  /\ connState'[c] \in {"CONNECTED", "RECONNECTING", "DISCONNECTED"}
               /\ connState'[c] = "CONNECTED" => c \notin givenUp'
    <3>1. On(r, c) /\ doing[r].channel # c
      BY <1>1, <1>2, <1>3, <2>1 DEF On, WiringInv, Roles, Workers
    <3>2. \A s \in Assigning(c) : s = retry[r].at
      BY <2>6, <3>1, OnlyReaderAssigns
    <3>3. connState' = [connState EXCEPT ![c] = retry[r].at]
      BY <1>4, <2>1, <2>6, <3>2, Assigns DEF Torn
    <3> QED  BY <1>3, <1>4, <2>1, <2>6, <3>3
  <2> QED  BY <1>1, <1>2, <1>3, <2>1, <2>2, <2>3, <2>4, <2>5, <2>6, LoopWiring
<1> QED  BY <1>7, <1>8, <1>9, <1>10, <1>11, <1>12 DEF LoopStep

LEMMA WiringNextInv == DeliveryInv /\ WiringInv /\ [DeliveryNext]_deliveryVars => WiringInv'
<1> SUFFICES ASSUME DeliveryInv, WiringInv, [DeliveryNext]_deliveryVars
             PROVE  WiringInv'
  OBVIOUS
<1>1. CASE UNCHANGED deliveryVars
  <2>1. UNCHANGED <<nextChannel, nextStream, channels, peerOf, stream, open, protected,
                    connState, doing, retry, contested, givenUp>>
    BY <1>1 DEF deliveryVars, wiringVars, historyVars
  <2>2. LoopShape' /\ Roles' /\ Distinct'
    BY <2>1 DEF WiringInv, LoopShape, Roles, Distinct
  <2>3. \A c \in 1..nextChannel' : Held(c)' => Streamed(c)' /\ (c \notin contested' => Alone(c)')
    BY <2>1 DEF WiringInv, Held, Streamed, Alone, On
  <2> QED  BY <2>2, <2>3 DEF WiringInv
<1>2. ASSUME NEW g \in Workers, Continue(g) PROVE WiringInv'
  BY <1>2, UserStepWiring, ReaderStepWiring DEF Workers
<1> QED
  BY <1>1, <1>2, OpenStreamWiring, UserStepWiring, ReaderStepWiring, LoopStepWiring
     DEF DeliveryNext

\* Whatever users and readers close, break, look up, assign and wire in any order, no channel is
\* left CONNECTED to a dead stream, unless one of several loops on it gave up, and none that had
\* one reader at a time is left with a mixed state (libp2p_adapter.go, connection.go).
THEOREM ConnectedIsWired == DeliverySpec => []ConnectedHasStream
<1>1. DeliveryInv /\ WiringInv => ConnectedHasStream
  <2> SUFFICES ASSUME DeliveryInv, WiringInv, NEW c \in channels, ~Touched(c)
               PROVE  /\ connState[c] = "CONNECTED" =>
                           stream[c] \in open \/ c \in contested \cap givenUp
                      /\ connState[c] = Torn => c \in contested
    BY DEF ConnectedHasStream
  <2>1. Held(c) /\ c \in 1..nextChannel /\ \A r \in Readers : retry[r].channel # c
    BY DEF Held, Touched, DeliveryInv, DeliveryShape
  <2>2. Streamed(c) /\ (c \notin contested => Alone(c))
    BY <2>1 DEF WiringInv
  <2>3. c \notin givenUp => stream[c] \in open
    BY <2>1, <2>2 DEF Streamed
  <2>4. c \notin contested => connState[c] # Torn /\ (connState[c] = "CONNECTED" => c \notin givenUp)
    BY <2>2 DEF Alone, Torn
  <2> QED  BY <2>3, <2>4
<1> QED
  BY <1>1, DeliveryInitInv, DeliveryNextInv, WiringInitInv, WiringNextInv, PTL
     DEF DeliverySpec

\* What the variables of the delivery model hold, channel by channel and loop by loop.
DeliveryTypes ==
  /\ nextStream \in 0..MaxStreams /\ open \subseteq 1..nextStream /\ protected \subseteq Peers
  /\ \A c \in 1..nextChannel : peerOf[c] \in Peers /\ stream[c] \in 1..nextStream
  /\ stream = [c \in Channel |-> stream[c]]
  /\ connState \in [Channel -> ConnectionState \cup {Torn}]
  /\ \A g \in Workers : doing[g].at # "idle" => doing[g].channel \in 1..nextChannel
  /\ DOMAIN retry = Readers
  /\ \A r \in Readers :
       /\ {"at", "channel", "stream"} \subseteq DOMAIN retry[r]
       /\ retry[r].at \in LoopStages
       /\ retry[r].at # "none" => retry[r].channel \in 1..nextChannel
       /\ retry[r].at = "rewire" => retry[r].stream \in 1..nextStream
  /\ contested \subseteq 1..nextChannel /\ givenUp \subseteq 1..nextChannel

\* Nothing is opened at the start.
LEMMA DeliveryTypesInit == DeliveryInit => DeliveryTypes
<1> SUFFICES ASSUME DeliveryInit PROVE DeliveryTypes
  OBVIOUS
<1>1. /\ \A c : c \notin 1..0
      /\ 0 \in 0..MaxStreams
  BY DeliveryAssumption
<1> QED
  BY <1>1 DEF DeliveryInit, DeliveryTypes, ConnectionState, AtRest, NoLoop, LoopStages

\* Every step keeps the types.
LEMMA DeliveryTypesNext ==
  ASSUME DeliveryShape, DeliveryTypes, [DeliveryNext]_deliveryVars
  PROVE  DeliveryTypes'
<1>0. /\ nextChannel \in Nat /\ nextStream \in Nat /\ MaxStreams \in Nat /\ MaxChannels \in Nat
      /\ doing \in [Workers -> Operation] /\ channels \subseteq 1..nextChannel
      /\ 1..nextChannel \subseteq Channel /\ Users \subseteq Workers /\ Readers \subseteq Workers
      /\ DOMAIN peerOf = Channel
  BY DeliveryAssumption DEF DeliveryShape, DeliveryTypes, Channel, Workers
<1>1. ASSUME UNCHANGED <<nextChannel, nextStream, peerOf, stream, protected, doing, contested>>,
             open' \subseteq open, connState' \in [Channel -> ConnectionState \cup {Torn}],
             givenUp' \subseteq 1..nextChannel,
             NEW r \in Readers, NEW l,
             retry' = [retry EXCEPT ![r] = l],
             {"at", "channel", "stream"} \subseteq DOMAIN l,
             l.at \in LoopStages,
             l.at # "none" => l.channel \in 1..nextChannel, l.at # "rewire"
      PROVE  DeliveryTypes'
  BY <1>1 DEF DeliveryTypes
<1>2. ASSUME UNCHANGED <<nextChannel, nextStream, peerOf, stream, retry>>,
             protected' \subseteq protected, givenUp' = givenUp,
             contested' \subseteq 1..nextChannel,
             open' \subseteq open, connState' \in [Channel -> ConnectionState \cup {Torn}],
             NEW g \in Workers, NEW o,
             doing' = [doing EXCEPT ![g] = o],
             o.at # "idle" => o.channel \in 1..nextChannel
      PROVE  DeliveryTypes'
  BY <1>0, <1>2 DEF DeliveryTypes
<1>3. ASSUME NEW c, NEW s \in ConnectionState, Assign(c, s)
      PROVE  connState' \in [Channel -> ConnectionState \cup {Torn}]
  BY <1>3 DEF Assign, DeliveryTypes
<1>4. ASSUME NEW g \in Users, NEW p \in Peers, OpenStream(g, p)
      PROVE  DeliveryTypes'
  <2>1. PICK c \in Channel, n \in Nat :
          /\ c = nextChannel + 1 /\ n = nextStream + 1 /\ n \in 1..MaxStreams
          /\ c \notin 1..nextChannel /\ 1..c = (1..nextChannel) \cup {c}
          /\ 1..n = (1..nextStream) \cup {n} /\ n \in 0..MaxStreams
    BY <1>0, <1>4 DEF OpenStream, Channel
  <2>2. /\ nextChannel' = c /\ nextStream' = n /\ open' = open \cup {n}
        /\ protected' = protected \cup {p} /\ peerOf' = [peerOf EXCEPT ![c] = p]
        /\ stream' = [stream EXCEPT ![c] = n] /\ retry' = retry
        /\ doing' = [doing EXCEPT ![g] = [at |-> "register", channel |-> c]]
    BY <1>4, <2>1 DEF OpenStream
  <2>3. connState' \in [Channel -> ConnectionState \cup {Torn}]
    <3>1. connState' = [connState EXCEPT ![c] = "CONNECTED"]
      BY <1>4, <2>1, LeadsTo DEF OpenStream
    <3> QED  BY <3>1 DEF DeliveryTypes, ConnectionState
  <2>4. \A d \in 1..c : peerOf'[d] \in Peers /\ stream'[d] \in 1..n
    <3> SUFFICES ASSUME NEW d \in 1..c PROVE peerOf'[d] \in Peers /\ stream'[d] \in 1..n
      OBVIOUS
    <3>1. CASE d = c
      BY <1>0, <2>1, <2>2, <3>1 DEF DeliveryTypes
    <3>2. CASE d # c
      <4>1. d \in 1..nextChannel /\ peerOf'[d] = peerOf[d] /\ stream'[d] = stream[d]
        BY <1>0, <2>1, <2>2, <3>2 DEF DeliveryTypes
      <4> QED  BY <2>1, <4>1 DEF DeliveryTypes
    <3> QED  BY <3>1, <3>2
  <2>5. \A h \in Workers : doing'[h].at # "idle" => doing'[h].channel \in 1..c
    BY <1>0, <2>1, <2>2 DEF DeliveryTypes
  <2>6. stream' = [d \in Channel |-> stream'[d]]
    BY <2>2 DEF DeliveryTypes
  <2>7. \A r \in Readers :
          /\ retry[r].at # "none" => retry[r].channel \in 1..c
          /\ retry[r].at = "rewire" => retry[r].stream \in 1..n
    BY <2>1 DEF DeliveryTypes
  <2>8. contested' \subseteq 1..c /\ givenUp' \subseteq 1..c
    BY <1>4, <2>1 DEF OpenStream, historyVars, DeliveryTypes
  <2> QED  BY <2>1, <2>2, <2>3, <2>4, <2>5, <2>6, <2>7, <2>8 DEF DeliveryTypes
<1>5. ASSUME NEW g \in Workers, NEW c \in Channel, Disconnect(g, c) \/ StartReconnection(g, c)
      PROVE  DeliveryTypes'
  <2>1. /\ UNCHANGED <<nextChannel, nextStream, peerOf, stream, retry, connState, open>>
        /\ protected' \subseteq protected /\ c \in 1..nextChannel
        /\ givenUp' = givenUp
    BY <1>0, <1>5 DEF Disconnect, StartReconnection, wiringVars, historyVars
  <2>2. contested' \subseteq 1..nextChannel
    BY <1>5, <2>1 DEF Disconnect, StartReconnection, historyVars, DeliveryTypes
  <2>3. PICK at : doing' = [doing EXCEPT ![g] = [at |-> at, channel |-> c]]
    BY <1>5 DEF Disconnect, StartReconnection
  <2> QED  BY <1>2, <2>1, <2>2, <2>3 DEF DeliveryTypes
<1>6. ASSUME NEW g \in Workers, Continue(g)
      PROVE  DeliveryTypes'
  <2>0. PICK c \in 0..nextChannel : /\ c = doing[g].channel
                                    /\ doing[g].at # "idle" => c \in 1..nextChannel /\ c \in Channel
    BY <1>0 DEF Operation, DeliveryTypes
  <2>1. CASE Register(g) \/ DeleteChannel(g)
    <3>1. /\ UNCHANGED <<nextChannel, nextStream, peerOf, stream, retry, connState, open>>
          /\ UNCHANGED <<protected, contested, givenUp>>
          /\ doing' = [doing EXCEPT ![g] = AtRest] /\ AtRest.at = "idle"
      BY <2>1 DEF Register, DeleteChannel, AtRest, historyVars
    <3> QED  BY <1>2, <3>1 DEF DeliveryTypes
  <2>2. CASE CloseStream(g) \/ SetDisconnected(g) \/ AssignState(g) \/ SetReconnecting(g)
    <3>1. /\ UNCHANGED <<nextChannel, nextStream, peerOf, stream, retry, protected>>
          /\ UNCHANGED <<contested, givenUp>>
          /\ open' \subseteq open /\ doing[g].at # "idle"
      BY <1>0, <2>2, SetDisconnectedDoes, AssignStateDoes, SetReconnectingDoes
         DEF CloseStream, historyVars
    <3>2. PICK at : doing' = [doing EXCEPT ![g].at = at]
      BY <1>0, <2>2, SetDisconnectedDoes, AssignStateDoes, SetReconnectingDoes DEF CloseStream
    <3>3. doing' = [doing EXCEPT ![g] = [at |-> at, channel |-> c]]
      <4>1. PICK a : doing[g] = [at |-> a, channel |-> c]
        BY <1>0, <2>0 DEF Operation
      <4>2. PICK o : o = [doing[g] EXCEPT !.at = at]
        OBVIOUS
      <4>3. o = [at |-> at, channel |-> c]
        BY <4>1, <4>2
      <4>4. doing' = [doing EXCEPT ![g] = o]
        BY <3>2, <4>2
      <4> QED  BY <4>3, <4>4
    <3>4. connState' \in [Channel -> ConnectionState \cup {Torn}]
      <4>1. CASE AssignState(g)
        BY <1>3, <4>1 DEF AssignState
      <4>2. CASE ~AssignState(g)
        BY <2>2, <4>2, SetDisconnectedDoes, SetReconnectingDoes DEF CloseStream, DeliveryTypes
      <4> QED  BY <4>1, <4>2
    <3>5. contested' \subseteq 1..nextChannel
      BY <3>1 DEF DeliveryTypes
    <3> QED  BY <1>2, <2>0, <3>1, <3>3, <3>4, <3>5
  <2>3. CASE LaunchLoop(g)
    <3>1. /\ UNCHANGED <<nextChannel, nextStream, peerOf, stream, connState, protected>>
          /\ UNCHANGED <<contested, givenUp>>
          /\ open' \subseteq open /\ doing[g].at = "restart"
          /\ doing' = [doing EXCEPT ![g] = AtRest] /\ AtRest.at = "idle"
      BY <2>3 DEF LaunchLoop, AtRest, historyVars
    <3>2. PICK l : l = [NoLoop EXCEPT !.at = "sleep", !.channel = c]
      OBVIOUS
    <3>3. /\ l = [at |-> "sleep", channel |-> c, stream |-> 0, attempt |-> 0, elapsed |-> 0]
          /\ retry' = [retry EXCEPT ![g] = l] /\ c \in 1..nextChannel
      BY <2>0, <2>3, <3>1, <3>2 DEF LaunchLoop, NoLoop
    <3>4. \A r \in Readers : retry'[r] = retry[r] \/ retry'[r] = l
      BY <3>3 DEF DeliveryTypes
    <3>5. \A h \in Workers : doing'[h].at # "idle" => doing'[h].channel \in 1..nextChannel
      BY <1>0, <3>1 DEF DeliveryTypes
    <3>6. DOMAIN retry' = Readers
      BY <3>3 DEF DeliveryTypes
    <3>7. ASSUME NEW r \in Readers
          PROVE  /\ {"at", "channel", "stream"} \subseteq DOMAIN retry'[r]
                 /\ retry'[r].at \in LoopStages
                 /\ retry'[r].at # "none" => retry'[r].channel \in 1..nextChannel
                 /\ retry'[r].at = "rewire" => retry'[r].stream \in 1..nextStream
      <4>1. CASE retry'[r] = retry[r]
        BY <4>1 DEF DeliveryTypes
      <4>2. CASE retry'[r] = l
        BY <3>3, <4>2 DEF LoopStages, Dialling
      <4> QED  BY <3>4, <4>1, <4>2
    <3> QED  BY <3>1, <3>5, <3>6, <3>7 DEF DeliveryTypes
  <2> QED  BY <1>6, <2>1, <2>2, <2>3 DEF Continue
<1>7. ASSUME NEW r \in Readers, LoopStep(r)
      PROVE  DeliveryTypes'
  <2>0. PICK l, c : /\ l = retry[r] /\ c = l.channel
                    /\ {"at", "channel", "stream"} \subseteq DOMAIN l
                    /\ l.at \in LoopStages
                    /\ l.at # "none" => c \in 1..nextChannel /\ c \in Channel
                    /\ l.at = "rewire" => l.stream \in 1..nextStream
    BY <1>0 DEF DeliveryTypes
  <2>1. /\ NoLoop.at = "none" /\ {"at", "channel", "stream"} \subseteq DOMAIN NoLoop
        /\ {"none", "sleep", "dial", "rewire", "report", "CONNECTED", "DISCONNECTED"} = LoopStages
        /\ contested \subseteq 1..nextChannel /\ givenUp \subseteq 1..nextChannel
    BY DEF NoLoop, LoopStages, Dialling, DeliveryTypes
  <2>2. ASSUME NEW e, LoopEnds(r, e), e \in {"BACKOFF_EXHAUSTED", "RECONNECT_DIRECT"}
        PROVE  \E n : /\ retry' = [retry EXCEPT ![r] = n]
                      /\ {"at", "channel", "stream"} \subseteq DOMAIN n
                      /\ n.at \in {"none", "CONNECTED", "DISCONNECTED"}
                      /\ n.at # "none" => n.channel = c
    <3>1. PICK found \in LookUps(c, e) :
            \/ \E next \in found : retry' = [retry EXCEPT ![r].at = next]
            \/ found = {} /\ retry' = [retry EXCEPT ![r] = NoLoop]
      BY <2>0, <2>2 DEF LoopEnds
    <3>2. CASE \E next \in found : retry' = [retry EXCEPT ![r].at = next]
      <4>1. PICK next \in found : retry' = [retry EXCEPT ![r].at = next]
        BY <3>2
      <4>2. next \in {"CONNECTED", "DISCONNECTED"}
        BY <2>2, LooksUp
      <4>3. PICK n : retry' = [retry EXCEPT ![r] = n] /\ n = [l EXCEPT !.at = next]
        BY <2>0, <4>1
      <4>4. {"at", "channel", "stream"} \subseteq DOMAIN n /\ n.at = next /\ n.channel = c
        BY <2>0, <4>3
      <4> QED  BY <4>2, <4>3, <4>4
    <3>3. CASE retry' = [retry EXCEPT ![r] = NoLoop]
      BY <2>1, <3>3
    <3> QED  BY <3>1, <3>2, <3>3
  <2>3. CASE SleepOrGiveUp(r)
    <3>1. /\ UNCHANGED <<nextChannel, nextStream, peerOf, stream, protected, doing, open>>
          /\ UNCHANGED <<connState, contested>>
          /\ l.at = "sleep" /\ connState' \in [Channel -> ConnectionState \cup {Torn}]
      BY <2>0, <2>3 DEF SleepOrGiveUp, wiringVars, DeliveryTypes
    <3>2. CASE LoopEnds(r, "BACKOFF_EXHAUSTED") /\ givenUp' = givenUp \cup {c}
      BY <1>1, <2>0, <2>1, <2>2, <3>1, <3>2
    <3>3. CASE /\ givenUp' = givenUp
               /\ retry' = [retry EXCEPT ![r].at = "dial", ![r].elapsed = @ + NextDelay(l.attempt)]
      <4>1. PICK n : retry' = [retry EXCEPT ![r] = n]
                     /\ n = [l EXCEPT !.at = "dial", !.elapsed = @ + NextDelay(l.attempt)]
        BY <2>0, <3>3
      <4>2. /\ {"at", "channel", "stream"} \subseteq DOMAIN n /\ n.at = "dial" /\ n.channel = c
        BY <2>0, <4>1
      <4>3. /\ n.at \in LoopStages /\ n.at # "rewire" /\ n.channel \in 1..nextChannel
            /\ givenUp' \subseteq 1..nextChannel
        BY <2>0, <2>1, <3>1, <3>3, <4>2
      <4> QED  BY <1>1, <3>1, <4>1, <4>2, <4>3
    <3> QED  BY <2>0, <2>3, <3>2, <3>3 DEF SleepOrGiveUp
  <2>4. CASE DialFails(r)
    <3>1. PICK n : /\ retry' = [retry EXCEPT ![r] = n]
                   /\ n = [l EXCEPT !.at = "sleep", !.attempt = @ + 1, !.elapsed = @ + DialTimeout]
      BY <2>0, <2>4 DEF DialFails
    <3>2. {"at", "channel", "stream"} \subseteq DOMAIN n /\ n.at = "sleep" /\ n.channel = c
      BY <2>0, <3>1
    <3>3. /\ UNCHANGED <<nextChannel, nextStream, peerOf, stream, protected, doing, open>>
          /\ UNCHANGED <<contested, givenUp>>
          /\ connState' \in [Channel -> ConnectionState \cup {Torn}] /\ l.at = "dial"
      BY <2>0, <2>4 DEF DialFails, DeliveryTypes, wiringVars, historyVars
    <3> QED  BY <1>1, <2>0, <2>1, <3>1, <3>2, <3>3
  <2>5. CASE DialSucceeds(r)
    <3>1. PICK n \in Nat : /\ n = nextStream + 1 /\ n \in 0..MaxStreams
                           /\ 1..n = (1..nextStream) \cup {n}
      BY <1>0, <2>5 DEF DialSucceeds
    <3>2. PICK m : /\ retry' = [retry EXCEPT ![r] = m]
                   /\ m = [l EXCEPT !.at = "rewire", !.stream = n]
      BY <2>0, <2>5, <3>1 DEF DialSucceeds
    <3>3. /\ {"at", "channel", "stream"} \subseteq DOMAIN m /\ m.at = "rewire" /\ m.channel = c
          /\ m.stream = n
      BY <2>0, <3>2
    <3>4. /\ UNCHANGED <<nextChannel, peerOf, stream, protected, doing, connState>>
          /\ UNCHANGED <<contested, givenUp>>
          /\ nextStream' = n /\ open' = open \cup {n} /\ l.at = "dial"
      BY <2>0, <2>5, <3>1 DEF DialSucceeds, historyVars
    <3> QED  BY <2>0, <2>1, <3>1, <3>2, <3>3, <3>4 DEF DeliveryTypes
  <2>6. CASE Rewire(r)
    <3>1. PICK n : retry' = [retry EXCEPT ![r] = n] /\ n = [l EXCEPT !.at = "report"]
      BY <2>0, <2>6 DEF Rewire
    <3>2. {"at", "channel", "stream"} \subseteq DOMAIN n /\ n.at = "report" /\ n.channel = c
      BY <2>0, <3>1
    <3>3. /\ UNCHANGED <<nextChannel, nextStream, peerOf, protected, doing, open, connState>>
          /\ UNCHANGED <<contested, givenUp>>
          /\ stream' = [stream EXCEPT ![c] = l.stream] /\ l.at = "rewire"
      BY <2>0, <2>6 DEF Rewire, historyVars
    <3> QED  BY <1>0, <2>0, <2>1, <3>1, <3>2, <3>3 DEF DeliveryTypes
  <2>7. CASE Reconnected(r)
    <3>1. /\ UNCHANGED <<nextChannel, nextStream, peerOf, stream, protected, doing, open>>
          /\ UNCHANGED <<contested, givenUp>> /\ l.at = "report"
          /\ connState' \in [Channel -> ConnectionState \cup {Torn}]
      BY <2>0, <2>7 DEF Reconnected, wiringVars, historyVars, DeliveryTypes
    <3> QED  BY <1>1, <2>0, <2>1, <2>2, <2>7, <3>1 DEF Reconnected
  <2>8. CASE AssignLast(r)
    <3>1. /\ UNCHANGED <<nextChannel, nextStream, peerOf, stream, protected, doing, open>>
          /\ UNCHANGED <<contested, givenUp>>
          /\ retry' = [retry EXCEPT ![r] = NoLoop]
      BY <2>8 DEF AssignLast, wiringVars, historyVars
    <3>2. connState' \in [Channel -> ConnectionState \cup {Torn}]
      BY <1>3, <2>8 DEF AssignLast
    <3> QED  BY <1>1, <2>1, <3>1, <3>2
  <2> QED  BY <1>7, <2>3, <2>4, <2>5, <2>6, <2>7, <2>8 DEF LoopStep
<1>8. CASE UNCHANGED deliveryVars
  BY <1>8 DEF deliveryVars, wiringVars, historyVars, DeliveryTypes
<1> QED  BY <1>0, <1>4, <1>5, <1>6, <1>7, <1>8 DEF DeliveryNext

\* What the invariants say of the variables is what their types say.
LEMMA DeliveryTyped == ASSUME DeliveryInv, DeliveryTypes PROVE DeliveryTypeOK
<1>1. /\ nextChannel \in 0..MaxChannels /\ nextStream \in 0..MaxStreams
      /\ channels \subseteq 1..nextChannel /\ open \subseteq 1..nextStream
      /\ protected \subseteq Peers
  BY DEF DeliveryInv, DeliveryShape, DeliveryTypes
<1>2. \A c \in 1..nextChannel : c \in Channel
  BY <1>1, DeliveryAssumption DEF Channel
<1>3. \A c \in 1..nextChannel : /\ peerOf[c] \in Peers /\ stream[c] \in 1..nextStream
                                /\ connState[c] \in ConnectionState \cup {Torn}
  BY <1>2 DEF DeliveryTypes
<1>4. /\ doing \in [Workers ->
            [at: {"idle", "register", "close", "disconnect", "DISCONNECTED", "delete", "drop",
                  "RECONNECTING", "restart"},
             channel: 0..nextChannel]]
      /\ \A r \in Readers : retry[r].at \in
            {"none", "sleep", "dial", "rewire", "report", "CONNECTED", "DISCONNECTED"}
      /\ contested \subseteq 1..nextChannel /\ givenUp \subseteq 1..nextChannel
  BY DEF DeliveryInv, DeliveryShape, DeliveryTypes, Operation, LoopStages, Dialling
<1> QED  BY <1>1, <1>3, <1>4 DEF DeliveryTypeOK

\* The variables of the delivery model keep their types (libp2p_adapter.go, connection.go),
\* with any number of readers on a channel.
THEOREM DeliveryTypeCorrect == DeliverySpec => []DeliveryTypeOK
<1>1. DeliveryInv /\ DeliveryTypes /\ [DeliveryNext]_deliveryVars => DeliveryInv' /\ DeliveryTypes'
  BY DeliveryNextInv, DeliveryTypesNext DEF DeliveryInv
<1>2. DeliveryInv /\ DeliveryTypes => DeliveryTypeOK
  BY DeliveryTyped
<1> QED  BY <1>1, <1>2, DeliveryInitInv, DeliveryTypesInit, PTL DEF DeliverySpec

-----------------------------------------------------------------------------
(***************************************************************************)
(* The gates of a SAPIENT sensor follow the audit lane, for every number   *)
(* of consumers, tasks, failed writes and restarts.  Between two lines     *)
(* GateIsLastControl says it; inside the handling of a line the lines      *)
(* whose effect the gates already show are one fewer until the gate is     *)
(* set, which makes the invariant inductive.                               *)
(***************************************************************************)

Lines == TaskLine \cup AckLine \cup {Junk}

\* The lines the gates show.
Shown == IF consuming = "gate" THEN lanePos - 1 ELSE lanePos

GatesFollow == \A s \in Sessions : Obeys(s, Shown)

\* A line that is between setGate and its turn is a STOP or a START.
AtControl == consuming = "gate" => Line.control \in {"stop", "start"}

TaskingInv == TaskingTypeOK /\ AtControl /\ GatesFollow

-----------------------------------------------------------------------------
(* Gates and lines *)

\* The lines up to n say the same of s as long as they and the gate stay.
LEMMA ObeysFrame ==
  ASSUME NEW s, NEW n \in Nat, Obeys(s, n), gate'[s] = gate[s],
         \A i \in 1..n : lane'[i] = lane[i]
  PROVE  Obeys(s, n)'
BY DEF Obeys, IsControl

\* A line that is no control of s changes nothing for s.
LEMMA ObeysOther ==
  ASSUME NEW s, NEW n \in Nat, Obeys(s, n), ~IsControl(n + 1, s)
  PROVE  Obeys(s, n + 1)
<1> DEFINE Last(i, m) == IsControl(i, s) /\ \A j \in (i + 1)..m : ~IsControl(j, s)
<1>1. \A i \in 1..n : Last(i, n) <=> Last(i, n + 1)
  <2> SUFFICES ASSUME NEW i \in 1..n PROVE Last(i, n) <=> Last(i, n + 1)
    OBVIOUS
  <2>1. (i + 1)..(n + 1) = ((i + 1)..n) \cup {n + 1}
    OBVIOUS
  <2> QED  BY <2>1
<1>2. ~Last(n + 1, n + 1)
  OBVIOUS
<1>3. 1..(n + 1) = (1..n) \cup {n + 1}
  OBVIOUS
<1>4. gate[s] <=> \A i \in 1..n : Last(i, n) => lane[i].control = "start"
  BY DEF Obeys
<1> HIDE DEF Last
<1>5. gate[s] <=> \A i \in 1..(n + 1) : Last(i, n + 1) => lane[i].control = "start"
  BY <1>1, <1>2, <1>3, <1>4
<1> QED  BY <1>5 DEF Obeys, Last

\* The newest control of s alone decides.
LEMMA ObeysNewest ==
  ASSUME NEW s, NEW n \in Nat \ {0}, IsControl(n, s), gate[s] <=> lane[n].control = "start"
  PROVE  Obeys(s, n)
<1>1. \A i \in 1..n : (\A j \in (i + 1)..n : ~IsControl(j, s)) => i = n
  OBVIOUS
<1>2. n \in 1..n /\ (n + 1)..n = {}
  OBVIOUS
<1> QED  BY <1>1, <1>2 DEF Obeys

-----------------------------------------------------------------------------
(* Steps *)

\* A write appends at most one line, and nothing before it changes.
LEMMA AppendKeeps ==
  ASSUME lane \in Seq(Lines), tornTail \in BOOLEAN,
         tornTail => lane # << >> /\ lane[Len(lane)] = Junk,
         NEW line \in Lines, AppendLine(line) \/ AppendFails
  PROVE  /\ lane' \in Seq(Lines) /\ tornTail' \in BOOLEAN
         /\ tornTail' => lane' # << >> /\ lane'[Len(lane')] = Junk
         /\ Len(lane') \in Nat /\ Len(lane) <= Len(lane')
         /\ \A i \in 1..Len(lane) : lane'[i] = lane[i]
<1>1. Junk \in Lines
  BY DEF Lines
<1>2. \/ lane' = lane
      \/ lane' = Append(lane, line) /\ ~tornTail'
      \/ lane' = Append(lane, Junk) /\ tornTail'
  BY DEF AppendLine, AppendFails
<1>3. tornTail' \in BOOLEAN
  BY DEF AppendLine, AppendFails
<1>4. CASE lane' = lane
  BY <1>3, <1>4, <1>1 DEF AppendLine, AppendFails
<1>5. ASSUME NEW l \in Lines, lane' = Append(lane, l)
      PROVE  /\ lane' \in Seq(Lines) /\ lane' # << >> /\ lane'[Len(lane')] = l
             /\ Len(lane') \in Nat /\ Len(lane) <= Len(lane')
             /\ \A i \in 1..Len(lane) : lane'[i] = lane[i]
  BY <1>5
<1> QED  BY <1>1, <1>2, <1>3, <1>4, <1>5

LEMMA TaskingInitInv == TaskingInit => TaskingInv
<1> SUFFICES ASSUME TaskingInit PROVE TaskingInv
  OBVIOUS
<1>1. TaskingTypeOK
  <2>1. << >> \in Seq(TaskLine \cup AckLine \cup {Junk}) /\ Len(<< >>) = 0
    OBVIOUS
  <2>2. tornTail \in BOOLEAN /\ ~tornTail /\ gate \in [Sessions -> BOOLEAN]
    BY DEF TaskingInit
  <2>3. issued \in 0..MaxTasks /\ activeTask \in 0..MaxTasks /\ lanePos = 0
    BY TaskingAssumption DEF TaskingInit
  <2>4. lane = << >> /\ consuming = "next" /\ targets = {}
    BY DEF TaskingInit
  <2>5. lanePos \in 0..Len(lane)
    BY <2>1, <2>3, <2>4
  <2> QED  BY <2>1, <2>2, <2>3, <2>4, <2>5 DEF TaskingTypeOK
<1>2. AtControl
  BY DEF TaskingInit, AtControl
<1>3. GatesFollow
  BY DEF TaskingInit, GatesFollow, Shown, Obeys
<1> QED  BY <1>1, <1>2, <1>3 DEF TaskingInv

\* A step that leaves the gates and the reading alone keeps the invariant, whatever it writes.
LEMMA WriteKeeps ==
  ASSUME TaskingInv, UNCHANGED <<gate, lanePos, consuming, running, activeTask>>,
         targets' \subseteq Sessions, issued' \in 0..MaxTasks,
         \/ UNCHANGED <<lane, tornTail>>
         \/ \E line \in Lines : AppendLine(line) \/ AppendFails
  PROVE  TaskingInv'
<1>1. /\ lane' \in Seq(Lines) /\ tornTail' \in BOOLEAN
      /\ tornTail' => lane' # << >> /\ lane'[Len(lane')] = Junk
      /\ Len(lane') \in Nat /\ Len(lane) <= Len(lane')
      /\ \A i \in 1..Len(lane) : lane'[i] = lane[i]
  <2>1. /\ lane \in Seq(Lines) /\ tornTail \in BOOLEAN
        /\ tornTail => lane # << >> /\ lane[Len(lane)] = Junk
    BY DEF TaskingInv, TaskingTypeOK, Lines
  <2>2. CASE UNCHANGED <<lane, tornTail>>
    BY <2>1, <2>2
  <2> QED  BY <2>1, <2>2, AppendKeeps
<1>2. lanePos \in 0..Len(lane) /\ Len(lane) \in Nat
  BY DEF TaskingInv, TaskingTypeOK
<1>3. consuming # "next" => lanePos \in 1..Len(lane)
  BY <1>2 DEF TaskingInv, TaskingTypeOK
<1>4. TaskingTypeOK'
  BY <1>1, <1>2, <1>3 DEF TaskingInv, TaskingTypeOK, Lines
<1>5. AtControl'
  BY <1>1, <1>3 DEF TaskingInv, AtControl, Line
<1>6. GatesFollow'
  <2> SUFFICES ASSUME NEW s \in Sessions PROVE Obeys(s, Shown)'
    BY DEF GatesFollow
  <2>1. Shown \in 0..Len(lane) /\ Shown' = Shown
    BY <1>2, <1>3 DEF Shown
  <2>2. Obeys(s, Shown)
    BY DEF TaskingInv, GatesFollow
  <2>3. \A i \in 1..Shown : lane'[i] = lane[i]
    BY <1>1, <1>2, <2>1
  <2> HIDE DEF Shown
  <2> QED  BY <2>1, <2>2, <2>3, ObeysFrame DEF Obeys, IsControl
<1> QED  BY <1>4, <1>5, <1>6 DEF TaskingInv

\* Starting and stopping the seller: nothing is shown, and every gate is open.
LEMMA BlankIInv ==
  ASSUME TaskingInv, Blank, lanePos' = 0, UNCHANGED <<laneVars, issued>>
  PROVE  TaskingInv'
<1>1. TaskingTypeOK'
  <2>1. gate' \in [Sessions -> BOOLEAN] /\ activeTask' \in 0..MaxTasks
    BY TaskingAssumption DEF Blank
  <2>2. lanePos' \in 0..Len(lane') /\ UNCHANGED <<lane, tornTail, issued>>
    BY DEF TaskingInv, TaskingTypeOK, laneVars
  <2>3. consuming' = "next" /\ targets' = {}
    BY DEF Blank
  <2> QED  BY <2>1, <2>2, <2>3 DEF TaskingInv, TaskingTypeOK
<1>2. AtControl'
  BY DEF Blank, AtControl
<1>3. GatesFollow'
  BY DEF Blank, GatesFollow, Shown, Obeys
<1> QED  BY <1>1, <1>2, <1>3 DEF TaskingInv

LEMMA IssueIInv ==
  ASSUME TaskingInv, NEW c \in Consumers, NEW control \in Controls, Issue(c, control)
  PROVE  TaskingInv'
<1>1. issued' \in 1..MaxTasks
  BY TaskingAssumption DEF Issue, TaskingInv, TaskingTypeOK
<1>2. [kind |-> "task", from |-> c, id |-> issued', control |-> control] \in Lines
  BY <1>1 DEF Lines, TaskLine, TaskIds
<1>3. UNCHANGED <<gate, lanePos, consuming, running, activeTask, targets>>
  BY DEF Issue, sellerVars
<1>4. targets' \subseteq Sessions
  BY <1>3 DEF TaskingInv, TaskingTypeOK
<1>5. \E line \in Lines : AppendLine(line) \/ AppendFails
  BY <1>2 DEF Issue
<1> QED  BY <1>1, <1>3, <1>4, <1>5, WriteKeeps

\* What neither writes nor reads a line nor moves a gate.
LEMMA TaskingQuiet ==
  ASSUME TaskingInv, UNCHANGED <<laneVars, issued, gate, lanePos, consuming, running, activeTask>>,
         targets' \subseteq Sessions
  PROVE  TaskingInv'
<1>1. UNCHANGED <<lane, tornTail>> /\ issued' \in 0..MaxTasks
  BY DEF laneVars, TaskingInv, TaskingTypeOK
<1> QED  BY <1>1, WriteKeeps

\* A line that is taken is shown at once, unless it is a STOP or a START.
LEMMA TakeLineIInv ==
  ASSUME TaskingInv, TakeLine
  PROVE  TaskingInv'
<1>1. /\ consuming = "next" /\ lanePos' = lanePos + 1 /\ lanePos' \in 1..Len(lane)
      /\ lanePos \in Nat
      /\ UNCHANGED <<lane, tornTail, gate, activeTask, targets, running, issued>>
  BY DEF TakeLine, drain, Complete, TaskingInv, TaskingTypeOK, laneVars
<1>2. lane[lanePos'] \in Lines
  BY <1>1 DEF TaskingInv, TaskingTypeOK, Lines
<1>3. CASE lane[lanePos'].kind # "task"
  <2>1. consuming' = "next"
    BY <1>3 DEF TakeLine
  <2>2. TaskingTypeOK'
    BY <1>1, <2>1 DEF TaskingInv, TaskingTypeOK
  <2>3. AtControl'
    BY <2>1 DEF AtControl
  <2>4. GatesFollow'
    BY <1>1, <1>3, <2>1, ObeysOther DEF TaskingInv, GatesFollow, Shown, Obeys, IsControl
  <2> QED  BY <2>2, <2>3, <2>4 DEF TaskingInv
<1>4. CASE lane[lanePos'].kind = "task"
  <2>1. lane[lanePos'] \in TaskLine /\ running
    BY <1>2, <1>4 DEF Lines, AckLine, TaskLine, Junk, TakeLine
  <2>2. CASE lane[lanePos'].control = "other"
    <3>1. consuming' = "ack"
      BY <1>4, <2>2 DEF TakeLine
    <3>2. TaskingTypeOK'
      BY <1>1, <2>1, <3>1 DEF TaskingInv, TaskingTypeOK
    <3>3. AtControl'
      BY <3>1 DEF AtControl
    <3>4. GatesFollow'
      BY <1>1, <2>2, <3>1, ObeysOther DEF TaskingInv, GatesFollow, Shown, Obeys, IsControl
    <3> QED  BY <3>2, <3>3, <3>4 DEF TaskingInv
  <2>3. CASE lane[lanePos'].control # "other"
    <3>1. consuming' = "gate"
      BY <1>4, <2>3 DEF TakeLine
    <3>2. TaskingTypeOK'
      BY <1>1, <2>1, <3>1 DEF TaskingInv, TaskingTypeOK
    <3>3. AtControl'
      BY <1>1, <2>1, <2>3 DEF AtControl, Line, TaskLine, Controls
    <3>4. GatesFollow'
      BY <1>1, <3>1 DEF TaskingInv, GatesFollow, Shown, Obeys, IsControl
    <3> QED  BY <3>2, <3>3, <3>4 DEF TaskingInv
  <2> QED  BY <2>2, <2>3
<1> QED  BY <1>3, <1>4

\* The gate of the line's own consumer is set as the line says, and the line is shown.
LEMMA SetGateIInv ==
  ASSUME TaskingInv, setGate
  PROVE  TaskingInv'
<1>1. /\ consuming = "gate" /\ consuming' = "active" /\ lanePos \in 1..Len(lane)
      /\ Len(lane) \in Nat /\ lanePos - 1 \in Nat /\ lanePos = (lanePos - 1) + 1
      /\ UNCHANGED <<lane, tornTail, lanePos, activeTask, targets, running, issued>>
  BY DEF setGate, TaskingInv, TaskingTypeOK, laneVars
<1>2. Line \in TaskLine /\ running /\ Line.control \in {"stop", "start"}
  BY <1>1 DEF TaskingInv, TaskingTypeOK, AtControl, Line
<1>3. gate' \in [Sessions -> BOOLEAN]
      /\ \A s \in Sessions : gate'[s] = IF s = Line.from THEN Line.control = "start" ELSE gate[s]
  BY DEF setGate, TaskingInv, TaskingTypeOK
<1>4. TaskingTypeOK'
  BY <1>1, <1>2, <1>3 DEF TaskingInv, TaskingTypeOK, Line
<1>5. AtControl'
  BY <1>1 DEF AtControl
<1>6. GatesFollow'
  <2> SUFFICES ASSUME NEW s \in Sessions PROVE Obeys(s, lanePos)'
    BY <1>1 DEF GatesFollow, Shown, Obeys, IsControl
  <2>1. CASE s = Line.from
    <3>1. IsControl(lanePos, s)' /\ lanePos' \in Nat \ {0}
      BY <1>1, <1>2, <2>1 DEF IsControl, Line, TaskLine
    <3>2. gate'[s] <=> lane'[lanePos'].control = "start"
      BY <1>1, <1>3, <2>1 DEF Line
    <3> QED  BY <1>1, <3>1, <3>2, ObeysNewest DEF Obeys, IsControl
  <2>2. CASE s # Line.from
    <3>1. Obeys(s, lanePos - 1)
      BY <1>1 DEF TaskingInv, GatesFollow, Shown
    <3>2. ~IsControl(lanePos, s)
      BY <2>2 DEF IsControl, Line
    <3>3. Obeys(s, (lanePos - 1) + 1)
      BY <1>1, <3>1, <3>2, ObeysOther
    <3> QED  BY <1>1, <1>3, <2>2, <3>3 DEF Obeys, IsControl
  <2> QED  BY <2>1, <2>2
<1> QED  BY <1>4, <1>5, <1>6 DEF TaskingInv

LEMMA SetActiveTaskIInv ==
  ASSUME TaskingInv, setActiveTask
  PROVE  TaskingInv'
<1>1. /\ consuming = "active" /\ consuming' = "ack" /\ activeTask' = Line.id
      /\ UNCHANGED <<lane, tornTail, lanePos, gate, targets, running, issued>>
  BY DEF setActiveTask, laneVars
<1>2. Line \in TaskLine
  BY <1>1 DEF TaskingInv, TaskingTypeOK, Line
<1>3. activeTask' \in 0..MaxTasks
  BY <1>1, <1>2 DEF TaskLine, TaskIds
<1>4. TaskingTypeOK'
  BY <1>1, <1>3 DEF TaskingInv, TaskingTypeOK
<1>5. AtControl' /\ GatesFollow'
  BY <1>1 DEF TaskingInv, AtControl, GatesFollow, Shown, Obeys, IsControl
<1> QED  BY <1>4, <1>5 DEF TaskingInv

LEMMA PublishTaskAckIInv ==
  ASSUME TaskingInv, PublishTaskAck
  PROVE  TaskingInv'
<1>1. /\ consuming = "ack" /\ consuming' = "next"
      /\ UNCHANGED <<gate, lanePos, running, activeTask, targets, issued>>
  BY DEF PublishTaskAck
<1>2. [kind |-> "ack", id |-> Line.id] \in Lines
  BY <1>1 DEF TaskingInv, TaskingTypeOK, Line, Lines, AckLine, TaskLine
<1>3. /\ lane' \in Seq(Lines) /\ tornTail' \in BOOLEAN
      /\ tornTail' => lane' # << >> /\ lane'[Len(lane')] = Junk
      /\ Len(lane') \in Nat /\ Len(lane) <= Len(lane')
      /\ \A i \in 1..Len(lane) : lane'[i] = lane[i]
  BY <1>2, AppendKeeps DEF PublishTaskAck, TaskingInv, TaskingTypeOK, Lines
<1>4. lanePos \in 0..Len(lane) /\ Len(lane) \in Nat
  BY DEF TaskingInv, TaskingTypeOK
<1>5. TaskingTypeOK'
  BY <1>1, <1>3, <1>4 DEF TaskingInv, TaskingTypeOK, Lines
<1>6. AtControl'
  BY <1>1 DEF AtControl
<1>7. GatesFollow'
  <2> SUFFICES ASSUME NEW s \in Sessions PROVE Obeys(s, lanePos)'
    BY <1>1 DEF GatesFollow, Shown, Obeys, IsControl
  <2>1. Obeys(s, lanePos)
    BY <1>1 DEF TaskingInv, GatesFollow, Shown
  <2>2. \A i \in 1..lanePos : lane'[i] = lane[i]
    BY <1>3, <1>4
  <2> QED  BY <1>1, <1>4, <2>1, <2>2, ObeysFrame DEF Obeys, IsControl
<1> QED  BY <1>5, <1>6, <1>7 DEF TaskingInv

LEMMA TaskingNextInv == TaskingInv /\ [TaskingNext]_taskingVars => TaskingInv'
<1> SUFFICES ASSUME TaskingInv, [TaskingNext]_taskingVars PROVE TaskingInv'
  OBVIOUS
<1>1. ASSUME NEW c \in Consumers, NEW control \in Controls, Issue(c, control) PROVE TaskingInv'
  BY <1>1, IssueIInv
<1>2. ASSUME NEW c \in Consumers, ReceiveTaskAck(c) \/ TimeOut(c) PROVE TaskingInv'
  BY <1>2, TaskingQuiet DEF ReceiveTaskAck, TimeOut, sellerVars, TaskingInv, TaskingTypeOK
<1>3. CASE StartSeller
  BY <1>3, BlankIInv DEF StartSeller
<1>4. CASE StopSeller
  BY <1>4, BlankIInv DEF StopSeller
<1>5. CASE Forward
  BY <1>5, TaskingQuiet DEF Forward
<1>6. ASSUME NEW s \in Sessions, SendFrame(s) PROVE TaskingInv'
  BY <1>6, TaskingQuiet DEF SendFrame, TaskingInv, TaskingTypeOK
<1>7. CASE Consume
  BY <1>7, TakeLineIInv, SetGateIInv, SetActiveTaskIInv, PublishTaskAckIInv DEF Consume
<1>8. CASE UNCHANGED taskingVars
  BY <1>8, TaskingQuiet DEF taskingVars, laneVars, TaskingInv, TaskingTypeOK
<1> QED  BY <1>1, <1>2, <1>3, <1>4, <1>5, <1>6, <1>7, <1>8 DEF TaskingNext

LEMMA TaskingSpecInv == TaskingSpec => []TaskingInv
BY TaskingInitInv, TaskingNextInv, PTL DEF TaskingSpec

\* Types, whatever consumers, tasks, failed writes and restarts there are.
THEOREM TaskingTypeCorrect == TaskingSpec => []TaskingTypeOK
<1>1. TaskingInv => TaskingTypeOK
  BY DEF TaskingInv
<1> QED  BY <1>1, TaskingSpecInv, PTL

\* The gates follow the lane, whatever consumers, tasks, failed writes and restarts there are.
THEOREM GatesFollowTheLane == TaskingSpec => []GateIsLastControl
<1>1. TaskingInv => GateIsLastControl
  BY DEF TaskingInv, GatesFollow, Shown, GateIsLastControl
<1> QED  BY <1>1, TaskingSpecInv, PTL

-----------------------------------------------------------------------------
(***************************************************************************)
(* An acknowledged STOP or START is obeyed.  The gates follow the lane, so *)
(* it is enough that the line of the acknowledged task is the last one of  *)
(* its consumer that can be read: ids grow along the lane (Ordered), a     *)
(* consumer's own run is the newest of its lines (Own), and a run of the   *)
(* seller has answered nothing it has not handled (Handled).  The frames   *)
(* sent after a STOP are those of one Forward at most, as long as a gate   *)
(* that is counted stays shut (Stopped).                                   *)
(***************************************************************************)
IsTask(i) == lane[i].kind = "task"

\* Between setGate and the acknowledgement the gate is as the line says.
GateIsSet ==
  consuming \in {"active", "ack"} /\ Line.control # "other" /\ Line.from \in Sessions
    => (gate[Line.from] <=> Line.control = "start")

Stopped ==
  /\ lateFrames \in [Sessions -> {NotStopped, 0, 1}]
  /\ \A s \in Sessions : /\ lateFrames[s] # NotStopped => ~gate[s]
                         /\ lateFrames[s] = 1 => s \notin targets

Ordered ==
  \A i \in 1..Len(lane) : IsTask(i) =>
    /\ lane[i].id \in 1..issued
    /\ \A j \in (i + 1)..Len(lane) : IsTask(j) => lane[i].id < lane[j].id

Own ==
  \A c \in Consumers : cli[c].at # "idle" =>
    /\ cli[c].id <= issued
    /\ \A i \in 1..Len(lane) : IsTask(i) =>
         /\ lane[i].from = c => lane[i].id <= cli[c].id
         /\ lane[i].id = cli[c].id => lane[i].from = c /\ lane[i].control = cli[c].control

Handled ==
  \A k \in answered :
    \E i \in 1..lanePos : (i = lanePos => consuming = "next") /\ IsTask(i) /\ lane[i].id = k

Runs == [at: {"idle", "wait", "ok"}, id: 0..MaxTasks, control: Controls]

AckInv == /\ cli \in [Consumers -> Runs]
          /\ GateIsSet /\ Stopped /\ Ordered /\ Own /\ Handled

LEMMA AckInitInv == TaskingInit => AckInv
<1> SUFFICES ASSUME TaskingInit PROVE AckInv
  OBVIOUS
<1>1. NoTask \in Runs
  BY TaskingAssumption DEF NoTask, Runs, Controls
<1>2. Len(lane) = 0
  BY DEF TaskingInit
<1> QED
  BY <1>1, <1>2 DEF TaskingInit, AckInv, GateIsSet, Stopped, Ordered, Own, Handled, NotStopped,
     NoTask

\* What a lane looks like after one more line.
LEMMA LaneGrows ==
  ASSUME lane \in Seq(Lines), NEW l \in Lines, lane' = Append(lane, l)
  PROVE  /\ Len(lane) \in Nat /\ Len(lane') = Len(lane) + 1 /\ lane'[Len(lane) + 1] = l
         /\ 1..Len(lane') = (1..Len(lane)) \cup {Len(lane) + 1}
         /\ \A i \in 1..Len(lane) : lane'[i] = lane[i] /\ i # Len(lane) + 1
<1>1. /\ Len(lane) \in Nat /\ Len(lane') = Len(lane) + 1 /\ lane'[Len(lane) + 1] = l
      /\ \A i \in 1..Len(lane) : lane'[i] = lane[i]
  OBVIOUS
<1> QED  BY <1>1

\* A line that is no task changes neither the order nor whose line is whose, and the consumer
\* that finds its acknowledgement keeps its task.
LEMMA OtherLineKeeps ==
  ASSUME TaskingInv, AckInv, issued' = issued,
         \/ lane' = lane
         \/ \E l \in Lines : l.kind # "task" /\ lane' = Append(lane, l),
         \A c \in Consumers : cli'[c].at # "idle" =>
           cli[c].at # "idle" /\ cli'[c].id = cli[c].id /\ cli'[c].control = cli[c].control
  PROVE  Ordered' /\ Own'
<1>1. lane \in Seq(Lines)
  BY DEF TaskingInv, TaskingTypeOK, Lines
<1>2. Ordered /\ Own
  BY DEF AckInv
<1>3. CASE lane' = lane
  BY <1>2, <1>3 DEF Ordered, Own, IsTask
<1>4. ASSUME NEW l \in Lines, l.kind # "task", lane' = Append(lane, l)
      PROVE  Ordered' /\ Own'
  <2>0. /\ Len(lane) \in Nat /\ Len(lane') = Len(lane) + 1 /\ lane'[Len(lane) + 1] = l
        /\ 1..Len(lane') = (1..Len(lane)) \cup {Len(lane) + 1}
        /\ \A i \in 1..Len(lane) : lane'[i] = lane[i] /\ i # Len(lane) + 1
    BY <1>1, <1>4, LaneGrows
  <2>1. PICK n \in Nat :
          /\ Len(lane) \in Nat /\ Len(lane') = n /\ lane'[n] = l /\ n > Len(lane)
          /\ 1..Len(lane') = (1..Len(lane)) \cup {n}
          /\ \A i \in 1..Len(lane) : lane'[i] = lane[i] /\ i # n
    BY <2>0
  <2>2. ~IsTask(n)' /\ \A i \in 1..Len(lane) : IsTask(i)' <=> IsTask(i)
    BY <1>4, <2>1 DEF IsTask
  <2>3. ASSUME NEW i \in 1..Len(lane'), IsTask(i)'
        PROVE  i \in 1..Len(lane) /\ IsTask(i) /\ lane'[i] = lane[i]
    BY <2>1, <2>2, <2>3
  <2>4. Ordered'
    <3> SUFFICES ASSUME NEW i \in 1..Len(lane'), IsTask(i)'
                 PROVE  /\ lane'[i].id \in 1..issued'
                        /\ \A j \in (i + 1)..Len(lane') :
                             IsTask(j)' => lane'[i].id < lane'[j].id
      BY DEF Ordered
    <3>1. i \in 1..Len(lane) /\ IsTask(i) /\ lane'[i] = lane[i]
      BY <2>3
    <3>2. ASSUME NEW j \in (i + 1)..Len(lane'), IsTask(j)' PROVE lane'[i].id < lane'[j].id
      <4>1. j \in 1..Len(lane') /\ j > i
        BY <2>1, <3>1
      <4>2. j \in 1..Len(lane) /\ IsTask(j) /\ lane'[j] = lane[j]
        BY <2>3, <3>2, <4>1
      <4>3. j \in (i + 1)..Len(lane)
        BY <2>1, <3>1, <4>1, <4>2
      <4> QED  BY <1>2, <3>1, <4>2, <4>3 DEF Ordered
    <3> QED  BY <1>2, <3>1, <3>2 DEF Ordered
  <2>5. Own'
    BY <1>2, <2>3 DEF Own
  <2> QED  BY <2>4, <2>5
<1> QED  BY <1>3, <1>4

\* A new task is the newest of the lane, and of its consumer.
LEMMA IssueAckInv ==
  ASSUME TaskingInv, AckInv, NEW c \in Consumers, NEW control \in Controls, Issue(c, control)
  PROVE  AckInv'
<1> DEFINE line == [kind |-> "task", from |-> c, id |-> issued + 1, control |-> control]
<1>1. /\ issued \in 0..MaxTasks /\ issued + 1 \in 1..MaxTasks /\ issued' = issued + 1
      /\ lane \in Seq(Lines) /\ issued \in Nat
      /\ UNCHANGED <<gate, lanePos, consuming, targets, answered, lateFrames>>
  BY TaskingAssumption DEF Issue, sellerVars, TaskingInv, TaskingTypeOK, Lines
<1>2. line \in Lines /\ Junk \in Lines
  BY <1>1 DEF Lines, TaskLine, TaskIds
<1>3. lanePos \in 0..Len(lane) /\ Len(lane) \in Nat /\ (consuming # "next" => lanePos # 0)
  BY <1>1 DEF TaskingInv, TaskingTypeOK
<1>4. PICK at \in {"idle", "wait"} :
        /\ cli' = [cli EXCEPT ![c] = IF at = "wait"
                     THEN [at |-> "wait", id |-> issued + 1, control |-> control] ELSE NoTask]
        /\ \/ lane' = lane
           \/ lane' = Append(lane, line) /\ at = "wait"
           \/ lane' = Append(lane, Junk)
  BY <1>1 DEF Issue, AppendLine, AppendFails
<1>5. cli' \in [Consumers -> Runs]
  BY TaskingAssumption, <1>1, <1>4 DEF AckInv, Runs, NoTask, Controls
<1>6. /\ \A d \in Consumers \ {c} : cli'[d] = cli[d]
      /\ cli'[c].at = at
      /\ at = "wait" => cli'[c].id = issued + 1 /\ cli'[c].control = control
  BY <1>4 DEF AckInv, NoTask
<1>7. ASSUME NEW n \in Nat, n >= Len(lane),
             \A i \in 1..Len(lane) : lane'[i] = lane[i],
             Len(lane') = n,
             \A i \in 1..n : i \notin 1..Len(lane) =>
               lane'[i].kind # "task" \/ (lane'[i] = line /\ at = "wait" /\ i = n)
      PROVE  AckInv'
  <2>1. GateIsSet'
    BY <1>1, <1>3, <1>7 DEF AckInv, GateIsSet, Line
  <2>2. Stopped'
    BY <1>1 DEF AckInv, Stopped
  <2>3. ASSUME NEW i \in 1..n, IsTask(i)'
        PROVE  \/ i \in 1..Len(lane) /\ IsTask(i) /\ lane'[i] = lane[i]
               \/ lane'[i] = line /\ at = "wait" /\ i = n /\ i > Len(lane)
    BY <1>3, <1>7, <2>3 DEF IsTask
  <2>4. ASSUME NEW i \in 1..Len(lane), IsTask(i)
        PROVE  lane[i].id \in 1..issued /\ lane[i].id # issued + 1
    BY <1>1, <2>4 DEF AckInv, Ordered
  <2>5. Ordered'
    <3> SUFFICES ASSUME NEW i \in 1..n, IsTask(i)'
                 PROVE  /\ lane'[i].id \in 1..(issued + 1)
                        /\ \A j \in (i + 1)..n : IsTask(j)' => lane'[i].id < lane'[j].id
      BY <1>1, <1>7 DEF Ordered
    <3>1. lane'[i].id \in 1..(issued + 1)
      BY <1>1, <2>3, <2>4
    <3>2. ASSUME NEW j \in (i + 1)..n, IsTask(j)' PROVE lane'[i].id < lane'[j].id
      <4>1. j \in 1..n /\ j > i /\ i \in 1..Len(lane) /\ IsTask(i) /\ lane'[i] = lane[i]
        BY <1>3, <1>7, <2>3
      <4>2. CASE j \in 1..Len(lane)
        <5>1. IsTask(j) /\ lane'[j] = lane[j] /\ j \in (i + 1)..Len(lane)
          BY <1>3, <1>7, <2>3, <3>2, <4>1, <4>2
        <5> QED  BY <4>1, <5>1 DEF AckInv, Ordered
      <4>3. CASE j \notin 1..Len(lane)
        <5>1. lane'[j].id = issued + 1
          BY <2>3, <3>2, <4>1, <4>3
        <5>2. lane[i].id \in 1..issued
          BY <2>4, <4>1
        <5> QED  BY <1>1, <4>1, <5>1, <5>2
      <4> QED  BY <4>2, <4>3
    <3> QED  BY <3>1, <3>2
  <2>6. Own'
    <3> SUFFICES ASSUME NEW d \in Consumers, cli'[d].at # "idle"
                 PROVE  /\ cli'[d].id <= issued + 1
                        /\ \A i \in 1..n : IsTask(i)' =>
                             /\ lane'[i].from = d => lane'[i].id <= cli'[d].id
                             /\ lane'[i].id = cli'[d].id =>
                                  lane'[i].from = d /\ lane'[i].control = cli'[d].control
      BY <1>1, <1>7 DEF Own
    <3>1. CASE d = c
      <4>1. at = "wait" /\ cli'[c].id = issued + 1 /\ cli'[c].control = control
        BY <1>6, <3>1
      <4> QED  BY <1>1, <2>3, <2>4, <3>1, <4>1
    <3>2. CASE d # c
      <4>1. cli'[d] = cli[d] /\ cli[d].id <= issued /\ cli[d].id \in Nat
        BY <1>6, <3>2 DEF AckInv, Own, Runs
      <4>2. cli'[d].id <= issued + 1 /\ cli[d].id # issued + 1
        BY <1>1, <4>1
      <4>3. ASSUME NEW i \in 1..n, IsTask(i)'
            PROVE  /\ lane'[i].from = d => lane'[i].id <= cli'[d].id
                   /\ lane'[i].id = cli'[d].id =>
                        lane'[i].from = d /\ lane'[i].control = cli'[d].control
        <5>1. CASE i \in 1..Len(lane) /\ IsTask(i) /\ lane'[i] = lane[i]
          BY <4>1, <5>1 DEF AckInv, Own
        <5>2. CASE lane'[i] = line
          <6>1. lane'[i].from = c /\ lane'[i].id = issued + 1
            BY <5>2
          <6> QED  BY <3>2, <4>1, <4>2, <6>1
        <5> QED  BY <2>3, <4>3, <5>1, <5>2
      <4> QED  BY <4>2, <4>3
    <3> QED  BY <3>1, <3>2
  <2>7. Handled'
    <3>1. \A i \in 1..lanePos : i \in 1..Len(lane)
      BY <1>3
    <3> QED  BY <1>1, <1>7, <3>1 DEF AckInv, Handled, IsTask
  <2> QED  BY <1>5, <2>1, <2>2, <2>5, <2>6, <2>7 DEF AckInv
<1>8. CASE lane' = lane
  BY <1>3, <1>7, <1>8
<1>9. CASE lane' = Append(lane, line) /\ at = "wait"
  <2>1. /\ Len(lane') = Len(lane) + 1 /\ lane'[Len(lane) + 1] = line
        /\ 1..Len(lane') = (1..Len(lane)) \cup {Len(lane) + 1}
        /\ \A i \in 1..Len(lane) : lane'[i] = lane[i]
    BY <1>1, <1>2, <1>9, LaneGrows
  <2> HIDE DEF line
  <2> QED  BY <1>3, <1>7, <1>9, <2>1
<1>10. CASE lane' = Append(lane, Junk)
  <2>1. /\ Len(lane') = Len(lane) + 1 /\ lane'[Len(lane) + 1] = Junk
        /\ 1..Len(lane') = (1..Len(lane)) \cup {Len(lane) + 1}
        /\ \A i \in 1..Len(lane) : lane'[i] = lane[i]
    BY <1>1, <1>2, <1>10, LaneGrows
  <2>2. Junk.kind # "task"
    BY DEF Junk
  <2> HIDE DEF line
  <2> QED  BY <1>3, <1>7, <2>1, <2>2
<1> QED  BY <1>4, <1>8, <1>9, <1>10

\* The runs of sapient-task that end touch nothing of the seller.
LEMMA CliAckInv ==
  ASSUME TaskingInv, AckInv, NEW c \in Consumers, ReceiveTaskAck(c) \/ TimeOut(c)
  PROVE  AckInv'
<1>1. /\ UNCHANGED <<lane, issued, gate, lanePos, consuming, targets, answered, lateFrames>>
      /\ cli[c].at = "wait"
  BY DEF ReceiveTaskAck, TimeOut, laneVars, sellerVars
<1>2. cli' = [cli EXCEPT ![c].at = "ok"] \/ cli' = [cli EXCEPT ![c] = NoTask]
  BY DEF ReceiveTaskAck, TimeOut
<1>3. cli \in [Consumers -> Runs]
  BY DEF AckInv
<1>4. cli' \in [Consumers -> Runs]
  BY TaskingAssumption, <1>2, <1>3 DEF Runs, NoTask, Controls
<1>5. \A d \in Consumers : cli'[d].at # "idle" =>
        cli[d].at # "idle" /\ cli'[d].id = cli[d].id /\ cli'[d].control = cli[d].control
  BY <1>1, <1>2, <1>3 DEF NoTask, Runs
<1>6. Ordered' /\ Own'
  BY <1>1, <1>5, OtherLineKeeps
<1>7. GateIsSet' /\ Stopped' /\ Handled'
  BY <1>1 DEF AckInv, GateIsSet, Line, Stopped, Handled, IsTask
<1> QED  BY <1>4, <1>6, <1>7 DEF AckInv

\* A seller that starts or ends has answered nothing.
LEMMA BlankAckInv ==
  ASSUME TaskingInv, AckInv, Blank, UNCHANGED <<laneVars, issued, cli>>
  PROVE  AckInv'
<1>1. Ordered' /\ Own'
  BY OtherLineKeeps DEF laneVars
<1>2. GateIsSet' /\ Stopped' /\ Handled'
  BY DEF Blank, GateIsSet, Stopped, Handled, NotStopped
<1> QED  BY <1>1, <1>2 DEF AckInv

\* A gate that is counted is shut, so the next frame does not go to it.
LEMMA FrameAckInv ==
  ASSUME TaskingInv, AckInv, Forward \/ \E s \in Sessions : SendFrame(s)
  PROVE  AckInv'
<1>1. UNCHANGED <<lane, issued, cli, gate, lanePos, consuming, answered>>
  BY DEF Forward, SendFrame, laneVars
<1>2. Ordered' /\ Own'
  BY <1>1, OtherLineKeeps
<1>3. GateIsSet' /\ Handled'
  BY <1>1 DEF AckInv, GateIsSet, Line, Handled, IsTask
<1>4. Stopped'
  <2>1. CASE Forward
    BY <2>1 DEF Forward, AckInv, Stopped, NotStopped
  <2>2. ASSUME NEW s \in Sessions, SendFrame(s) PROVE Stopped'
    <3>1. /\ s \in targets /\ targets' = targets \ {s} /\ gate' = gate
          /\ lateFrames' = [lateFrames EXCEPT ![s] = IF @ \in {0, 1} THEN @ + 1 ELSE @]
      BY <2>2 DEF SendFrame
    <3>2. lateFrames[s] \in {NotStopped, 0}
      BY <3>1 DEF AckInv, Stopped
    <3>3. lateFrames'[s] \in {NotStopped, 0, 1}
          /\ (lateFrames'[s] # NotStopped => lateFrames[s] # NotStopped)
      BY <3>1, <3>2 DEF AckInv, Stopped, NotStopped
    <3>4. \A r \in Sessions \ {s} : lateFrames'[r] = lateFrames[r]
      BY <3>1 DEF AckInv, Stopped
    <3>5. lateFrames' \in [Sessions -> {NotStopped, 0, 1}]
      BY <3>1, <3>3, <3>4 DEF AckInv, Stopped
    <3> QED  BY <3>1, <3>3, <3>4, <3>5 DEF AckInv, Stopped
  <2> QED  BY <1>1, <2>1, <2>2
<1> QED  BY <1>1, <1>2, <1>3, <1>4 DEF AckInv

LEMMA TakeLineAckInv ==
  ASSUME TaskingInv, AckInv, TakeLine
  PROVE  AckInv'
<1>1. /\ UNCHANGED <<lane, issued, cli, gate, targets, answered, lateFrames>>
      /\ consuming = "next" /\ lanePos' = lanePos + 1 /\ lanePos \in Nat
  BY DEF TakeLine, drain, laneVars, TaskingInv, TaskingTypeOK
<1>2. Ordered' /\ Own'
  BY <1>1, OtherLineKeeps
<1>3. GateIsSet'
  <2>1. consuming' = "ack" => lane[lanePos'].control = "other"
    BY DEF TakeLine
  <2>2. consuming' # "active"
    BY DEF TakeLine
  <2> QED  BY <1>1, <2>1, <2>2 DEF GateIsSet, Line
<1>4. Stopped'
  BY <1>1 DEF AckInv, Stopped
<1>5. Handled'
  <2>1. \A i \in 1..lanePos : i \in 1..lanePos' /\ i # lanePos'
    BY <1>1
  <2> QED  BY <1>1, <2>1 DEF AckInv, Handled, IsTask
<1> QED  BY <1>1, <1>2, <1>3, <1>4, <1>5 DEF AckInv

LEMMA SetAckInv ==
  ASSUME TaskingInv, AckInv, setGate \/ setActiveTask
  PROVE  AckInv'
<1>1. /\ UNCHANGED <<lane, issued, cli, lanePos, targets, answered>>
      /\ consuming # "next"
  BY DEF setGate, setActiveTask, laneVars
<1>2. Ordered' /\ Own'
  BY <1>1, OtherLineKeeps
<1>3. Handled'
  BY <1>1 DEF AckInv, Handled, IsTask
<1>4. CASE setActiveTask
  BY <1>1, <1>2, <1>3, <1>4 DEF setActiveTask, AckInv, GateIsSet, Line, Stopped
<1>5. CASE setGate
  <2>1. CASE Line.from \notin Sessions
    <3>1. UNCHANGED <<gate, lateFrames>> /\ Line' = Line
      BY <1>1, <1>5, <2>1 DEF setGate, Line
    <3> QED  BY <1>1, <1>2, <1>3, <2>1, <3>1 DEF AckInv, GateIsSet, Stopped
  <2>2. CASE Line.from \in Sessions
    <3>1. PICK f \in Sessions, starts \in BOOLEAN :
            /\ f = Line.from /\ starts = (Line.control = "start")
            /\ gate' = [gate EXCEPT ![f] = starts]
            /\ lateFrames' = [lateFrames EXCEPT ![f] = IF starts THEN NotStopped ELSE @]
      BY <1>5, <2>2 DEF setGate
    <3>2. Line' = Line
      BY <1>1 DEF Line
    <3>3. gate \in [Sessions -> BOOLEAN]
      BY DEF TaskingInv, TaskingTypeOK
    <3>4. GateIsSet'
      BY <3>1, <3>2, <3>3 DEF GateIsSet
    <3>5. Stopped'
      <4>1. /\ gate'[f] = starts /\ (starts => lateFrames'[f] = NotStopped)
            /\ ~starts => lateFrames'[f] = lateFrames[f]
            /\ \A s \in Sessions \ {f} : gate'[s] = gate[s] /\ lateFrames'[s] = lateFrames[s]
        BY <3>1, <3>3 DEF AckInv, Stopped
      <4>2. lateFrames' \in [Sessions -> {NotStopped, 0, 1}]
        BY <3>1 DEF AckInv, Stopped
      <4>3. \A s \in Sessions : /\ lateFrames'[s] # NotStopped => ~gate'[s]
                                /\ lateFrames'[s] = 1 => s \notin targets'
        BY <1>1, <4>1 DEF AckInv, Stopped, NotStopped
      <4> QED  BY Zenon, <4>2, <4>3 DEF Stopped
    <3> QED  BY <1>1, <1>2, <1>3, <3>4, <3>5 DEF AckInv
  <2> QED  BY <2>1, <2>2
<1> QED  BY <1>4, <1>5

\* The task that is answered has been handled, and the gate of a STOP is shut.
LEMMA PublishAckInv ==
  ASSUME TaskingInv, AckInv, PublishTaskAck
  PROVE  AckInv'
<1> DEFINE line == [kind |-> "ack", id |-> Line.id]
<1>1. /\ UNCHANGED <<issued, cli, gate, lanePos, targets>>
      /\ consuming = "ack" /\ consuming' = "next" /\ lanePos \in 1..Len(lane)
      /\ lane \in Seq(Lines) /\ Len(lane) \in Nat
  BY DEF PublishTaskAck, TaskingInv, TaskingTypeOK, Lines
<1>2. Line \in TaskLine
  BY <1>1 DEF TaskingInv, TaskingTypeOK, Line
<1>3. line \in Lines /\ Junk \in Lines /\ line.kind # "task" /\ Junk.kind # "task"
  BY <1>2 DEF Lines, AckLine, TaskLine, Junk
<1>4. \/ lane' = lane
      \/ \E l \in Lines : l.kind # "task" /\ lane' = Append(lane, l)
  BY <1>3 DEF PublishTaskAck, AppendLine, AppendFails
<1>5. \A i \in 1..Len(lane) : lane'[i] = lane[i]
  <2>1. ASSUME NEW l \in Lines, lane' = Append(lane, l)
        PROVE  \A i \in 1..Len(lane) : lane'[i] = lane[i]
    BY <1>1, <2>1, LaneGrows
  <2> QED  BY <1>4, <2>1
<1>6. Ordered' /\ Own'
  BY <1>1, <1>4, OtherLineKeeps
<1>7. GateIsSet'
  BY <1>1 DEF GateIsSet
<1>8. Stopped'
  <2>1. CASE UNCHANGED lateFrames
    BY <1>1, <2>1 DEF AckInv, Stopped
  <2>2. CASE lateFrames' = [s \in Sessions |->
               IF s = Line.from /\ Line.control = "stop" /\ lateFrames[s] = NotStopped
               THEN 0 ELSE lateFrames[s]]
    <3>1. \A s \in Sessions : s = Line.from /\ Line.control = "stop" => ~gate[s]
      BY <1>1 DEF AckInv, GateIsSet
    <3> QED  BY <1>1, <2>2, <3>1 DEF AckInv, Stopped
  <2> QED  BY <2>1, <2>2 DEF PublishTaskAck
<1>9. Handled'
  <2>1. \A k \in answered' : k \in answered \/ k = lane[lanePos].id
    BY DEF PublishTaskAck, Line
  <2>2. lane[lanePos].kind = "task"
    BY <1>2 DEF Line, TaskLine
  <2>3. \A i \in 1..lanePos : i \in 1..Len(lane)
    BY <1>1
  <2>4. lanePos \in 1..lanePos
    BY <1>1
  <2> QED  BY <1>1, <1>5, <2>1, <2>2, <2>3, <2>4 DEF AckInv, Handled, IsTask
<1> QED  BY <1>1, <1>6, <1>7, <1>8, <1>9 DEF AckInv

LEMMA AckNextInv == TaskingInv /\ AckInv /\ [TaskingNext]_taskingVars => AckInv'
<1> SUFFICES ASSUME TaskingInv, AckInv, [TaskingNext]_taskingVars PROVE AckInv'
  OBVIOUS
<1>1. CASE StartSeller \/ StopSeller
  BY <1>1, BlankAckInv DEF StartSeller, StopSeller
<1>2. CASE Forward \/ \E s \in Sessions : SendFrame(s)
  BY <1>2, FrameAckInv
<1>3. CASE Consume
  BY <1>3, TakeLineAckInv, SetAckInv, PublishAckInv DEF Consume
<1>4. CASE UNCHANGED taskingVars
  BY <1>4 DEF taskingVars, AckInv, GateIsSet, Line, Stopped, Ordered, Own, Handled, IsTask
<1> QED  BY <1>1, <1>2, <1>3, <1>4, IssueAckInv, CliAckInv DEF TaskingNext

\* An acknowledged STOP or START has taken hold, but for the frame under way, whatever
\* consumers, tasks, failed writes and restarts there are (tasking/manager.go).
THEOREM AcknowledgedTakesHold == TaskingSpec => []AcknowledgedIsObeyed
<1>1. TaskingInv /\ AckInv => AcknowledgedIsObeyed
  <2> SUFFICES ASSUME TaskingInv, AckInv PROVE AcknowledgedIsObeyed
    OBVIOUS
  <2>1. StopStops
    BY DEF AckInv, Stopped, StopStops, NotStopped
  <2>2. OkMeansObeyed
    <3> SUFFICES ASSUME NEW s \in Sessions, cli[s].at = "ok", cli[s].id \in answered,
                        cli[s].control # "other"
                 PROVE  gate[s] <=> cli[s].control = "start"
      BY DEF OkMeansObeyed
    <3>1. PICK i \in 1..lanePos : /\ i = lanePos => consuming = "next"
                                  /\ IsTask(i) /\ lane[i].id = cli[s].id
      BY DEF AckInv, Handled
    <3>2. lanePos \in 0..Len(lane) /\ Len(lane) \in Nat /\ i \in 1..Len(lane)
      BY DEF TaskingInv, TaskingTypeOK
    <3>3. Shown \in Nat /\ i \in 1..Shown /\ Shown <= Len(lane)
      BY <3>1, <3>2 DEF Shown
    <3>4. /\ lane[i].from = s /\ lane[i].control = cli[s].control
          /\ \A j \in 1..Len(lane) : IsTask(j) /\ lane[j].from = s => lane[j].id <= cli[s].id
      BY <3>1, <3>2, TaskingAssumption DEF AckInv, Own
    <3>5. \A j \in (i + 1)..Shown : j \in (i + 1)..Len(lane) /\ j \in 1..Len(lane)
      BY <3>2, <3>3
    <3>6. IsControl(i, s) /\ \A j \in (i + 1)..Shown : ~IsControl(j, s)
      <4>1. IsControl(i, s)
        BY <3>1, <3>4 DEF IsControl, IsTask
      <4>2. ASSUME NEW j \in (i + 1)..Shown, IsControl(j, s) PROVE FALSE
        <5>1. IsTask(j) /\ lane[j].from = s
          BY <4>2 DEF IsControl, IsTask
        <5>2. lane[j].id <= lane[i].id
          BY <3>1, <3>4, <3>5, <5>1
        <5>3. /\ lane[i].id < lane[j].id
              /\ lane[i].id \in 1..issued /\ lane[j].id \in 1..issued
          BY <3>1, <3>2, <3>5, <5>1 DEF AckInv, Ordered
        <5>4. issued \in Nat
          BY TaskingAssumption DEF TaskingInv, TaskingTypeOK
        <5> QED  BY <5>2, <5>3, <5>4
      <4> QED  BY <4>1, <4>2
    <3>7. Obeys(s, Shown)
      BY DEF TaskingInv, GatesFollow
    <3>8. ASSUME NEW k \in 1..Shown, IsControl(k, s), \A j \in (k + 1)..Shown : ~IsControl(j, s)
          PROVE  k = i
      BY <3>3, <3>6, <3>8
    <3> HIDE DEF Shown
    <3> QED  BY <3>3, <3>4, <3>6, <3>7, <3>8 DEF Obeys
  <2> QED  BY <2>1, <2>2 DEF AcknowledgedIsObeyed
<1>2. TaskingSpec => []AckInv
  BY TaskingSpecInv, AckInitInv, AckNextInv, PTL DEF TaskingSpec
<1> QED  BY <1>1, <1>2, TaskingSpecInv, PTL

-----------------------------------------------------------------------------
(***************************************************************************)
(* What the sessions of the Remote ID seller report is backed by the       *)
(* escrow, for any number of buyers, any number of sessions of the seller  *)
(* and any failures.  The escrow of a buyer is empty and unused, or holds  *)
(* the price and has promised it at most once, or has paid it out and is   *)
(* used up (EscrowStage): that excludes the second release of a request    *)
(* that an old session has left on the topic.  What is on the topics is a  *)
(* promise about the escrow that stays true (TopicsTell), and either side  *)
(* goes by what it has received (SidesKnow).                               *)
(***************************************************************************)
PayloadTypes == {"serviceRequest", "serviceResponse", "escrowCreated", "connectionSetup",
                 "serviceStop", "invoice", "invoiceAck"}
Payloads == [type: PayloadTypes, id: Buyers, release: Nat]

SessionShape ==
  /\ offer \in Offer
  /\ sellerStdIn \in Seq(Payloads) /\ buyerStdIn \in [Buyers -> Seq(Payloads)]
  /\ releaseLog \in Seq(Release)
  /\ seller \in [at: SellerSteps, id: Buyers \cup {Seller}, release: Nat]
  /\ seller.at \notin {"request", "failed"} => seller.id \in Buyers
  /\ buyer \in [Buyers -> [at: BuyerSteps, release: Nat]]
  /\ balance \in [Buyers -> Int]

ReleasesOf(b) == {r \in DOMAIN releaseLog : releaseLog[r].escrow = b}
PaidBy(b) == \E r \in ReleasesOf(b) : releaseLog[r].paid
Funded(b) == balance[b] = offer.price \/ ReleasesOf(b) # {}

EscrowStage ==
  \A b \in Buyers :
    /\ \A r, q \in ReleasesOf(b) : r = q
    /\ balance[b] = IF PaidBy(b) THEN 0 ELSE IF Funded(b) THEN offer.price ELSE 0

TopicsTell ==
  \A b \in Buyers :
    /\ \A i \in DOMAIN sellerStdIn : sellerStdIn[i].id = b =>
         /\ sellerStdIn[i].type = "escrowCreated" => Funded(b)
         /\ sellerStdIn[i].type = "invoiceAck" => PaidBy(b)
    /\ \A i \in DOMAIN buyerStdIn[b] :
         /\ buyerStdIn[b][i].type = "connectionSetup" /\ offer.full => Funded(b)
         /\ buyerStdIn[b][i].type = "invoice" => buyerStdIn[b][i].release \in ReleasesOf(b)

\* What buyer b goes by, and what a seller that serves b goes by.
BuyerKnows(b) ==
  /\ buyer[b].at \in {"new", "response", "create", "deposit"} => ~Funded(b)
  /\ buyer[b].at = "announce" => Funded(b)
  /\ buyer[b].at = "approve" => buyer[b].release \in ReleasesOf(b)
  /\ buyer[b].at = "ack" \/ (buyer[b].at = "done" /\ offer.full) =>
       buyer[b].release \in ReleasesOf(b) /\ releaseLog[buyer[b].release].paid

SellerKnows(b) ==
  /\ seller.at \in {"setup", "stop", "release"} /\ offer.full => Funded(b)
  /\ seller.at \in {"invoice", "ack"} => seller.release \in ReleasesOf(b)
  /\ seller.at = "approve" \/ (seller.at = "completed" /\ offer.full) => PaidBy(b)

SidesKnow == \A b \in Buyers : BuyerKnows(b) /\ (seller.id = b => SellerKnows(b))

SessionInv == SessionShape /\ EscrowStage /\ TopicsTell /\ SidesKnow

LEMMA SessionInitInv == SessionInit => SessionInv
<1> SUFFICES ASSUME SessionInit PROVE SessionInv
  OBVIOUS
<1>1. /\ DOMAIN sellerStdIn = {} /\ DOMAIN releaseLog = {}
      /\ \A b \in Buyers : DOMAIN buyerStdIn[b] = {}
  BY DEF SessionInit
<1>2. offer \in Offer /\ offer.price \in Nat \ {0}
  BY SessionAssumption DEF SessionInit, Offer
<1>3. \A b \in Buyers : ReleasesOf(b) = {} /\ ~PaidBy(b) /\ ~Funded(b)
  BY <1>1, <1>2 DEF SessionInit, ReleasesOf, PaidBy, Funded
<1>4. SessionShape
  <2>1. << >> \in Seq(Payloads) /\ << >> \in Seq(Release)
    OBVIOUS
  <2> QED  BY <1>2, <2>1 DEF SessionInit, SessionShape, SellerSteps, BuyerSteps
<1>5. EscrowStage
  BY <1>3 DEF EscrowStage, SessionInit
<1>6. TopicsTell
  BY <1>1 DEF TopicsTell
<1>7. SidesKnow
  BY <1>3 DEF SidesKnow, BuyerKnows, SellerKnows, SessionInit
<1> QED  BY <1>4, <1>5, <1>6, <1>7 DEF SessionInv

-----------------------------------------------------------------------------

\* The least of some positions of a topic is one of them.
LEMMA MinIn ==
  ASSUME NEW n \in Nat, NEW S \in SUBSET (1..n), S # {}
  PROVE  Min(S) \in S
<1> DEFINE below == {1..i : i \in S}
<1>1. below \subseteq SUBSET (1..n) /\ below # {}
  <2>1. \A i \in S : 1..i \subseteq 1..n
    OBVIOUS
  <2> QED  BY <2>1
<1>2. IsWellFoundedOn(StrictSubsetOrdering(1..n), SUBSET (1..n))
  <2>1. IsFiniteSet(1..n)
    BY FS_Interval
  <2> QED  BY <2>1, FS_StrictSubsetOrderingWellFounded, FS_FiniteSubsetsOfFinite
<1>3. PICK X \in below : \A Y \in below : ~(<<Y, X>> \in StrictSubsetOrdering(1..n))
  <2> HIDE DEF below
  <2> QED  BY <1>1, <1>2, WFMin
<1>4. PICK i \in S : X = 1..i
  OBVIOUS
<1>5. ASSUME NEW j \in S PROVE i <= j
  <2> SUFFICES ASSUME j < i PROVE FALSE
    OBVIOUS
  <2>1. 1..j \in below
    OBVIOUS
  <2>2. i \in Nat /\ j \in Nat /\ i \in 1..i /\ i \notin 1..j
    OBVIOUS
  <2>3. 1..j \subseteq 1..i
    BY <2>2
  <2>4. 1..j \subseteq 1..n /\ 1..i \subseteq 1..n
    BY <1>1, <2>1
  <2>5. 1..j \subseteq 1..i /\ 1..j # 1..i
    BY <2>2, <2>3
  <2> HIDE DEF below
  <2>6. <<1..j, X>> \in StrictSubsetOrdering(1..n)
    BY <1>4, <2>4, <2>5 DEF StrictSubsetOrdering
  <2> QED  BY <1>3, <2>1, <2>6
<1> QED  BY <1>5 DEF Min

\* What is taken from a topic is in the topic.
LEMMA FirstMatch ==
  ASSUME NEW log \in Seq(Payloads), NEW type, NEW ids, matches(log, type, ids) # {}
  PROVE  \E i \in DOMAIN log : /\ i = Min(matches(log, type, ids))
                              /\ log[i].type = type /\ log[i].id \in ids
<1>1. matches(log, type, ids) \in SUBSET (1..Len(log)) /\ Len(log) \in Nat
  BY DEF matches
<1>2. Min(matches(log, type, ids)) \in matches(log, type, ids)
  BY <1>1, MinIn
<1> QED  BY <1>2 DEF matches

\* What a topic says stays true while the escrows only go on.
EscrowGrows ==
  \A b \in Buyers :
    /\ Funded(b) => Funded(b)'
    /\ PaidBy(b) => PaidBy(b)'
    /\ ReleasesOf(b) \subseteq ReleasesOf(b)'
    /\ \A r \in ReleasesOf(b) : releaseLog[r].paid => releaseLog'[r].paid

LEMMA EscrowStays ==
  ASSUME UNCHANGED <<offer, balance, releaseLog>>
  PROVE  /\ EscrowGrows
         /\ EscrowStage => EscrowStage'
         /\ \A b \in Buyers : /\ Funded(b)' <=> Funded(b)
                             /\ PaidBy(b)' <=> PaidBy(b)
                             /\ ReleasesOf(b)' = ReleasesOf(b)
         /\ buyer' = buyer => \A b \in Buyers : BuyerKnows(b) => BuyerKnows(b)'
         /\ seller' = seller => \A b \in Buyers : SellerKnows(b) => SellerKnows(b)'
<1>1. \A b \in Buyers : /\ Funded(b)' <=> Funded(b)
                       /\ PaidBy(b)' <=> PaidBy(b)
                       /\ ReleasesOf(b)' = ReleasesOf(b)
  BY DEF Funded, PaidBy, ReleasesOf
<1>2. EscrowGrows
  BY <1>1 DEF EscrowGrows, Funded, PaidBy, ReleasesOf
<1>3. EscrowStage => EscrowStage'
  BY <1>1 DEF EscrowStage, Funded, PaidBy, ReleasesOf
<1>4. ASSUME buyer' = buyer, NEW b \in Buyers, BuyerKnows(b) PROVE BuyerKnows(b)'
  BY <1>1, <1>4 DEF BuyerKnows, Funded, PaidBy, ReleasesOf
<1>5. ASSUME seller' = seller, NEW b \in Buyers, SellerKnows(b) PROVE SellerKnows(b)'
  BY <1>1, <1>5 DEF SellerKnows, Funded, PaidBy, ReleasesOf
<1> QED  BY <1>1, <1>2, <1>3, <1>4, <1>5

\* What may be said on a topic now.
MaySay(p) ==
  \A b \in Buyers : p.id = b =>
    /\ p.type = "escrowCreated" => Funded(b)
    /\ p.type = "invoiceAck" => PaidBy(b)
    /\ p.type = "connectionSetup" /\ offer.full => Funded(b)
    /\ p.type = "invoice" => p.release \in ReleasesOf(b)

LEMMA TopicsKept ==
  ASSUME SessionShape, TopicsTell, EscrowGrows, offer' = offer,
         \/ Silent
         \/ \E p \in Payloads : MaySay(p)' /\ (ToSeller(p) \/ ToBuyer(p.id, p))
  PROVE  /\ TopicsTell'
         /\ sellerStdIn' \in Seq(Payloads) /\ buyerStdIn' \in [Buyers -> Seq(Payloads)]
<1>1. sellerStdIn \in Seq(Payloads) /\ buyerStdIn \in [Buyers -> Seq(Payloads)]
  BY DEF SessionShape
<1>2. ASSUME NEW b \in Buyers, NEW i \in DOMAIN sellerStdIn, sellerStdIn[i].id = b
      PROVE  /\ sellerStdIn[i].type = "escrowCreated" => Funded(b)'
             /\ sellerStdIn[i].type = "invoiceAck" => PaidBy(b)'
  BY <1>2 DEF TopicsTell, EscrowGrows
<1>3. ASSUME NEW b \in Buyers, NEW i \in DOMAIN buyerStdIn[b]
      PROVE  /\ buyerStdIn[b][i].type = "connectionSetup" /\ offer.full => Funded(b)'
             /\ buyerStdIn[b][i].type = "invoice" => buyerStdIn[b][i].release \in ReleasesOf(b)'
  BY DEF TopicsTell, EscrowGrows
<1>4. CASE Silent
  BY <1>1, <1>2, <1>3, <1>4 DEF Silent, TopicsTell
<1>5. ASSUME NEW p \in Payloads, MaySay(p)', ToSeller(p)
      PROVE  /\ TopicsTell'
             /\ sellerStdIn' \in Seq(Payloads) /\ buyerStdIn' \in [Buyers -> Seq(Payloads)]
  <2>1. sellerStdIn' = Append(sellerStdIn, p) /\ buyerStdIn' = buyerStdIn
    BY <1>5 DEF ToSeller
  <2>2. /\ sellerStdIn' \in Seq(Payloads)
        /\ \A i \in DOMAIN sellerStdIn' :
             \/ i \in DOMAIN sellerStdIn /\ sellerStdIn'[i] = sellerStdIn[i]
             \/ sellerStdIn'[i] = p
    BY <1>1, <2>1
  <2>3. TopicsTell'
    BY <1>2, <1>3, <1>5, <2>1, <2>2 DEF TopicsTell, MaySay
  <2> QED  BY <1>1, <2>1, <2>2, <2>3
<1>6. ASSUME NEW p \in Payloads, MaySay(p)', ToBuyer(p.id, p)
      PROVE  /\ TopicsTell'
             /\ sellerStdIn' \in Seq(Payloads) /\ buyerStdIn' \in [Buyers -> Seq(Payloads)]
  <2>1. PICK c \in Buyers : c = p.id
    BY DEF Payloads
  <2>2. /\ sellerStdIn' = sellerStdIn
        /\ buyerStdIn' = [buyerStdIn EXCEPT ![c] = Append(buyerStdIn[c], p)]
    BY <1>6, <2>1 DEF ToBuyer
  <2>3. buyerStdIn[c] \in Seq(Payloads)
    BY <1>1
  <2>4. Append(buyerStdIn[c], p) \in Seq(Payloads)
    BY <2>3
  <2>5. /\ buyerStdIn' \in [Buyers -> Seq(Payloads)]
        /\ \A b \in Buyers : b # c => buyerStdIn'[b] = buyerStdIn[b]
        /\ buyerStdIn'[c] = Append(buyerStdIn[c], p)
    BY <1>1, <2>2, <2>4
  <2>6. \A i \in DOMAIN buyerStdIn'[c] :
             \/ i \in DOMAIN buyerStdIn[c] /\ buyerStdIn'[c][i] = buyerStdIn[c][i]
             \/ buyerStdIn'[c][i] = p
    BY <2>3, <2>5
  <2>7. TopicsTell'
    BY <1>2, <1>3, <1>6, <2>1, <2>2, <2>5, <2>6 DEF TopicsTell, MaySay
  <2> QED  BY <1>1, <2>2, <2>5, <2>7
<1> QED  BY <1>4, <1>5, <1>6

-----------------------------------------------------------------------------
\* Steps of the seller that touch no escrow.
LEMMA SellerQuiet ==
  ASSUME SessionInv, UNCHANGED <<offer, buyer, balance, releaseLog>>,
         seller' \in [at: SellerSteps, id: Buyers \cup {Seller}, release: Nat],
         seller'.at \notin {"request", "failed"} => seller'.id \in Buyers,
         \A b \in Buyers : seller'.id = b => SellerKnows(b)',
         \/ Silent
         \/ \E p \in Payloads : MaySay(p) /\ ToBuyer(p.id, p)
  PROVE  SessionInv'
<1>1. EscrowGrows /\ EscrowStage'
  BY EscrowStays DEF SessionInv
<1>2. \A b \in Buyers : BuyerKnows(b)'
  BY EscrowStays DEF SessionInv, SidesKnow
<1>3. ASSUME NEW p \in Payloads, MaySay(p) PROVE MaySay(p)'
  BY <1>3 DEF MaySay, Funded, PaidBy, ReleasesOf
<1>4. TopicsTell' /\ sellerStdIn' \in Seq(Payloads) /\ buyerStdIn' \in [Buyers -> Seq(Payloads)]
  BY <1>1, <1>3, TopicsKept DEF SessionInv
<1>5. SessionShape'
  BY <1>4 DEF SessionInv, SessionShape
<1> QED  BY <1>1, <1>2, <1>4, <1>5 DEF SessionInv, SidesKnow

LEMMA SellerStepInv ==
  ASSUME SessionInv, SellerSessionStep, UNCHANGED <<balance, releaseLog>>
  PROVE  SessionInv'
<1>1. /\ UNCHANGED <<offer, buyer>>
      /\ seller \in [at: SellerSteps, id: Buyers \cup {Seller}, release: Nat]
      /\ sellerStdIn \in Seq(Payloads)
      /\ seller.at \notin {"request", "failed"} => seller.id \in Buyers
  BY DEF SellerSessionStep, ReceiveServiceRequest, PublishServiceResponse, ReceiveEscrowCreated,
     PublishConnectionSetup, ReceiveServiceStop, AskRelease, PublishInvoice, ReceiveInvoiceAck,
     ApproveToo, SellerGoes, SessionInv, SessionShape
<1>2. CASE ReceiveServiceRequest
  <2>1. PICK i \in DOMAIN sellerStdIn :
          /\ i = Min(matches(sellerStdIn, "serviceRequest", Buyers))
          /\ sellerStdIn[i].id \in Buyers
    BY <1>1, <1>2, FirstMatch DEF ReceiveServiceRequest
  <2>2. seller' = [at |-> "respond", id |-> sellerStdIn[i].id, release |-> 0] /\ Silent
    BY <1>2, <2>1 DEF ReceiveServiceRequest
  <2>3. \A b \in Buyers : SellerKnows(b)'
    BY <2>2 DEF SellerKnows
  <2>4. /\ seller' \in [at: SellerSteps, id: Buyers \cup {Seller}, release: Nat]
        /\ seller'.id \in Buyers
    BY <2>1, <2>2 DEF SellerSteps
  <2> QED  BY <1>1, <2>2, <2>3, <2>4, SellerQuiet
<1>3. ASSUME seller.at \notin {"request", "failed"}, NEW step \in SellerSteps,
             seller' = [seller EXCEPT !.at = step],
             \A b \in Buyers : b = seller.id =>
               /\ SellerKnows(b) => SellerKnows(b)'
               /\ \/ Silent
                  \/ \E p \in Payloads : MaySay(p) /\ p.id = b /\ ToBuyer(b, p)
      PROVE  SessionInv'
  <2>1. PICK b \in Buyers : b = seller.id
    BY <1>1, <1>3
  <2>2. /\ seller' \in [at: SellerSteps, id: Buyers \cup {Seller}, release: Nat]
        /\ seller'.id = b
    BY <1>1, <1>3, <2>1
  <2>3. SellerKnows(b)'
    BY <1>3, <2>1 DEF SessionInv, SidesKnow
  <2>4. Silent \/ \E p \in Payloads : MaySay(p) /\ ToBuyer(p.id, p)
    BY <1>3, <2>1
  <2> QED  BY <1>1, <2>2, <2>3, <2>4, SellerQuiet
<1>4. \A b \in Buyers : /\ Funded(b)' <=> Funded(b)
                       /\ PaidBy(b)' <=> PaidBy(b)
                       /\ ReleasesOf(b)' = ReleasesOf(b)
  BY <1>1, EscrowStays
<1>5. \A b \in Buyers : b = seller.id => SellerKnows(b)
  BY DEF SessionInv, SidesKnow
<1>6. CASE PublishServiceResponse \/ PublishConnectionSetup \/ PublishInvoice
  <2>1. PICK step \in {"escrow", "setup", "stop", "completed", "ack"},
             type \in {"serviceResponse", "connectionSetup", "invoice"}, release \in Nat :
          /\ seller' = [seller EXCEPT !.at = step]
          /\ ToBuyer(seller.id, Payload(type, seller.id, release))
          /\ \/ seller.at = "respond" /\ type = "serviceResponse"
                /\ (step = "escrow" \/ (step = "setup" /\ ~offer.full))
             \/ seller.at = "setup" /\ type = "connectionSetup"
                /\ (step = "stop" \/ (step = "completed" /\ ~offer.full))
             \/ /\ seller.at = "invoice" /\ type = "invoice" /\ step = "ack"
                /\ release = seller.release
    <3>1. seller.release \in Nat
      BY <1>1
    <3>2. CASE PublishServiceResponse
      BY <3>2 DEF PublishServiceResponse, SellerGoes
    <3>3. CASE PublishConnectionSetup
      BY <3>3 DEF PublishConnectionSetup, SellerGoes
    <3>4. CASE PublishInvoice
      BY <3>1, <3>4 DEF PublishInvoice, SellerGoes
    <3> QED  BY <1>6, <3>2, <3>3, <3>4
  <2>2. step \in SellerSteps /\ seller.at \notin {"request", "failed"}
    BY <2>1 DEF SellerSteps
  <2>3. seller'.at = step /\ seller'.release = seller.release /\ UNCHANGED offer
    BY <1>1, <2>1
  <2>4. ASSUME NEW b \in Buyers, b = seller.id
        PROVE  /\ SellerKnows(b) => SellerKnows(b)'
               /\ \E p \in Payloads : MaySay(p) /\ p.id = b /\ ToBuyer(b, p)
    <3>1. SellerKnows(b)
      BY <1>5, <2>4
    <3>2. SellerKnows(b)'
      BY <1>1, <2>1, <2>3, <3>1 DEF SellerKnows, Funded, PaidBy, ReleasesOf
    <3> DEFINE p == Payload(type, b, release)
    <3>3. p \in Payloads /\ p.type = type /\ p.id = b /\ p.release = release
      BY DEF Payload, Payloads, PayloadTypes
    <3> HIDE DEF p
    <3>4. MaySay(p)
      BY <2>1, <3>1, <3>3 DEF MaySay, SellerKnows
    <3>5. ToBuyer(b, p)
      BY <2>1, <2>4 DEF p
    <3> QED  BY <3>2, <3>3, <3>4, <3>5
  <2> QED  BY <1>3, <2>1, <2>2, <2>4
<1>7. ASSUME NEW type \in {"escrowCreated", "serviceStop", "invoiceAck"},
             matches(sellerStdIn, type, {seller.id}) # {},
             NEW b \in Buyers, b = seller.id
      PROVE  /\ type = "escrowCreated" => Funded(b)
             /\ type = "invoiceAck" => PaidBy(b)
  BY <1>7 DEF matches, SessionInv, TopicsTell
<1>8. CASE ReceiveEscrowCreated \/ ReceiveServiceStop \/ ReceiveInvoiceAck
  <2>1. PICK step \in {"setup", "release", "approve"} :
          /\ seller' = [seller EXCEPT !.at = step] /\ Silent
          /\ \/ /\ seller.at = "escrow" /\ step = "setup"
                /\ matches(sellerStdIn, "escrowCreated", {seller.id}) # {}
             \/ seller.at = "stop" /\ step = "release"
             \/ /\ seller.at = "ack" /\ step = "approve"
                /\ matches(sellerStdIn, "invoiceAck", {seller.id}) # {}
    BY <1>8 DEF ReceiveEscrowCreated, ReceiveServiceStop, ReceiveInvoiceAck, SellerGoes
  <2>2. step \in SellerSteps /\ seller.at \notin {"request", "failed"}
    BY <2>1 DEF SellerSteps
  <2>3. seller'.at = step /\ seller'.release = seller.release /\ UNCHANGED offer
    BY <1>1, <2>1
  <2>4. ASSUME NEW b \in Buyers, b = seller.id
        PROVE  SellerKnows(b)'
    <3>1. SellerKnows(b)
      BY <1>5, <2>4
    <3>2. step = "setup" => Funded(b)
      BY <1>7, <2>1, <2>4
    <3>3. step = "approve" => PaidBy(b)
      BY <1>7, <2>1, <2>4
    <3> QED  BY <1>1, <2>1, <2>3, <3>1, <3>2, <3>3 DEF SellerKnows, Funded, PaidBy, ReleasesOf
  <2> QED  BY <1>3, <2>1, <2>2, <2>4
<1>9. CASE AskRelease
  <2>1. PICK step \in {"invoice", "failed"} : seller' = [seller EXCEPT !.at = step] /\ step = "failed"
    <3>1. Len(releaseLog) \in Nat /\ releaseLog \in Seq(Release)
      BY DEF SessionInv, SessionShape
    <3>2. \A x : releaseLog # Append(releaseLog, x)
      BY <3>1
    <3> QED  BY <1>9, <3>2 DEF AskRelease
  <2>2. Silent /\ step \in SellerSteps /\ seller.at \notin {"request", "failed"}
    BY <1>9, <2>1 DEF AskRelease, SellerSteps
  <2>3. seller'.at = "failed"
    BY <1>1, <2>1
  <2>4. \A b \in Buyers : SellerKnows(b)'
    BY <2>3 DEF SellerKnows
  <2> QED  BY <1>3, <2>1, <2>2, <2>4
<1>10. CASE ApproveToo
  <2>1. /\ seller.at = "approve" /\ seller' = [seller EXCEPT !.at = "completed"] /\ Silent
        /\ "completed" \in SellerSteps
    BY <1>10 DEF ApproveToo, SellerSteps
  <2>2. seller'.at = "completed"
    BY <1>1, <2>1
  <2>3. \A b \in Buyers : SellerKnows(b) => SellerKnows(b)'
    BY <1>1, <2>1, <2>2 DEF SellerKnows, Funded, PaidBy, ReleasesOf
  <2> QED  BY <1>3, <2>1, <2>3
<1> QED
  BY <1>2, <1>6, <1>8, <1>9, <1>10 DEF SellerSessionStep

\* A session of the seller that fails or starts goes by nothing.
LEMMA SellerEndsInv ==
  ASSUME SessionInv, SellerFails \/ NextSession
  PROVE  SessionInv'
<1>1. /\ UNCHANGED <<offer, buyer, balance, releaseLog>> /\ Silent
      /\ seller'.at \in {"failed", "request"}
      /\ seller' \in [at: SellerSteps, id: Buyers \cup {Seller}, release: Nat]
  <2>1. seller \in [at: SellerSteps, id: Buyers \cup {Seller}, release: Nat]
    BY DEF SessionInv, SessionShape
  <2>2. CASE SellerFails
    BY <2>1, <2>2 DEF SellerFails, SellerSteps
  <2>3. CASE NextSession
    BY <2>3 DEF NextSession, SellerSteps
  <2> QED  BY <2>2, <2>3
<1>2. \A b \in Buyers : SellerKnows(b)'
  BY <1>1 DEF SellerKnows
<1> QED  BY <1>1, <1>2, SellerQuiet

-----------------------------------------------------------------------------
\* Steps of a buyer that touch no escrow.
LEMMA BuyerQuiet ==
  ASSUME SessionInv, UNCHANGED <<offer, seller, balance, releaseLog>>, NEW b \in Buyers,
         NEW k \in [at: BuyerSteps, release: Nat],
         buyer' = [buyer EXCEPT ![b] = k],
         BuyerKnows(b)',
         \/ Silent
         \/ \E p \in Payloads : MaySay(p) /\ p.type # "connectionSetup" /\ ToSeller(p)
  PROVE  SessionInv'
<1>1. EscrowGrows /\ EscrowStage'
  BY EscrowStays DEF SessionInv
<1>2. \A c \in Buyers : SellerKnows(c) => SellerKnows(c)'
  BY EscrowStays
<1>3. /\ buyer' \in [Buyers -> [at: BuyerSteps, release: Nat]]
      /\ \A c \in Buyers : c # b => buyer'[c] = buyer[c]
  BY DEF SessionInv, SessionShape
<1>4. ASSUME NEW c \in Buyers, c # b PROVE BuyerKnows(c)'
  BY <1>3, <1>4 DEF SessionInv, SidesKnow, BuyerKnows, Funded, ReleasesOf
<1>5. ASSUME NEW p \in Payloads, MaySay(p) PROVE MaySay(p)'
  BY <1>5 DEF MaySay, Funded, PaidBy, ReleasesOf
<1>6. TopicsTell' /\ sellerStdIn' \in Seq(Payloads) /\ buyerStdIn' \in [Buyers -> Seq(Payloads)]
  BY <1>1, <1>5, TopicsKept DEF SessionInv
<1>7. SessionShape'
  BY <1>3, <1>6 DEF SessionInv, SessionShape
<1> QED  BY <1>1, <1>2, <1>4, <1>6, <1>7 DEF SessionInv, SidesKnow

LEMMA BuyerStepInv ==
  ASSUME SessionInv, NEW b \in Buyers,
         PublishServiceRequest(b) \/ BuyerSessionStep(b) \/ BuyerFails(b),
         UNCHANGED <<balance, releaseLog>>
  PROVE  SessionInv'
<1>1. /\ UNCHANGED <<offer, seller>> /\ buyerStdIn[b] \in Seq(Payloads)
      /\ buyer \in [Buyers -> [at: BuyerSteps, release: Nat]]
      /\ buyer[b] \in [at: BuyerSteps, release: Nat] /\ offer.price \in Nat \ {0}
      /\ balance[b] \in Int
  BY DEF SessionInv, SessionShape, Offer, PublishServiceRequest, BuyerFails, BuyerSessionStep,
     ReceiveServiceResponse, OpenEscrow, Fund, PublishEscrowCreated, ReceiveConnectionSetup,
     EndFrames, PublishServiceStop, ReceiveInvoice, ApproveInvoice, PublishInvoiceAck, BuyerGoes
<1>2. BuyerKnows(b)
  BY DEF SessionInv, SidesKnow
<1>3. ASSUME NEW step \in BuyerSteps, buyer' = [buyer EXCEPT ![b].at = step],
             BuyerKnows(b)',
             \/ Silent
             \/ \E p \in Payloads : MaySay(p) /\ p.type # "connectionSetup" /\ ToSeller(p)
      PROVE  SessionInv'
  <2> DEFINE k == [buyer[b] EXCEPT !.at = step]
  <2>1. k \in [at: BuyerSteps, release: Nat] /\ k.at = step
    BY <1>1
  <2>2. buyer' = [buyer EXCEPT ![b] = k]
    BY <1>3
  <2> QED  BY <1>1, <1>3, <2>1, <2>2, BuyerQuiet
<1>4. CASE \/ PublishServiceRequest(b) \/ PublishEscrowCreated(b) \/ PublishServiceStop(b)
           \/ PublishInvoiceAck(b)
  <2>1. PICK step \in {"response", "setup", "invoice", "done"},
             type \in {"serviceRequest", "escrowCreated", "serviceStop", "invoiceAck"} :
          /\ buyer' = [buyer EXCEPT ![b].at = step] /\ ToSeller(Payload(type, b, 0))
          /\ \/ buyer[b].at = "new" /\ type = "serviceRequest" /\ step = "response"
             \/ buyer[b].at = "announce" /\ type = "escrowCreated" /\ step = "setup"
             \/ buyer[b].at = "stop" /\ type = "serviceStop" /\ step = "invoice"
             \/ buyer[b].at = "ack" /\ type = "invoiceAck" /\ step = "done"
    BY <1>4 DEF PublishServiceRequest, PublishEscrowCreated, PublishServiceStop,
       PublishInvoiceAck, BuyerGoes
  <2>2. step \in BuyerSteps /\ buyer'[b].at = step /\ buyer'[b].release = buyer[b].release
    BY <1>1, <2>1 DEF BuyerSteps
  <2>3. BuyerKnows(b)'
    BY <1>1, <1>2, <2>1, <2>2 DEF BuyerKnows, Funded, ReleasesOf
  <2> DEFINE p == Payload(type, b, 0)
  <2>4. p \in Payloads /\ p.type = type /\ p.id = b
    BY DEF Payload, Payloads, PayloadTypes
  <2> HIDE DEF p
  <2>5. MaySay(p) /\ p.type # "connectionSetup"
    BY <1>2, <2>1, <2>4 DEF MaySay, BuyerKnows, PaidBy
  <2>6. ToSeller(p)
    BY <2>1 DEF p
  <2> QED  BY <1>3, <2>1, <2>2, <2>3, <2>4, <2>5, <2>6
<1>5. CASE ReceiveServiceResponse(b) \/ OpenEscrow(b) \/ ReceiveConnectionSetup(b) \/ EndFrames(b)
             \/ BuyerFails(b)
  <2>1. PICK step \in {"create", "setup", "deposit", "stream", "stop", "done", "failed"} :
          /\ buyer' = [buyer EXCEPT ![b].at = step] /\ Silent
          /\ step \in {"create", "deposit"} => buyer[b].at \in {"response", "create"}
          /\ step = "done" => ~offer.full
    BY <1>5 DEF ReceiveServiceResponse, Receives, OpenEscrow, ReceiveConnectionSetup, EndFrames,
       BuyerFails, BuyerGoes
  <2>2. step \in BuyerSteps /\ buyer'[b].at = step
    BY <1>1, <2>1 DEF BuyerSteps
  <2>3. BuyerKnows(b)'
    BY <1>1, <1>2, <2>1, <2>2 DEF BuyerKnows, Funded, ReleasesOf
  <2> QED  BY <1>3, <2>1, <2>2, <2>3
<1>6. CASE ReceiveInvoice(b)
  <2>1. PICK i \in DOMAIN buyerStdIn[b] :
          /\ i = Min(matches(buyerStdIn[b], "invoice", {b}))
          /\ buyerStdIn[b][i].type = "invoice"
    <3>1. matches(buyerStdIn[b], "invoice", {b}) # {}
      BY <1>6 DEF ReceiveInvoice, Receives
    <3>2. PICK log \in Seq(Payloads), ids \in {{b}} : log = buyerStdIn[b]
      BY <1>1
    <3>3. matches(log, "invoice", ids) # {}
      BY <3>1, <3>2
    <3>4. \E i \in DOMAIN log : /\ i = Min(matches(log, "invoice", ids))
                               /\ log[i].type = "invoice" /\ log[i].id \in ids
      BY <3>3, FirstMatch
    <3> QED  BY <3>2, <3>4
  <2>2. PICK r \in ReleasesOf(b) : r = buyerStdIn[b][i].release
    BY <2>1 DEF SessionInv, TopicsTell
  <2> DEFINE k == [at |-> "approve", release |-> r]
  <2>3. buyer' = [buyer EXCEPT ![b] = k] /\ Silent
    BY <1>6, <2>1, <2>2 DEF ReceiveInvoice, Receives
  <2>4. k \in [at: BuyerSteps, release: Nat] /\ k.at = "approve" /\ k.release = r
    <3>1. r \in Nat
      BY DEF ReleasesOf, SessionInv, SessionShape
    <3> QED  BY <3>1 DEF BuyerSteps
  <2>5. BuyerKnows(b)'
    BY <1>1, <2>3, <2>4 DEF BuyerKnows, ReleasesOf
  <2> HIDE DEF k
  <2> QED  BY <1>1, <2>3, <2>4, <2>5, BuyerQuiet
<1>7. CASE Fund(b)
  <2>1. balance' = [balance EXCEPT ![b] = @ + offer.price] /\ balance \in [Buyers -> Int]
    BY <1>7 DEF Fund, SessionInv, SessionShape
  <2> QED  BY <1>1, <2>1
<1>8. CASE ApproveInvoice(b)
  <2>1. buyer' = [buyer EXCEPT ![b].at = "failed"] /\ Silent
    <3>1. ASSUME NEW r, PayRelease(b, r) PROVE FALSE
      <4>1. balance' = [balance EXCEPT ![b] = @ - offer.price] /\ balance \in [Buyers -> Int]
        BY <3>1 DEF PayRelease, SessionInv, SessionShape
      <4> QED  BY <1>1, <4>1
    <3> QED  BY <1>8, <3>1 DEF ApproveInvoice
  <2>2. "failed" \in BuyerSteps /\ buyer'[b].at = "failed"
    BY <1>1, <2>1 DEF BuyerSteps
  <2>3. BuyerKnows(b)'
    BY <2>2 DEF BuyerKnows
  <2> QED  BY <1>3, <2>1, <2>2, <2>3
<1> QED
  BY <1>4, <1>5, <1>6, <1>7, <1>8 DEF BuyerSessionStep

-----------------------------------------------------------------------------
(* Steps of the escrow *)

\* The buyer deposits once, into an escrow that is empty.
LEMMA FundInv ==
  ASSUME SessionInv, NEW b \in Buyers, Fund(b)
  PROVE  SessionInv'
<1>1. /\ buyer[b].at = "deposit" /\ Silent
      /\ balance' = [balance EXCEPT ![b] = @ + offer.price]
      /\ buyer' = [buyer EXCEPT ![b].at = "announce"]
      /\ UNCHANGED <<offer, seller, releaseLog>>
  BY DEF Fund, BuyerGoes
<1>2. /\ offer.price \in Nat \ {0} /\ balance \in [Buyers -> Int]
      /\ buyer \in [Buyers -> [at: BuyerSteps, release: Nat]]
  BY DEF SessionInv, SessionShape, Offer
<1>3. ~Funded(b) /\ ReleasesOf(b) = {}
  BY <1>1 DEF SessionInv, SidesKnow, BuyerKnows, Funded
<1>4. balance[b] = 0
  BY <1>3 DEF SessionInv, EscrowStage, PaidBy
<1>5. balance'[b] = offer.price /\ \A c \in Buyers : c # b => balance'[c] = balance[c]
  BY <1>1, <1>2, <1>4
<1>6. \A c \in Buyers : ReleasesOf(c)' = ReleasesOf(c) /\ (PaidBy(c)' <=> PaidBy(c))
  BY <1>1 DEF ReleasesOf, PaidBy
<1>7. \A c \in Buyers : /\ c # b => (Funded(c)' <=> Funded(c))
                       /\ Funded(b)'
  BY <1>1, <1>5 DEF Funded, ReleasesOf
<1>8. EscrowGrows
  BY <1>1, <1>3, <1>5 DEF EscrowGrows, Funded, ReleasesOf, PaidBy
<1>9. EscrowStage'
  <2>1. ASSUME NEW c \in Buyers, c # b
        PROVE  /\ \A r, q \in ReleasesOf(c)' : r = q
               /\ balance'[c] = IF PaidBy(c)' THEN 0 ELSE IF Funded(c)' THEN offer'.price ELSE 0
    BY <1>1, <1>5, <2>1 DEF SessionInv, EscrowStage, PaidBy, Funded, ReleasesOf
  <2>2. ~PaidBy(b)' /\ ReleasesOf(b)' = {}
    BY <1>1, <1>3 DEF PaidBy, ReleasesOf
  <2>3. balance'[b] = IF PaidBy(b)' THEN 0 ELSE IF Funded(b)' THEN offer'.price ELSE 0
    BY <1>1, <1>5, <2>2 DEF Funded
  <2> QED  BY <2>1, <2>2, <2>3 DEF EscrowStage
<1>10. TopicsTell' /\ sellerStdIn' \in Seq(Payloads) /\ buyerStdIn' \in [Buyers -> Seq(Payloads)]
  BY <1>1, <1>8, TopicsKept DEF SessionInv
<1>11. /\ buyer' \in [Buyers -> [at: BuyerSteps, release: Nat]] /\ buyer'[b].at = "announce"
       /\ \A c \in Buyers : c # b => buyer'[c] = buyer[c]
  BY <1>1, <1>2 DEF BuyerSteps
<1>12. balance' \in [Buyers -> Int]
  BY <1>1, <1>2
<1>13. SessionShape'
  BY <1>1, <1>10, <1>11, <1>12 DEF SessionInv, SessionShape
<1>14. ASSUME NEW c \in Buyers PROVE BuyerKnows(c)'
  <2>1. CASE c = b
    BY <1>5, <1>1, <1>11, <2>1 DEF BuyerKnows, Funded
  <2>2. CASE c # b
    BY <1>1, <1>5, <1>11, <2>2 DEF SessionInv, SidesKnow, BuyerKnows, Funded, ReleasesOf
  <2> QED  BY <2>1, <2>2
<1>15. ASSUME NEW c \in Buyers, seller.id = c PROVE SellerKnows(c)'
  <2>1. SellerKnows(c)
    BY <1>15 DEF SessionInv, SidesKnow
  <2>2. Funded(c) => Funded(c)'
    BY <1>8 DEF EscrowGrows
  <2> QED  BY <1>1, <2>1, <2>2 DEF SellerKnows, PaidBy, ReleasesOf
<1> QED  BY <1>1, <1>9, <1>10, <1>13, <1>14, <1>15 DEF SessionInv, SidesKnow

\* The price can be promised only by an escrow that holds it and has promised nothing yet.
LEMMA AvailableIsFree ==
  ASSUME SessionInv, NEW b \in Buyers, offer.price <= Available(b)
  PROVE  ReleasesOf(b) = {} /\ Funded(b)
<1>1. offer.price \in Nat \ {0} /\ balance[b] \in Int /\ releaseLog \in Seq(Release)
  BY DEF SessionInv, SessionShape, Offer
<1>2. /\ Pending(b) \subseteq ReleasesOf(b) /\ IsFiniteSet(Pending(b))
      /\ \A r \in ReleasesOf(b) : releaseLog[r].paid \/ r \in Pending(b)
  <2>1. IsFiniteSet(1..Len(releaseLog)) /\ Pending(b) \subseteq 1..Len(releaseLog)
    <3>1. Len(releaseLog) \in Nat /\ DOMAIN releaseLog = 1..Len(releaseLog)
      BY <1>1
    <3>2. \A m, k \in Int : IsFiniteSet(m..k)
      BY FS_Interval
    <3> QED  BY <3>1, <3>2 DEF Pending
  <2>2. IsFiniteSet(Pending(b))
    BY <2>1, FS_Subset
  <2> QED  BY <2>2 DEF Pending, ReleasesOf
<1>3. PICK n \in Nat : n = Cardinality(Pending(b))
  BY <1>2, FS_CardinalityType
<1>4. Pending(b) # {} => n # 0
  BY <1>2, <1>3, FS_EmptySet
<1>5. ASSUME NEW p \in Nat \ {0}, NEW c \in Nat PROVE p * c >= 0 /\ (c # 0 => p * c >= p)
  OBVIOUS
<1>6. PICK owed \in Int : owed = offer.price * n
  BY <1>1
<1>7. owed >= 0 /\ (n # 0 => owed >= offer.price)
  BY <1>1, <1>5, <1>6
<1>8. offer.price <= balance[b] - owed
  BY <1>3, <1>6 DEF Available
<1>9. balance[b] = IF PaidBy(b) THEN 0 ELSE IF Funded(b) THEN offer.price ELSE 0
  BY DEF SessionInv, EscrowStage
<1>10. balance[b] = offer.price /\ ~PaidBy(b) /\ Funded(b) /\ n = 0
  BY <1>1, <1>7, <1>8, <1>9
<1> QED  BY <1>2, <1>4, <1>10 DEF PaidBy

LEMMA AskReleaseInv ==
  ASSUME SessionInv, AskRelease, releaseLog' # releaseLog
  PROVE  SessionInv'
<1>1. PICK b \in Buyers : b = seller.id /\ seller.at = "release"
  BY DEF AskRelease, SessionInv, SessionShape
<1>2. PICK n \in Nat : n = Len(releaseLog) + 1
  BY DEF SessionInv, SessionShape
<1> DEFINE new == [escrow |-> b, recipient |-> b, paid |-> FALSE]
<1>3. /\ offer.price <= Available(b) /\ Silent
      /\ releaseLog' = Append(releaseLog, new)
      /\ seller' = [seller EXCEPT !.at = "invoice", !.release = n]
      /\ UNCHANGED <<offer, buyer, balance>>
  BY <1>1, <1>2 DEF AskRelease
<1>4. /\ releaseLog \in Seq(Release) /\ new \in Release
      /\ new.escrow = b /\ ~new.paid
      /\ seller \in [at: SellerSteps, id: Buyers \cup {Seller}, release: Nat]
  BY DEF SessionInv, SessionShape, Release
<1> HIDE DEF new
<1>5. /\ releaseLog' \in Seq(Release) /\ DOMAIN releaseLog' = DOMAIN releaseLog \cup {n}
      /\ n \notin DOMAIN releaseLog /\ releaseLog'[n] = new
      /\ \A r \in DOMAIN releaseLog : releaseLog'[r] = releaseLog[r]
  BY <1>2, <1>3, <1>4
<1>6. ReleasesOf(b) = {} /\ Funded(b)
  BY <1>3, AvailableIsFree
<1>7. ReleasesOf(b)' = {n} /\ \A c \in Buyers : c # b => ReleasesOf(c)' = ReleasesOf(c)
  BY <1>4, <1>5, <1>6 DEF ReleasesOf
<1>8. ASSUME NEW c \in Buyers PROVE PaidBy(c)' <=> PaidBy(c)
  <2>1. CASE c = b
    BY <1>4, <1>5, <1>6, <1>7, <2>1 DEF PaidBy
  <2>2. CASE c # b
    BY <1>5, <1>7, <2>2 DEF PaidBy, ReleasesOf
  <2> QED  BY <2>1, <2>2
<1>9. ASSUME NEW c \in Buyers PROVE Funded(c)' <=> Funded(c)
  BY <1>3, <1>6, <1>7 DEF Funded
<1>10. EscrowGrows
  <2>1. ASSUME NEW c \in Buyers PROVE ReleasesOf(c) \subseteq ReleasesOf(c)'
    BY <1>6, <1>7
  <2>2. ASSUME NEW c \in Buyers, NEW r \in ReleasesOf(c), releaseLog[r].paid
        PROVE  releaseLog'[r].paid
    BY <1>5, <2>2 DEF ReleasesOf
  <2> QED  BY <1>8, <1>9, <2>1, <2>2 DEF EscrowGrows
<1>11. EscrowStage'
  <2>1. ASSUME NEW c \in Buyers PROVE \A r, q \in ReleasesOf(c)' : r = q
    BY <1>7 DEF SessionInv, EscrowStage
  <2>2. ASSUME NEW c \in Buyers
        PROVE  balance'[c] = IF PaidBy(c)' THEN 0 ELSE IF Funded(c)' THEN offer'.price ELSE 0
    BY <1>3, <1>8, <1>9 DEF SessionInv, EscrowStage
  <2> QED  BY <2>1, <2>2 DEF EscrowStage
<1>12. TopicsTell' /\ sellerStdIn' \in Seq(Payloads) /\ buyerStdIn' \in [Buyers -> Seq(Payloads)]
  BY <1>3, <1>10, TopicsKept DEF SessionInv
<1>13. /\ seller' \in [at: SellerSteps, id: Buyers \cup {Seller}, release: Nat]
       /\ seller'.at = "invoice" /\ seller'.id = b /\ seller'.release = n
  BY <1>1, <1>3, <1>4 DEF SellerSteps
<1>14. SessionShape'
  BY <1>3, <1>5, <1>12, <1>13 DEF SessionInv, SessionShape
<1>15. ASSUME NEW c \in Buyers PROVE BuyerKnows(c)'
  <2>1. BuyerKnows(c)
    BY DEF SessionInv, SidesKnow
  <2>2. \A r \in ReleasesOf(c) : r \in ReleasesOf(c)' /\ releaseLog'[r] = releaseLog[r]
    BY <1>5, <1>6, <1>7 DEF ReleasesOf
  <2> QED  BY <1>3, <1>9, <2>1, <2>2 DEF BuyerKnows
<1>16. ASSUME NEW c \in Buyers, c = b PROVE SellerKnows(c)'
  BY <1>7, <1>13, <1>16 DEF SellerKnows
<1> QED  BY <1>11, <1>12, <1>13, <1>14, <1>15, <1>16 DEF SessionInv, SidesKnow

\* A payment promises nothing and adds nothing.
OnlyPays == \A b \in Buyers : ReleasesOf(b)' = ReleasesOf(b) /\ (Funded(b)' => Funded(b))

\* Whoever approves a release, it is paid out of the escrow it belongs to.
LEMMA PayReleaseKeeps ==
  ASSUME SessionInv, NEW b \in Buyers, NEW r, PayRelease(b, r), offer' = offer
  PROVE  /\ EscrowGrows /\ EscrowStage' /\ PaidBy(b)' /\ r \in ReleasesOf(b)'
         /\ releaseLog'[r].paid
         /\ OnlyPays
         /\ releaseLog' \in Seq(Release) /\ balance' \in [Buyers -> Int]
<1>1. /\ r \in DOMAIN releaseLog /\ r \in ReleasesOf(b) /\ ~releaseLog[r].paid
      /\ releaseLog' = [releaseLog EXCEPT ![r].paid = TRUE]
      /\ balance' = [balance EXCEPT ![b] = @ - offer.price]
  BY DEF PayRelease, Pending, ReleasesOf
<1>2. /\ releaseLog \in Seq(Release) /\ balance \in [Buyers -> Int]
      /\ offer.price \in Nat \ {0}
  BY DEF SessionInv, SessionShape, Offer
<1>3. releaseLog[r] \in Release
  BY <1>1, <1>2
<1>4. PICK k \in Release : /\ k = [releaseLog[r] EXCEPT !.paid = TRUE]
                          /\ k.paid /\ k.escrow = releaseLog[r].escrow
  <2> DEFINE k == [releaseLog[r] EXCEPT !.paid = TRUE]
  <2>1. k \in Release /\ k.paid /\ k.escrow = releaseLog[r].escrow
    BY <1>3 DEF Release
  <2> HIDE DEF k
  <2>2. k = [releaseLog[r] EXCEPT !.paid = TRUE]
    BY DEF k
  <2> QED  BY <2>1, <2>2
<1>5. releaseLog' = [releaseLog EXCEPT ![r] = k]
  BY <1>1, <1>4
<1>6. /\ releaseLog' \in Seq(Release) /\ DOMAIN releaseLog' = DOMAIN releaseLog
      /\ releaseLog'[r] = k
      /\ \A q \in DOMAIN releaseLog : q # r => releaseLog'[q] = releaseLog[q]
  <2>1. r \in 1..Len(releaseLog)
    BY <1>1, <1>2
  <2>2. \A log \in Seq(Release) : \A i \in 1..Len(log), x \in Release :
          [log EXCEPT ![i] = x] \in Seq(Release)
    BY ExceptSeq
  <2>3. releaseLog' \in Seq(Release)
    BY <1>2, <1>5, <2>1, <2>2
  <2> QED  BY <1>1, <1>5, <2>3
<1>7. \A c \in Buyers : ReleasesOf(c)' = ReleasesOf(c)
  <2>1. \A q \in DOMAIN releaseLog : releaseLog'[q].escrow = releaseLog[q].escrow
    BY <1>4, <1>6
  <2> QED  BY <1>6, <2>1 DEF ReleasesOf
<1>8. ~PaidBy(b) /\ \A q \in ReleasesOf(b) : q = r
  BY <1>1 DEF SessionInv, EscrowStage, PaidBy
<1>9. Funded(b) /\ balance[b] = offer.price
  <2>1. Funded(b)
    BY <1>1 DEF Funded
  <2> QED  BY <1>8, <2>1 DEF SessionInv, EscrowStage
<1>10. balance'[b] = 0 /\ \A c \in Buyers : c # b => balance'[c] = balance[c]
  BY <1>1, <1>2, <1>9
<1>11. PaidBy(b)'
  BY <1>1, <1>4, <1>6, <1>7 DEF PaidBy
<1>12. ASSUME NEW c \in Buyers, c # b PROVE PaidBy(c)' <=> PaidBy(c)
  <2>1. \A q \in ReleasesOf(c) : releaseLog'[q] = releaseLog[q]
    BY <1>1, <1>6, <1>12 DEF ReleasesOf
  <2> QED  BY <1>7, <2>1 DEF PaidBy
<1>13. ASSUME NEW c \in Buyers PROVE Funded(c)' <=> Funded(c)
  <2>1. CASE c = b
    BY <1>1, <1>7, <1>9, <2>1 DEF Funded
  <2>2. CASE c # b
    BY <1>7, <1>10, <2>2 DEF Funded
  <2> QED  BY <2>1, <2>2
<1>14. EscrowGrows
  <2>1. ASSUME NEW c \in Buyers, NEW q \in ReleasesOf(c), releaseLog[q].paid
        PROVE  releaseLog'[q].paid
    BY <1>1, <1>6, <2>1 DEF ReleasesOf
  <2> QED  BY <1>7, <1>8, <1>12, <1>13, <2>1 DEF EscrowGrows
<1>15. EscrowStage'
  <2>1. ASSUME NEW c \in Buyers PROVE \A q, s \in ReleasesOf(c)' : q = s
    BY <1>7 DEF SessionInv, EscrowStage
  <2>2. ASSUME NEW c \in Buyers
        PROVE  balance'[c] = IF PaidBy(c)' THEN 0 ELSE IF Funded(c)' THEN offer'.price ELSE 0
    <3>1. CASE c = b
      BY <1>10, <1>11, <3>1
    <3>2. CASE c # b
      BY <1>10, <1>12, <1>13, <3>2 DEF SessionInv, EscrowStage
    <3> QED  BY <3>1, <3>2
  <2> QED  BY <2>1, <2>2 DEF EscrowStage
<1>16. balance' \in [Buyers -> Int]
  BY <1>1, <1>2
<1>17. OnlyPays
  BY <1>7, <1>13 DEF OnlyPays
<1> QED
  BY <1>1, <1>4, <1>6, <1>7, <1>11, <1>14, <1>15, <1>16, <1>17

\* When the seller approves, the acknowledgement has told it that the buyer has: its own
\* approval finds nothing left to pay.
LEMMA NothingLeft ==
  ASSUME SessionInv, ApproveToo
  PROVE  UNCHANGED <<balance, releaseLog>>
<1>1. PICK b \in Buyers : b = seller.id /\ seller.at = "approve"
  BY DEF ApproveToo, SessionInv, SessionShape
<1>2. PaidBy(b)
  BY <1>1 DEF SessionInv, SidesKnow, SellerKnows
<1>3. Pending(b) = {}
  BY <1>2 DEF SessionInv, EscrowStage, PaidBy, Pending, ReleasesOf
<1> QED  BY <1>1, <1>3 DEF ApproveToo, PayRelease

LEMMA ApproveInvoiceInv ==
  ASSUME SessionInv, NEW b \in Buyers, ApproveInvoice(b), ~UNCHANGED <<balance, releaseLog>>
  PROVE  SessionInv'
<1>1. PICK r \in Nat : r = buyer[b].release
  BY DEF SessionInv, SessionShape
<1>2. /\ PayRelease(b, r) /\ buyer' = [buyer EXCEPT ![b].at = "ack"] /\ Silent
      /\ UNCHANGED <<offer, seller>>
  BY <1>1 DEF ApproveInvoice
<1>3. /\ EscrowGrows /\ EscrowStage' /\ PaidBy(b)' /\ r \in ReleasesOf(b)'
      /\ releaseLog'[r].paid /\ OnlyPays
      /\ releaseLog' \in Seq(Release) /\ balance' \in [Buyers -> Int]
  BY <1>2, PayReleaseKeeps
<1>4. TopicsTell' /\ sellerStdIn' \in Seq(Payloads) /\ buyerStdIn' \in [Buyers -> Seq(Payloads)]
  BY <1>2, <1>3, TopicsKept DEF SessionInv
<1>5. /\ buyer' \in [Buyers -> [at: BuyerSteps, release: Nat]]
      /\ buyer'[b].at = "ack" /\ buyer'[b].release = r
      /\ \A c \in Buyers : c # b => buyer'[c] = buyer[c]
  BY <1>1, <1>2 DEF SessionInv, SessionShape, BuyerSteps
<1>6. SessionShape'
  BY <1>2, <1>3, <1>4, <1>5 DEF SessionInv, SessionShape
<1>7. ASSUME NEW c \in Buyers PROVE BuyerKnows(c)'
  <2>1. CASE c = b
    BY <1>3, <1>5, <2>1 DEF BuyerKnows
  <2>2. CASE c # b
    <3>1. BuyerKnows(c)
      BY DEF SessionInv, SidesKnow
    <3>2. /\ Funded(c)' <=> Funded(c)
          /\ ReleasesOf(c)' = ReleasesOf(c)
          /\ \A q \in ReleasesOf(c) : releaseLog[q].paid => releaseLog'[q].paid
      <4>1. Funded(c) => Funded(c)'
        BY <1>3 DEF EscrowGrows
      <4>2. Funded(c)' => Funded(c)
        BY <1>3 DEF OnlyPays
      <4>3. \A q \in ReleasesOf(c) : releaseLog[q].paid => releaseLog'[q].paid
        BY <1>3 DEF EscrowGrows
      <4>4. ReleasesOf(c)' = ReleasesOf(c)
        BY <1>3 DEF OnlyPays
      <4> QED  BY <4>1, <4>2, <4>3, <4>4
    <3> QED  BY <1>2, <1>5, <2>2, <3>1, <3>2 DEF BuyerKnows
  <2> QED  BY <2>1, <2>2
<1>8. ASSUME NEW c \in Buyers, seller.id = c PROVE SellerKnows(c)'
  <2>1. SellerKnows(c)
    BY <1>8 DEF SessionInv, SidesKnow
  <2>2. /\ Funded(c) => Funded(c)'
        /\ PaidBy(c) => PaidBy(c)'
        /\ ReleasesOf(c)' = ReleasesOf(c)
    <3>1. Funded(c) => Funded(c)'
      BY <1>3 DEF EscrowGrows
    <3>2. PaidBy(c) => PaidBy(c)'
      BY <1>3 DEF EscrowGrows
    <3>3. ReleasesOf(c)' = ReleasesOf(c)
      BY <1>3 DEF OnlyPays
    <3> QED  BY <3>1, <3>2, <3>3
  <2> QED  BY <1>2, <2>1, <2>2 DEF SellerKnows
<1> QED  BY <1>2, <1>3, <1>4, <1>6, <1>7, <1>8 DEF SessionInv, SidesKnow

-----------------------------------------------------------------------------
LEMMA SessionNextInv == SessionInv /\ [SessionNext]_sessionVars => SessionInv'
<1> SUFFICES ASSUME SessionInv, [SessionNext]_sessionVars PROVE SessionInv'
  OBVIOUS
<1>1. CASE SellerSessionStep
  <2>1. CASE UNCHANGED <<balance, releaseLog>>
    BY <1>1, <2>1, SellerStepInv
  <2>2. CASE ~UNCHANGED <<balance, releaseLog>>
    <3>1. ~ApproveToo
      BY <2>2, NothingLeft
    <3>2. AskRelease /\ releaseLog' # releaseLog
      BY <1>1, <2>2, <3>1 DEF SellerSessionStep, ReceiveServiceRequest, PublishServiceResponse,
         ReceiveEscrowCreated, PublishConnectionSetup, ReceiveServiceStop, AskRelease,
         PublishInvoice, ReceiveInvoiceAck, SellerGoes
    <3> QED  BY <3>2, AskReleaseInv
  <2> QED  BY <2>1, <2>2
<1>2. CASE SellerFails \/ NextSession
  BY <1>2, SellerEndsInv
<1>3. ASSUME NEW b \in Buyers, PublishServiceRequest(b) \/ BuyerSessionStep(b) \/ BuyerFails(b)
      PROVE  SessionInv'
  <2>1. CASE UNCHANGED <<balance, releaseLog>>
    BY <1>3, <2>1, BuyerStepInv
  <2>2. CASE ~UNCHANGED <<balance, releaseLog>>
    <3>1. Fund(b) \/ ApproveInvoice(b)
      BY <1>3, <2>2 DEF BuyerSessionStep, PublishServiceRequest, BuyerFails,
         ReceiveServiceResponse, OpenEscrow, PublishEscrowCreated, ReceiveConnectionSetup,
         EndFrames, PublishServiceStop, ReceiveInvoice, PublishInvoiceAck, Receives, BuyerGoes
    <3> QED  BY <2>2, <3>1, FundInv, ApproveInvoiceInv
  <2> QED  BY <2>1, <2>2
<1>4. CASE UNCHANGED sessionVars
  <2>1. /\ UNCHANGED <<offer, buyer, balance, releaseLog, seller>> /\ Silent
    BY <1>4 DEF sessionVars, Silent
  <2>2. \A b \in Buyers : seller'.id = b => SellerKnows(b)'
    BY <2>1, EscrowStays DEF SessionInv, SidesKnow
  <2>3. /\ seller' \in [at: SellerSteps, id: Buyers \cup {Seller}, release: Nat]
        /\ seller'.at \notin {"request", "failed"} => seller'.id \in Buyers
    BY <2>1 DEF SessionInv, SessionShape
  <2> QED  BY <2>1, <2>2, <2>3, SellerQuiet
<1> QED  BY <1>1, <1>2, <1>3, <1>4 DEF SessionNext

LEMMA SessionInvReported == SessionInv => ReportedIsPaid
<1> SUFFICES ASSUME SessionInv PROVE ReportedIsPaid
  OBVIOUS
<1>1. SetupIsFunded
  <2>1. ASSUME NEW b \in Buyers, offer.full, Sent(b, "connectionSetup") PROVE Funded(b)
    BY <2>1 DEF Sent, matches, SessionInv, TopicsTell
  <2> QED  BY <2>1 DEF SetupIsFunded, Funded, ReleasesOf
<1>2. CompletedIsPaid
  <2> SUFFICES ASSUME offer.full, seller.at = "completed"
      PROVE  \E r \in DOMAIN releaseLog : /\ releaseLog[r].escrow = seller.id
                                          /\ releaseLog[r].paid
    BY DEF CompletedIsPaid
  <2>1. PICK b \in Buyers : b = seller.id
    BY DEF SessionInv, SessionShape
  <2>2. PaidBy(b)
    BY <2>1 DEF SessionInv, SidesKnow, SellerKnows
  <2> QED  BY <2>1, <2>2 DEF PaidBy, ReleasesOf
<1>3. ApprovedPaysOwnEscrow
  <2> SUFFICES ASSUME NEW b \in Buyers, offer.full, buyer[b].at = "done"
      PROVE  /\ buyer[b].release \in DOMAIN releaseLog
             /\ releaseLog[buyer[b].release].escrow = b
             /\ releaseLog[buyer[b].release].paid
             /\ balance[b] = 0
    BY DEF ApprovedPaysOwnEscrow
  <2>1. buyer[b].release \in ReleasesOf(b) /\ releaseLog[buyer[b].release].paid
    BY DEF SessionInv, SidesKnow, BuyerKnows
  <2>2. balance[b] = 0
    BY <2>1 DEF SessionInv, EscrowStage, PaidBy
  <2> QED  BY <2>1, <2>2 DEF ReleasesOf
<1> QED  BY <1>1, <1>2, <1>3 DEF ReportedIsPaid

\* The way to the stream is shown only to a buyer whose escrow was funded, a session of the
\* seller that reports COMPLETED was paid for, and a buyer that reports success has paid its
\* own escrow out, once: for any number of buyers and of sessions over one topic, whatever
\* fails in between.
THEOREM ReportsArePaid == SessionSpec => []ReportedIsPaid
<1>1. SessionInv => ReportedIsPaid
  BY SessionInvReported
<1> QED  BY <1>1, SessionInitInv, SessionNextInv, PTL DEF SessionSpec

\* The steps of a session before it has asked for its release.
Asking == {"request", "respond", "escrow", "setup", "stop", "release"}

\* A session asks for one release at most, and whoever names a release names one there is.
SessionTypes ==
  /\ sessions \in Nat /\ Len(releaseLog) <= sessions
  /\ seller.at \in Asking => Len(releaseLog) < sessions
  /\ seller.release \in 0..Len(releaseLog)
  /\ \A b \in Buyers :
       /\ buyer[b].release \in 0..Len(releaseLog)
       /\ \A i \in DOMAIN buyerStdIn[b] : buyerStdIn[b][i].release \in 0..Len(releaseLog)

\* They hold of a seller that waits for its first request.
LEMMA SessionTypesInit == SessionInit => SessionTypes
<1> SUFFICES ASSUME SessionInit PROVE SessionTypes
  OBVIOUS
<1>1. /\ releaseLog = <<>> /\ Len(<<>>) = 0 /\ sessions = 1
      /\ seller.release = 0
      /\ \A b \in Buyers : buyer[b].release = 0 /\ DOMAIN buyerStdIn[b] = {}
  BY DEF SessionInit
<1> QED  BY <1>1 DEF SessionTypes

\* A step that asks for no release and names none but those that were named.
LEMMA NamesKnown ==
  ASSUME SessionTypes, sessions' = sessions, Len(releaseLog') = Len(releaseLog),
         seller'.release \in {0, seller.release},
         seller'.at \in Asking => seller.at \in Asking,
         \A b \in Buyers :
           \/ buyer'[b].release = buyer[b].release
           \/ \E i \in DOMAIN buyerStdIn[b] : buyer'[b].release = buyerStdIn[b][i].release,
         \A b \in Buyers : \A i \in DOMAIN buyerStdIn'[b] :
           \/ buyerStdIn'[b][i].release \in {0, seller.release}
           \/ i \in DOMAIN buyerStdIn[b] /\ buyerStdIn'[b][i] = buyerStdIn[b][i]
  PROVE  SessionTypes'
<1>1. PICK L : L = Len(releaseLog) /\ L = Len(releaseLog')
  OBVIOUS
<1>2. /\ 0 \in 0..L /\ seller.release \in 0..L
      /\ \A b \in Buyers :
           /\ buyer[b].release \in 0..L
           /\ \A i \in DOMAIN buyerStdIn[b] : buyerStdIn[b][i].release \in 0..L
  <2>1. \A x \in 0..L : 0 \in 0..L
    BY <1>1, LenProperties
  <2> QED  BY <1>1, <2>1 DEF SessionTypes
<1>3. \A b \in Buyers :
        /\ buyer'[b].release \in 0..L
        /\ \A i \in DOMAIN buyerStdIn'[b] : buyerStdIn'[b][i].release \in 0..L
  BY <1>2
<1> QED  BY <1>1, <1>2, <1>3 DEF SessionTypes

\* A message that is added to a topic.
LEMMA AddedToBuyer ==
  ASSUME SessionShape, NEW b \in Buyers, NEW p, p \in Payloads, ToBuyer(b, p)
  PROVE  \A c \in Buyers : \A i \in DOMAIN buyerStdIn'[c] :
           \/ buyerStdIn'[c][i] = p
           \/ i \in DOMAIN buyerStdIn[c] /\ buyerStdIn'[c][i] = buyerStdIn[c][i]
<1>1. /\ buyerStdIn' = [buyerStdIn EXCEPT ![b] = Append(@, p)]
      /\ buyerStdIn \in [Buyers -> Seq(Payloads)]
  BY DEF ToBuyer, SessionShape
<1> SUFFICES ASSUME NEW c \in Buyers, NEW i \in DOMAIN buyerStdIn'[c]
             PROVE  \/ buyerStdIn'[c][i] = p
                    \/ i \in DOMAIN buyerStdIn[c] /\ buyerStdIn'[c][i] = buyerStdIn[c][i]
  OBVIOUS
<1>2. CASE c = b
  <2>1. PICK s \in Seq(Payloads) : s = buyerStdIn[b] /\ buyerStdIn'[b] = Append(s, p)
    BY <1>1
  <2>2. PICK n \in Nat : n = Len(s) /\ DOMAIN s = 1..n
    BY LenProperties
  <2>3. /\ DOMAIN Append(s, p) = 1..(n + 1) /\ Append(s, p)[n + 1] = p
        /\ \A k \in 1..n : Append(s, p)[k] = s[k]
    BY <2>2, AppendProperties, LenProperties
  <2>4. i \in 1..n \/ i = n + 1
    BY <1>2, <2>1, <2>3
  <2> QED  BY <1>2, <2>1, <2>2, <2>3, <2>4
<1>3. CASE c # b
  BY <1>1, <1>3
<1> QED  BY <1>2, <1>3

\* Paying a release out leaves the log as long as it was.
LEMMA PaidLength ==
  ASSUME SessionShape, NEW b, NEW r, PayRelease(b, r)
  PROVE  Len(releaseLog') = Len(releaseLog)
<1>1. /\ releaseLog \in Seq(Release) /\ releaseLog' = [releaseLog EXCEPT ![r].paid = TRUE]
      /\ r \in DOMAIN releaseLog
  BY DEF PayRelease, Pending, SessionShape
<1>2. PICK n \in Nat : n = Len(releaseLog) /\ releaseLog \in [1..n -> Release]
  BY <1>1, LenProperties
<1>3. [releaseLog[r] EXCEPT !.paid = TRUE] \in Release
  BY <1>1, <1>2 DEF Release
<1>4. releaseLog' \in [1..n -> Release]
  BY <1>1, <1>2, <1>3
<1>5. releaseLog' \in Seq(Release) /\ DOMAIN releaseLog' = 1..n
  BY <1>2, <1>4
<1>6. PICK m \in Nat : m = Len(releaseLog') /\ DOMAIN releaseLog' = 1..m
  BY <1>5, LenProperties
<1>7. m = n
  BY <1>2, <1>5, <1>6
<1> QED  BY <1>2, <1>6, <1>7

\* Every step keeps them.
LEMMA SessionTypesNext ==
  ASSUME SessionShape, SessionTypes, [SessionNext]_sessionVars
  PROVE  SessionTypes'
<1>0. /\ seller \in [at: SellerSteps, id: Buyers \cup {Seller}, release: Nat]
      /\ seller.at \notin {"request", "failed"} => seller.id \in Buyers
      /\ buyer \in [Buyers -> [at: BuyerSteps, release: Nat]]
      /\ buyerStdIn \in [Buyers -> Seq(Payloads)] /\ releaseLog \in Seq(Release)
      /\ Len(releaseLog) \in Nat
  BY LenProperties DEF SessionShape
<1>1. ASSUME UNCHANGED <<sessions, releaseLog, buyer>>, Silent,
             seller'.release \in {0, seller.release},
             seller'.at \in Asking => seller.at \in Asking
      PROVE  SessionTypes'
  BY <1>1, NamesKnown DEF Silent
<1>2. ASSUME UNCHANGED <<sessions, seller, buyerStdIn>>, Len(releaseLog') = Len(releaseLog),
             NEW b \in Buyers, NEW x, buyer' = [buyer EXCEPT ![b] = x], x.release = buyer[b].release
      PROVE  SessionTypes'
  <2>1. \A c \in Buyers : buyer'[c].release = buyer[c].release
    BY <1>0, <1>2
  <2> QED  BY <1>2, <2>1, NamesKnown
<1>3. ASSUME NEW step, seller.at \in Asking \/ step \notin Asking, SellerGoes(step),
             NEW type \in PayloadTypes, NEW n \in {0, seller.release},
             seller.at \notin {"request", "failed"},
             ToBuyer(seller.id, Payload(type, seller.id, n))
      PROVE  SessionTypes'
  <2>1. seller.id \in Buyers /\ Payload(type, seller.id, n) \in Payloads
        /\ Payload(type, seller.id, n).release = n
    BY <1>0, <1>3 DEF Payload, Payloads
  <2>2. \A c \in Buyers : \A i \in DOMAIN buyerStdIn'[c] :
          \/ buyerStdIn'[c][i].release = n
          \/ i \in DOMAIN buyerStdIn[c] /\ buyerStdIn'[c][i] = buyerStdIn[c][i]
    BY <1>3, <2>1, AddedToBuyer
  <2>3. /\ UNCHANGED <<sessions, buyer, releaseLog>> /\ seller'.release = seller.release
        /\ seller'.at = step
    BY <1>0, <1>3 DEF SellerGoes
  <2> QED  BY <1>3, <2>2, <2>3, NamesKnown
<1>4. ASSUME SellerSessionStep PROVE SessionTypes'
  <2>1. CASE ReceiveServiceRequest
    <3>1. /\ UNCHANGED <<sessions, releaseLog, buyer>> /\ Silent /\ seller'.release = 0
          /\ seller.at \in Asking
      BY <2>1 DEF ReceiveServiceRequest, Asking
    <3> QED  BY <1>1, <3>1
  <2>2. CASE PublishServiceResponse
    <3>1. PICK step : /\ step = (IF offer.full THEN "escrow" ELSE "setup")
                      /\ seller.at \in Asking /\ seller.at \notin {"request", "failed"}
                      /\ SellerGoes(step)
                      /\ ToBuyer(seller.id, Payload("serviceResponse", seller.id, 0))
      BY <2>2 DEF PublishServiceResponse, Asking
    <3> QED  BY <1>3, <3>1 DEF PayloadTypes
  <2>3. CASE PublishConnectionSetup
    <3>1. PICK step : /\ step = (IF offer.full THEN "stop" ELSE "completed")
                      /\ seller.at \in Asking /\ seller.at \notin {"request", "failed"}
                      /\ SellerGoes(step)
                      /\ ToBuyer(seller.id, Payload("connectionSetup", seller.id, 0))
      BY <2>3 DEF PublishConnectionSetup, Asking
    <3> QED  BY <1>3, <3>1 DEF PayloadTypes
  <2>4. CASE PublishInvoice
    <3>1. /\ "ack" \notin Asking /\ seller.at \notin {"request", "failed"} /\ SellerGoes("ack")
          /\ ToBuyer(seller.id, Payload("invoice", seller.id, seller.release))
      BY <2>4 DEF PublishInvoice, Asking
    <3> QED  BY <1>3, <3>1 DEF PayloadTypes
  <2>5. CASE ReceiveEscrowCreated \/ ReceiveServiceStop \/ ReceiveInvoiceAck
    <3>1. PICK step \in {"setup", "release", "approve"} :
            /\ seller.at \in Asking \/ step \notin Asking
            /\ SellerGoes(step) /\ Silent
      BY <2>5 DEF ReceiveEscrowCreated, ReceiveServiceStop, ReceiveInvoiceAck, Asking
    <3>2. /\ UNCHANGED <<sessions, buyer, releaseLog>> /\ seller'.release = seller.release
          /\ seller'.at = step
      BY <1>0, <3>1 DEF SellerGoes
    <3> QED  BY <1>1, <3>1, <3>2
  <2>6. CASE AskRelease
    <3>1. CASE seller' = [seller EXCEPT !.at = "failed"] /\ releaseLog' = releaseLog
      <4>1. /\ UNCHANGED <<sessions, releaseLog, buyer>> /\ Silent
            /\ seller'.release = seller.release /\ seller'.at \notin Asking
        BY <1>0, <2>6, <3>1 DEF AskRelease, Asking
      <4> QED  BY <1>1, <4>1
    <3>2. ASSUME NEW e, e = [escrow |-> seller.id, recipient |-> seller.id, paid |-> FALSE],
                 releaseLog' = Append(releaseLog, e),
                 seller' = [seller EXCEPT !.at = "invoice", !.release = Len(releaseLog) + 1]
          PROVE  SessionTypes'
      <4>1. e \in Release /\ seller.at = "release" /\ seller.at \in Asking
        BY <1>0, <2>6, <3>2 DEF AskRelease, Release, Asking
      <4>2. PICK n \in Nat : /\ n = Len(releaseLog) /\ Len(releaseLog') = n + 1
                             /\ n < sessions /\ n + 1 <= sessions /\ sessions \in Nat
        <5>1. PICK n \in Nat, k \in Nat : n = Len(releaseLog) /\ k = sessions /\ n < k
          BY <1>0, <4>1 DEF SessionTypes
        <5>2. Len(releaseLog') = n + 1 /\ sessions' = k
          BY <1>0, <2>6, <3>2, <4>1, <5>1, AppendProperties DEF AskRelease, Silent
        <5> QED  BY <5>1, <5>2
      <4>3. /\ seller'.at = "invoice" /\ "invoice" \notin Asking /\ seller'.release = n + 1
        BY <1>0, <3>2, <4>2 DEF Asking
      <4>4. \A x : x \in 0..n => x \in 0..(n + 1)
        OBVIOUS
      <4>5. n + 1 \in 0..(n + 1)
        OBVIOUS
      <4>6. UNCHANGED <<sessions, buyer, buyerStdIn>>
        BY <2>6 DEF AskRelease, Silent
      <4> QED  BY <4>2, <4>3, <4>4, <4>5, <4>6 DEF SessionTypes
    <3>3. PICK e : e = [escrow |-> seller.id, recipient |-> seller.id, paid |-> FALSE]
      OBVIOUS
    <3> QED  BY <2>6, <3>1, <3>2, <3>3 DEF AskRelease
  <2>7. CASE ApproveToo
    <3>1. /\ UNCHANGED <<sessions, buyer, buyerStdIn>> /\ seller'.release = seller.release
          /\ seller'.at \notin Asking
      BY <1>0, <2>7 DEF ApproveToo, Silent, Asking
    <3>2. Len(releaseLog') = Len(releaseLog)
      BY <2>7, PaidLength DEF ApproveToo
    <3> QED  BY <3>1, <3>2, NamesKnown
  <2> QED  BY <1>4, <2>1, <2>2, <2>3, <2>4, <2>5, <2>6, <2>7 DEF SellerSessionStep
<1>5. CASE SellerFails
  <2>1. /\ UNCHANGED <<sessions, releaseLog, buyer>> /\ Silent
        /\ seller'.release = seller.release /\ seller'.at \notin Asking
    BY <1>0, <1>5 DEF SellerFails, Asking
  <2> QED  BY <1>1, <2>1
<1>6. CASE NextSession
  <2>1. /\ UNCHANGED <<releaseLog, buyer, buyerStdIn>> /\ sessions' = sessions + 1
        /\ seller'.release = 0
    BY <1>6 DEF NextSession, Silent
  <2>2. PICK n \in Nat, k \in Nat : n = Len(releaseLog) /\ k = sessions /\ n <= k
    BY <1>0 DEF SessionTypes
  <2>3. k + 1 \in Nat /\ n < k + 1 /\ n <= k + 1 /\ 0 \in 0..n
    BY <2>2
  <2> QED  BY <2>1, <2>2, <2>3 DEF SessionTypes
<1>7. ASSUME NEW b \in Buyers, NEW step, BuyerGoes(b, step), UNCHANGED buyerStdIn
      PROVE  SessionTypes'
  <2>1. PICK x : x = [buyer[b] EXCEPT !.at = step]
    OBVIOUS
  <2>2. /\ UNCHANGED <<sessions, seller, releaseLog>> /\ buyer' = [buyer EXCEPT ![b] = x]
        /\ x.release = buyer[b].release
    BY <1>0, <1>7, <2>1 DEF BuyerGoes
  <2> QED  BY <1>2, <1>7, <2>2
<1>8. ASSUME NEW b \in Buyers, PublishServiceRequest(b) \/ BuyerSessionStep(b) \/ BuyerFails(b)
      PROVE  SessionTypes'
  <2>1. CASE PublishServiceRequest(b)
    BY <1>7, <2>1 DEF PublishServiceRequest, ToSeller
  <2>2. CASE ReceiveServiceResponse(b)
    BY <1>7, <2>2 DEF ReceiveServiceResponse, Receives, Silent
  <2>3. CASE OpenEscrow(b) \/ Fund(b) \/ EndFrames(b)
    BY <1>7, <2>3 DEF OpenEscrow, Fund, EndFrames, Silent
  <2>4. CASE PublishEscrowCreated(b) \/ PublishServiceStop(b) \/ PublishInvoiceAck(b)
    BY <1>7, <2>4 DEF PublishEscrowCreated, PublishServiceStop, PublishInvoiceAck, ToSeller
  <2>5. CASE ReceiveConnectionSetup(b)
    BY <1>7, <2>5 DEF ReceiveConnectionSetup, Receives, Silent
  <2>6. CASE ReceiveInvoice(b)
    <3>1. PICK i \in DOMAIN buyerStdIn[b] : i = Min(matches(buyerStdIn[b], "invoice", {b}))
      <4>1. PICK log \in Seq(Payloads), ids \in {{b}} : log = buyerStdIn[b]
        BY <1>0
      <4>2. matches(log, "invoice", ids) # {}
        BY <2>6, <4>1 DEF ReceiveInvoice, Receives
      <4>3. \E i \in DOMAIN log : i = Min(matches(log, "invoice", ids))
        BY <4>2, FirstMatch
      <4> QED  BY <4>1, <4>3
    <3>2. PICK x : x = buyerStdIn[b][i].release
      OBVIOUS
    <3>3. /\ UNCHANGED <<sessions, seller, releaseLog, buyerStdIn>>
          /\ buyer' = [buyer EXCEPT ![b] = [at |-> "approve", release |-> x]]
      BY <2>6, <3>1, <3>2 DEF ReceiveInvoice, Receives, Silent
    <3>4. \A c \in Buyers : \/ buyer'[c].release = buyer[c].release
                            \/ c = b /\ buyer'[c].release = buyerStdIn[b][i].release
      BY <1>0, <3>2, <3>3
    <3> QED  BY <3>3, <3>4, NamesKnown
  <2>7. CASE ApproveInvoice(b)
    <3>1. PICK step : buyer' = [buyer EXCEPT ![b].at = step]
      BY <2>7 DEF ApproveInvoice
    <3>2. PICK x : x = [buyer[b] EXCEPT !.at = step]
      OBVIOUS
    <3>3. /\ UNCHANGED <<sessions, seller, buyerStdIn>> /\ buyer' = [buyer EXCEPT ![b] = x]
          /\ x.release = buyer[b].release
      BY <1>0, <2>7, <3>1, <3>2 DEF ApproveInvoice, Silent
    <3>4. Len(releaseLog') = Len(releaseLog)
      BY <2>7, PaidLength DEF ApproveInvoice
    <3> QED  BY <1>2, <3>3, <3>4
  <2>8. CASE BuyerFails(b)
    <3>1. PICK x : x = [buyer[b] EXCEPT !.at = "failed"]
      OBVIOUS
    <3>2. /\ UNCHANGED <<sessions, seller, releaseLog, buyerStdIn>>
          /\ buyer' = [buyer EXCEPT ![b] = x] /\ x.release = buyer[b].release
      BY <1>0, <2>8, <3>1 DEF BuyerFails, Silent
    <3> QED  BY <1>2, <3>2
  <2> QED  BY <1>8, <2>1, <2>2, <2>3, <2>4, <2>5, <2>6, <2>7, <2>8 DEF BuyerSessionStep
<1>9. CASE UNCHANGED sessionVars
  BY <1>9 DEF sessionVars, SessionTypes
<1> QED  BY <1>4, <1>5, <1>6, <1>8, <1>9 DEF SessionNext

\* What the invariants say of the variables is what their types say.
LEMMA SessionTyped == ASSUME SessionInv, SessionTypes PROVE SessionTypeOK
<1>1. /\ SessionShape /\ EscrowStage /\ offer.price \in Nat
      /\ releaseLog \in [DOMAIN releaseLog -> Release]
  BY LenProperties DEF SessionInv, SessionShape, Offer
<1>2. \A b \in Buyers : balance[b] \in 0..offer.price
  BY <1>1 DEF EscrowStage
<1>3. \A b \in Buyers : \A i \in DOMAIN buyerStdIn[b] :
        buyerStdIn[b][i].type = "invoice" => buyerStdIn[b][i].release \in DOMAIN releaseLog
  BY DEF SessionInv, TopicsTell, ReleasesOf
<1> QED  BY <1>1, <1>2, <1>3 DEF SessionShape, SessionTypes, SessionTypeOK

\* The variables of the sessions keep their types; a session asks for one release at most, and
\* a release that an invoice names has been asked for (session.go, RunSellerSession).
THEOREM SessionTypeCorrect == SessionSpec => []SessionTypeOK
<1>1. SessionInv /\ SessionTypes /\ [SessionNext]_sessionVars => SessionInv' /\ SessionTypes'
  BY SessionNextInv, SessionTypesNext DEF SessionInv
<1>2. SessionInv /\ SessionTypes => SessionTypeOK
  BY SessionTyped
<1> QED  BY <1>1, <1>2, SessionInitInv, SessionTypesInit, PTL DEF SessionSpec

-----------------------------------------------------------------------------
(***************************************************************************)
(* The validator's evidence, for any number of agreements, any order of    *)
(* reading the two topics and any replays.  A snapshot never loses a type  *)
(* (ReadIsKept), and a complete one has been emitted (CompleteIsEmitted);  *)
(* what is published has its key kept (PublishedIsKept), so that no key is *)
(* published twice.                                                        *)
(***************************************************************************)
FiveTypes == {"serviceRequest", "escrowCreated", "invoiceAck", "serviceResponse", "invoice"}

Envelopes == [spec: {"008-payment", "009-p2p-data-delivery"}, id: Nat, of: Snapshots,
              verdict: {"compliant", "nonCompliant", "inconclusive"}]

ValidatorShape ==
  /\ reused \in BOOLEAN
  /\ action \in [Agreements -> {"approved", "refused"}]
  /\ position \in [CommerceTopics -> Nat]
  /\ \A t \in CommerceTopics : position[t] <= Len(topicLog(t))
  /\ replays \in 0..MaxReplays
  /\ DOMAIN agreements \subseteq RequestIds
  /\ \A r \in DOMAIN agreements : agreements[r] \in Snapshots
  /\ emittedKeys \subseteq RequestIds \X Agreements
  /\ evidence \in Seq(Envelopes)

ReadIsKept ==
  \A t \in CommerceTopics : \A i \in 1..position[t] :
    LET msg == topicLog(t)[i] IN
    msg.type # "other" /\ ~reused =>
      msg.agreement \in DOMAIN agreements /\ msg.type \in DOMAIN agreements[msg.agreement]

CompleteIsEmitted ==
  \A r \in DOMAIN agreements :
    IsComplete(agreements[r]) => emitKey(r, agreements[r]) \in emittedKeys

\* With fresh request ids a snapshot holds nothing of another agreement.
SnapshotsArePure ==
  ~reused => /\ \A r \in DOMAIN agreements : \A s \in DOMAIN agreements[r] : agreements[r][s] = r
             /\ \A k \in emittedKeys : k[1] = k[2]

PublishedIsKept ==
  \A i \in Payments : <<evidence[i].id, evidence[i].of["serviceResponse"]>> \in emittedKeys

ValidatorInv ==
  /\ ValidatorShape /\ ReadIsKept /\ CompleteIsEmitted /\ SnapshotsArePure /\ PublishedIsKept
  /\ AttestedOnce /\ EvidenceIsTrue

-----------------------------------------------------------------------------

LEMMA TopicsAre ==
  /\ CommerceTopics = {"seller.stdIn", "buyer.stdIn"}
  /\ TopicOrder["seller.stdIn"] = <<"serviceRequest", "escrowCreated", "invoiceAck">>
  /\ TopicOrder["buyer.stdIn"] = <<"serviceResponse", "invoice">>
  /\ MessageTypes = FiveTypes
<1>1. CommerceTopics = {"seller.stdIn", "buyer.stdIn"}
  BY DEF CommerceTopics, TopicOrder
<1>2. /\ TopicOrder["seller.stdIn"] = <<"serviceRequest", "escrowCreated", "invoiceAck">>
      /\ TopicOrder["buyer.stdIn"] = <<"serviceResponse", "invoice">>
  BY DEF TopicOrder
<1>3. /\ Range(TopicOrder["seller.stdIn"]) = {"serviceRequest", "escrowCreated", "invoiceAck"}
      /\ Range(TopicOrder["buyer.stdIn"]) = {"serviceResponse", "invoice"}
  BY <1>2 DEF Range
<1>4. MessageTypes = FiveTypes
  BY <1>1, <1>3 DEF MessageTypes, FiveTypes
<1> QED  BY <1>1, <1>2, <1>4

\* A topic is the five messages' part of one agreement after the other, after a first message
\* that is none of them.
LEMMA LogIs ==
  ASSUME NEW t \in CommerceTopics
  PROVE  \E n \in {2, 3} :
           /\ n = Len(TopicOrder[t])
           /\ Len(topicLog(t)) = n * NAgreements + 1
           /\ topicLog(t)[1].type = "other"
           /\ \A i \in 1..(n * NAgreements) :
                topicLog(t)[i + 1] = [type |-> TopicOrder[t][((i - 1) % n) + 1],
                                      agreement |-> ((i - 1) \div n) + 1]
<1>1. PICK n \in {2, 3} : n = Len(TopicOrder[t])
  BY TopicsAre
<1>2. NAgreements \in Nat /\ n * NAgreements \in Nat
  BY <1>1, ValidatorAssumption
<1> DEFINE first == <<[type |-> "other", agreement |-> 1]>>
           rest == [i \in 1..(n * NAgreements) |->
                      [type |-> TopicOrder[t][((i - 1) % n) + 1],
                       agreement |-> ((i - 1) \div n) + 1]]
           Msgs == {first[1]} \cup {rest[i] : i \in 1..(n * NAgreements)}
<1>3. topicLog(t) = first \o rest
  BY <1>1 DEF topicLog
<1>4. first \in Seq(Msgs) /\ Len(first) = 1 /\ first[1].type = "other"
  OBVIOUS
<1>5. rest \in Seq(Msgs) /\ Len(rest) = n * NAgreements
  <2> HIDE DEF first
  <2>1. rest \in [1..(n * NAgreements) -> Msgs]
    OBVIOUS
  <2> HIDE DEF rest, Msgs
  <2> QED  BY <1>2, <2>1
<1>6. ASSUME NEW f \in Seq(Msgs), Len(f) = 1, NEW g \in Seq(Msgs), NEW m \in Nat, Len(g) = m
      PROVE  /\ Len(f \o g) = m + 1 /\ (f \o g)[1] = f[1]
             /\ \A i \in 1..m : (f \o g)[i + 1] = g[i]
  <2> HIDE DEF first, rest, Msgs
  <2>1. Len(f \o g) = m + 1
    <3>1. Len(f \o g) = Len(f) + Len(g)
      BY <1>6, ConcatProperties
    <3> QED  BY <1>6, <3>1
  <2>2. (f \o g)[1] = f[1]
    BY <1>6, ConcatProperties
  <2>3. ASSUME NEW i \in 1..m PROVE (f \o g)[i + 1] = g[i]
    <3>1. i + 1 \in 1..(Len(f) + Len(g)) /\ ~(i + 1 <= Len(f)) /\ (i + 1) - Len(f) = i
      BY <1>6
    <3> QED  BY <3>1, ConcatProperties
  <2> QED  BY <2>1, <2>2, <2>3
<1>7. /\ Len(first \o rest) = n * NAgreements + 1 /\ (first \o rest)[1] = first[1]
      /\ \A i \in 1..(n * NAgreements) : (first \o rest)[i + 1] = rest[i]
  <2> HIDE DEF first, rest, Msgs
  <2>1. PICK m \in Nat : m = n * NAgreements
    BY <1>2
  <2>2. Len(rest) = m
    BY <1>5, <2>1
  <2>3. /\ Len(first \o rest) = m + 1 /\ (first \o rest)[1] = first[1]
        /\ \A i \in 1..m : (first \o rest)[i + 1] = rest[i]
    BY <1>4, <1>5, <1>6, <2>2
  <2> QED  BY <2>1, <2>3
<1>8. \A i \in 1..(n * NAgreements) :
        rest[i] = [type |-> TopicOrder[t][((i - 1) % n) + 1], agreement |-> ((i - 1) \div n) + 1]
  OBVIOUS
<1> HIDE DEF first, rest, Msgs
<1>9. /\ Len(topicLog(t)) = n * NAgreements + 1
      /\ topicLog(t)[1].type = "other"
      /\ \A i \in 1..(n * NAgreements) :
           topicLog(t)[i + 1] = [type |-> TopicOrder[t][((i - 1) % n) + 1],
                                 agreement |-> ((i - 1) \div n) + 1]
  BY <1>3, <1>4, <1>7, <1>8, Zenon
<1> QED  BY <1>1, <1>9, Zenon

\* What follows the first message are the five types, each of an agreement.
LEMMA LogMessages ==
  ASSUME NEW t \in CommerceTopics, NEW i \in 2..Len(topicLog(t))
  PROVE  topicLog(t)[i].type \in FiveTypes /\ topicLog(t)[i].agreement \in Agreements
<1>1. PICK n \in {2, 3} :
        /\ n = Len(TopicOrder[t])
        /\ Len(topicLog(t)) = n * NAgreements + 1
        /\ \A j \in 1..(n * NAgreements) :
             topicLog(t)[j + 1] = [type |-> TopicOrder[t][((j - 1) % n) + 1],
                                   agreement |-> ((j - 1) \div n) + 1]
  BY LogIs
<1>2. NAgreements \in Nat
  BY ValidatorAssumption
<1>3. PICK j \in 1..(n * NAgreements) : i = j + 1
  <2>1. PICK m \in Nat : m = n * NAgreements
    BY <1>1, <1>2
  <2>2. i \in 2..(m + 1)
    BY <1>1, <2>1
  <2>3. i - 1 \in 1..m /\ i = (i - 1) + 1
    BY <2>2
  <2> QED  BY <2>1, <2>3
<1>4. (j - 1) % n \in 0..(n - 1) /\ (j - 1) \div n \in 0..(NAgreements - 1)
  <2>1. CASE n = 2
    BY <1>2, <2>1
  <2>2. CASE n = 3
    BY <1>2, <2>2
  <2> QED  BY <1>1, <2>1, <2>2
<1>5. \A k \in 1..n : TopicOrder[t][k] \in FiveTypes
  BY <1>1, TopicsAre DEF FiveTypes
<1>6. PICK p, q : p = (j - 1) % n /\ q = (j - 1) \div n
  OBVIOUS
<1>7. topicLog(t)[i] = [type |-> TopicOrder[t][p + 1], agreement |-> q + 1]
  BY <1>1, <1>3, <1>6, Zenon
<1>8. p + 1 \in 1..n /\ q + 1 \in Agreements
  <2>1. p \in 0..(n - 1) /\ q \in 0..(NAgreements - 1)
    BY <1>4, <1>6, Zenon
  <2> QED  BY <1>1, <1>2, <2>1 DEF Agreements
<1> QED  BY <1>5, <1>7, <1>8

\* All five messages of every agreement are somewhere on the topics.
LEMMA LogHasAll ==
  ASSUME NEW a \in Agreements, NEW s \in FiveTypes
  PROVE  \E t \in CommerceTopics : \E i \in 1..Len(topicLog(t)) :
           topicLog(t)[i] = [type |-> s, agreement |-> a]
<1>1. PICK t \in CommerceTopics : \E k \in 1..Len(TopicOrder[t]) : TopicOrder[t][k] = s
  <2>1. CASE s \in {"serviceRequest", "escrowCreated", "invoiceAck"}
    <3>1. \E k \in 1..3 : TopicOrder["seller.stdIn"][k] = s
      BY <2>1, TopicsAre
    <3> QED  BY <3>1, TopicsAre
  <2>2. CASE s \in {"serviceResponse", "invoice"}
    <3>1. \E k \in 1..2 : TopicOrder["buyer.stdIn"][k] = s
      BY <2>2, TopicsAre
    <3> QED  BY <3>1, TopicsAre
  <2> QED  BY <2>1, <2>2 DEF FiveTypes
<1>2. PICK n \in {2, 3} :
        /\ n = Len(TopicOrder[t])
        /\ Len(topicLog(t)) = n * NAgreements + 1
        /\ \A j \in 1..(n * NAgreements) :
             topicLog(t)[j + 1] = [type |-> TopicOrder[t][((j - 1) % n) + 1],
                                   agreement |-> ((j - 1) \div n) + 1]
  BY LogIs
<1>3. PICK k \in 1..n : TopicOrder[t][k] = s
  BY <1>1, <1>2
<1>4. NAgreements \in Nat /\ a \in 1..NAgreements
  BY ValidatorAssumption DEF Agreements
<1>5. PICK j \in 1..(n * NAgreements) : ((j - 1) % n) + 1 = k /\ ((j - 1) \div n) + 1 = a
  <2>1. ASSUME NEW q \in 0..(NAgreements - 1), NEW p \in 0..1
        PROVE  2 * q + p \in 0..(2 * NAgreements - 1) /\ (2 * q + p) % 2 = p /\ (2 * q + p) \div 2 = q
    BY <1>4
  <2>2. ASSUME NEW q \in 0..(NAgreements - 1), NEW p \in 0..2
        PROVE  3 * q + p \in 0..(3 * NAgreements - 1) /\ (3 * q + p) % 3 = p /\ (3 * q + p) \div 3 = q
    BY <1>4
  <2>3. PICK q \in 0..(NAgreements - 1), p \in 0..(n - 1) : a = q + 1 /\ k = p + 1
    <3>1. /\ a - 1 \in 0..(NAgreements - 1) /\ k - 1 \in 0..(n - 1)
          /\ a = (a - 1) + 1 /\ k = (k - 1) + 1
      BY <1>2, <1>3, <1>4
    <3> QED  BY <3>1
  <2>4. PICK i \in 0..(n * NAgreements - 1) : i % n = p /\ i \div n = q
    <3>1. CASE n = 2
      BY <2>1, <3>1
    <3>2. CASE n = 3
      BY <2>2, <3>2
    <3> QED  BY <1>2, <3>1, <3>2
  <2>5. i + 1 \in 1..(n * NAgreements) /\ (i + 1) - 1 = i
    <3>1. PICK m \in Nat : m = n * NAgreements
      BY <1>2, <1>4
    <3> QED  BY <3>1
  <2> QED  BY <2>3, <2>4, <2>5
<1>6. topicLog(t)[j + 1] = [type |-> s, agreement |-> a]
  BY <1>2, <1>3, <1>5
<1>7. j + 1 \in 1..Len(topicLog(t))
  <2>1. PICK m \in Nat : m = n * NAgreements
    BY <1>2, <1>4
  <2> QED  BY <1>2, <2>1
<1> QED  BY <1>6, <1>7

\* A snapshot with one more message is a snapshot.
LEMMA PutIs ==
  ASSUME NEW f \in Snapshots \cup {<< >>}, NEW s \in FiveTypes, NEW a \in Agreements
  PROVE  /\ Put(f, s, a) \in Snapshots /\ DOMAIN Put(f, s, a) = DOMAIN f \cup {s}
         /\ Put(f, s, a)[s] = a
         /\ \A k \in DOMAIN f : k # s => Put(f, s, a)[k] = f[k]
<1>1. DOMAIN f \subseteq MessageTypes /\ \A k \in DOMAIN f : f[k] \in Agreements
  BY DEF Snapshots
<1>2. DOMAIN f \cup {s} \in SUBSET MessageTypes
  BY <1>1, TopicsAre
<1>3. Put(f, s, a) \in [(DOMAIN f \cup {s}) -> Agreements]
  BY <1>1 DEF Put
<1>4. Put(f, s, a) \in Snapshots
  BY <1>2, <1>3 DEF Snapshots
<1> QED  BY <1>4 DEF Put

LEMMA RequestIdsAre == RequestIds \subseteq Agreements
<1>1. NAgreements \in Nat
  BY ValidatorAssumption
<1> QED  BY <1>1 DEF RequestIds, requestID, Agreements

\* What is published of a snapshot: at most one payment, which comes first.
LEMMA EmitIs ==
  ASSUME evidence \in Seq(Envelopes), action \in [Agreements -> {"approved", "refused"}],
         NEW r \in Agreements, NEW snap \in Snapshots, IsComplete(snap), emitEnvelopes(r, snap)
  PROVE  /\ evidence' \in Seq(Envelopes)
         /\ \A i \in DOMAIN evidence : i \in DOMAIN evidence' /\ evidence'[i] = evidence[i]
         /\ \A i \in DOMAIN evidence' \ DOMAIN evidence :
              evidence'[i].spec = "008-payment" =>
                /\ i = Len(evidence) + 1
                /\ evidence'[i].id = r /\ evidence'[i].of = snap
                /\ evidence'[i].verdict = verdict(snap)
<1> DEFINE payment == [spec |-> "008-payment", id |-> r, of |-> snap, verdict |-> verdict(snap)]
           delivery == [spec |-> "009-p2p-data-delivery", id |-> r, of |-> snap,
                        verdict |-> "inconclusive"]
<1>1. r \in Nat
  BY DEF Agreements
<1>2. verdict(snap) \in {"compliant", "nonCompliant"}
  BY DEF verdict
<1>3. payment \in Envelopes /\ delivery \in Envelopes
  BY <1>1, <1>2 DEF Envelopes
<1>4. /\ payment.spec = "008-payment" /\ payment.id = r /\ payment.of = snap
      /\ payment.verdict = verdict(snap) /\ delivery.spec # "008-payment"
  OBVIOUS
<1>5. PICK published \in {<< >>, <<payment>>, <<delivery>>, <<payment, delivery>>} :
        evidence' = evidence \o published
  BY DEF emitEnvelopes
<1> HIDE DEF payment, delivery
<1>6. published \in Seq(Envelopes)
  <2>1. /\ << >> \in Seq(Envelopes)
        /\ <<payment>> \in Seq(Envelopes) /\ <<delivery>> \in Seq(Envelopes)
    BY <1>3
  <2>2. <<payment, delivery>> \in Seq(Envelopes)
    BY <1>3
  <2> QED  BY <1>5, <2>1, <2>2
<1>7. PICK n \in Nat : n = Len(evidence)
  OBVIOUS
<1>8. /\ evidence' \in Seq(Envelopes) /\ Len(evidence') = n + Len(published)
      /\ \A i \in 1..(n + Len(published)) :
           evidence'[i] = IF i <= n THEN evidence[i] ELSE published[i - n]
  BY <1>5, <1>6, <1>7, ConcatProperties
<1>9. /\ DOMAIN evidence = 1..n /\ DOMAIN evidence' = 1..(n + Len(published))
      /\ Len(published) \in Nat
  BY <1>6, <1>7, <1>8
<1>10. ASSUME NEW i \in DOMAIN evidence PROVE i \in DOMAIN evidence' /\ evidence'[i] = evidence[i]
  BY <1>8, <1>9
<1>11. ASSUME NEW i \in DOMAIN evidence' \ DOMAIN evidence, evidence'[i].spec = "008-payment"
       PROVE  i = n + 1 /\ evidence'[i] = payment
  <2>1. PICK k \in 1..Len(published) : i = n + k
    <3>1. i - n \in 1..Len(published) /\ i = n + (i - n)
      BY <1>9
    <3> QED  BY <3>1
  <2>2. evidence'[i] = published[k]
    BY <1>8, <1>9, <2>1
  <2>3. published[k].spec = "008-payment"
    BY <1>11, <2>2
  <2>4. k = 1 /\ published[k] = payment
    BY <1>4, <1>5, <2>3
  <2> QED  BY <2>1, <2>2, <2>4
<1> QED  BY <1>4, <1>7, <1>8, <1>10, <1>11

-----------------------------------------------------------------------------
LEMMA ValidatorInitInv == ValidatorInit => ValidatorInv
<1> SUFFICES ASSUME ValidatorInit PROVE ValidatorInv
  OBVIOUS
<1>1. /\ DOMAIN agreements = {} /\ emittedKeys = {} /\ evidence = << >> /\ DOMAIN evidence = {}
      /\ Payments = {}
  BY DEF ValidatorInit, Payments
<1>2. ValidatorShape
  <2>1. \A t \in CommerceTopics : Len(topicLog(t)) \in Nat
    <3>1. ASSUME NEW t \in CommerceTopics PROVE Len(topicLog(t)) \in Nat
      <4>1. PICK n \in {2, 3} : Len(topicLog(t)) = n * NAgreements + 1
        BY LogIs
      <4> QED  BY <4>1, ValidatorAssumption
    <3> QED  BY <3>1
  <2>2. << >> \in Seq(Envelopes)
    OBVIOUS
  <2> QED  BY <1>1, <2>1, <2>2, ValidatorAssumption DEF ValidatorInit, ValidatorShape
<1>3. ReadIsKept
  BY DEF ValidatorInit, ReadIsKept
<1> QED
  BY <1>1, <1>2, <1>3 DEF ValidatorInv, CompleteIsEmitted, SnapshotsArePure, PublishedIsKept,
     AttestedOnce, EvidenceIsTrue

\* Handling one of the five messages.
LEMMA CollectInv ==
  ASSUME ValidatorInv, NEW s \in FiveTypes, NEW a \in Agreements, NEW r \in RequestIds,
         ~reused => r = a, Collect(r, s, a), UNCHANGED <<reused, action>>
  PROVE  /\ DOMAIN agreements' \subseteq RequestIds
         /\ \A q \in DOMAIN agreements' : agreements'[q] \in Snapshots
         /\ r \in DOMAIN agreements' /\ s \in DOMAIN agreements'[r]
         /\ \A q \in DOMAIN agreements :
              q \in DOMAIN agreements' /\ DOMAIN agreements[q] \subseteq DOMAIN agreements'[q]
         /\ emittedKeys' \subseteq RequestIds \X Agreements
         /\ evidence' \in Seq(Envelopes)
         /\ CompleteIsEmitted' /\ SnapshotsArePure' /\ PublishedIsKept'
         /\ AttestedOnce' /\ EvidenceIsTrue'
<1> DEFINE old == IF r \in DOMAIN agreements THEN agreements[r] ELSE << >>
<1>1. /\ ValidatorShape /\ CompleteIsEmitted /\ SnapshotsArePure /\ PublishedIsKept
      /\ AttestedOnce /\ EvidenceIsTrue
  BY DEF ValidatorInv
<1>2. old \in Snapshots \cup {<< >>} /\ (r \in DOMAIN agreements => old = agreements[r])
  BY <1>1 DEF ValidatorShape
<1>3. PICK snap \in Snapshots :
        /\ snap = Put(old, s, a) /\ DOMAIN snap = DOMAIN old \cup {s} /\ snap[s] = a
        /\ \A k \in DOMAIN old : k # s => snap[k] = old[k]
  <2> HIDE DEF old
  <2>1. PICK f \in Snapshots \cup {<< >>} : f = old
    BY <1>2
  <2>2. /\ Put(f, s, a) \in Snapshots /\ DOMAIN Put(f, s, a) = DOMAIN f \cup {s}
        /\ Put(f, s, a)[s] = a
        /\ \A k \in DOMAIN f : k # s => Put(f, s, a)[k] = f[k]
    BY PutIs
  <2> QED  BY <2>1, <2>2
<1>4. /\ agreements' = Put(agreements, r, snap)
      /\ IF IsComplete(snap) /\ emitKey(r, snap) \notin emittedKeys
         THEN emitEnvelopes(r, snap) /\ emittedKeys' = emittedKeys \cup {emitKey(r, snap)}
         ELSE UNCHANGED <<evidence, emittedKeys>>
  BY <1>3 DEF Collect
<1>5. DOMAIN old = IF r \in DOMAIN agreements THEN DOMAIN agreements[r] ELSE {}
  OBVIOUS
<1>6. ~reused => \A k \in DOMAIN snap : snap[k] = r
  <2>1. ~reused => \A k \in DOMAIN old : old[k] = r
    BY <1>1, <1>5 DEF SnapshotsArePure
  <2> HIDE DEF old
  <2> QED  BY <1>3, <2>1
<1>7. r \in Agreements
  BY RequestIdsAre
<1> HIDE DEF old
<1>8. /\ DOMAIN agreements' = DOMAIN agreements \cup {r} /\ agreements'[r] = snap
      /\ \A q \in DOMAIN agreements : q # r => agreements'[q] = agreements[q]
  BY <1>4 DEF Put
<1>9. /\ DOMAIN agreements' \subseteq RequestIds
      /\ \A q \in DOMAIN agreements' : agreements'[q] \in Snapshots
      /\ s \in DOMAIN agreements'[r]
      /\ \A q \in DOMAIN agreements :
           q \in DOMAIN agreements' /\ DOMAIN agreements[q] \subseteq DOMAIN agreements'[q]
  BY <1>1, <1>2, <1>3, <1>8 DEF ValidatorShape
<1>10. PICK key : key = emitKey(r, snap)
  OBVIOUS
<1>11. IsComplete(snap) =>
         key \in RequestIds \X Agreements /\ key = <<r, snap["serviceResponse"]>>
  <2>1. IsComplete(snap) => snap["serviceResponse"] \in Agreements
    BY TopicsAre DEF IsComplete, Snapshots, FiveTypes
  <2> QED  BY <1>10, <2>1 DEF emitKey
<1>12. /\ emittedKeys \subseteq emittedKeys' /\ (IsComplete(snap) => key \in emittedKeys')
       /\ \A k \in emittedKeys' : k \in emittedKeys \/ (k = key /\ IsComplete(snap))
  BY <1>4, <1>10
<1>13. emittedKeys' \subseteq RequestIds \X Agreements
  BY <1>1, <1>11, <1>12 DEF ValidatorShape
<1>14. CompleteIsEmitted'
  <2>1. ASSUME NEW q \in DOMAIN agreements', IsComplete(agreements'[q])
        PROVE  emitKey(q, agreements'[q]) \in emittedKeys'
    <3>1. CASE q = r
      BY <1>8, <1>10, <1>12, <2>1, <3>1
    <3>2. CASE q # r
      BY <1>1, <1>8, <1>12, <2>1, <3>2 DEF CompleteIsEmitted
    <3> QED  BY <3>1, <3>2
  <2> QED  BY <2>1 DEF CompleteIsEmitted, IsComplete, emitKey
<1>15. SnapshotsArePure'
  <2>1. ASSUME ~reused, NEW q \in DOMAIN agreements', NEW k \in DOMAIN agreements'[q]
        PROVE  agreements'[q][k] = q
    BY <1>1, <1>6, <1>8, <2>1 DEF SnapshotsArePure
  <2>2. ASSUME ~reused, NEW k \in emittedKeys' PROVE k[1] = k[2]
    <3>1. IsComplete(snap) => "serviceResponse" \in DOMAIN snap
      BY TopicsAre DEF IsComplete, FiveTypes
    <3> QED  BY <1>1, <1>6, <1>11, <1>12, <2>2, <3>1 DEF SnapshotsArePure
  <2> QED  BY <2>1, <2>2 DEF SnapshotsArePure
<1>16. CASE IsComplete(snap) /\ key \notin emittedKeys
  <2>1. /\ evidence' \in Seq(Envelopes)
        /\ \A i \in DOMAIN evidence : i \in DOMAIN evidence' /\ evidence'[i] = evidence[i]
        /\ \A i \in DOMAIN evidence' \ DOMAIN evidence :
             evidence'[i].spec = "008-payment" =>
               /\ i = Len(evidence) + 1
               /\ evidence'[i].id = r /\ evidence'[i].of = snap
               /\ evidence'[i].verdict = verdict(snap)
    BY <1>1, <1>4, <1>7, <1>10, <1>16, EmitIs DEF ValidatorShape
  <2>2. \A i \in Payments' :
          \/ i \in Payments /\ evidence'[i] = evidence[i]
          \/ /\ i = Len(evidence) + 1
             /\ evidence'[i].id = r /\ evidence'[i].of = snap
             /\ evidence'[i].verdict = verdict(snap)
    BY <2>1 DEF Payments
  <2>3. PublishedIsKept'
    <3>1. ASSUME NEW i \in Payments'
          PROVE  <<evidence'[i].id, evidence'[i].of["serviceResponse"]>> \in emittedKeys'
      BY <1>1, <1>11, <1>12, <1>16, <2>2 DEF PublishedIsKept
    <3> QED  BY <3>1 DEF PublishedIsKept
  <2>4. AttestedOnce'
    <3>1. ASSUME NEW i \in Payments', NEW j \in Payments',
                 evidence'[i].id = evidence'[j].id,
                 evidence'[i].of["serviceResponse"] = evidence'[j].of["serviceResponse"]
          PROVE  i = j
      <4>1. CASE i \in Payments /\ evidence'[i] = evidence[i] /\ j \in Payments
                 /\ evidence'[j] = evidence[j]
        BY <1>1, <3>1, <4>1 DEF AttestedOnce
      <4>2. ASSUME NEW p \in Payments, evidence'[p] = evidence[p], evidence'[p].id = r,
                   evidence'[p].of["serviceResponse"] = snap["serviceResponse"]
            PROVE  FALSE
        BY <1>1, <1>11, <1>16, <4>2 DEF PublishedIsKept
      <4> QED  BY <2>2, <3>1, <4>1, <4>2
    <3> QED  BY <3>1 DEF AttestedOnce
  <2>5. EvidenceIsTrue'
    <3>1. ASSUME ~reused
          PROVE  /\ \A x, y \in MessageTypes : snap[x] = snap[y]
                 /\ (verdict(snap) = "compliant") <=> action[r] = "approved"
      <4>1. "invoiceAck" \in DOMAIN snap /\ DOMAIN snap = MessageTypes
        BY <1>16, TopicsAre DEF IsComplete, FiveTypes
      <4> QED  BY <1>6, <3>1, <4>1 DEF verdict
    <3>2. ASSUME ~reused, NEW i \in Payments'
          PROVE  /\ OfOneAgreement(evidence'[i].of)
                 /\ (evidence'[i].verdict = "compliant") <=> action[evidence'[i].id] = "approved"
      <4>1. CASE i \in Payments /\ evidence'[i] = evidence[i]
        BY <1>1, <3>2, <4>1 DEF EvidenceIsTrue
      <4>2. CASE /\ evidence'[i].id = r /\ evidence'[i].of = snap
                 /\ evidence'[i].verdict = verdict(snap)
        BY <3>1, <3>2, <4>2 DEF OfOneAgreement
      <4> QED  BY <2>2, <4>1, <4>2
    <3> QED  BY <3>2 DEF EvidenceIsTrue, OfOneAgreement
  <2> QED  BY <1>8, <1>9, <1>13, <1>14, <1>15, <2>1, <2>3, <2>4, <2>5
<1>17. CASE ~(IsComplete(snap) /\ key \notin emittedKeys)
  <2>1. UNCHANGED <<evidence, emittedKeys>>
    BY <1>4, <1>10, <1>17
  <2>2. PublishedIsKept' /\ AttestedOnce' /\ EvidenceIsTrue'
    BY <1>1, <2>1 DEF PublishedIsKept, AttestedOnce, EvidenceIsTrue, Payments, OfOneAgreement
  <2> QED  BY <1>1, <1>8, <1>9, <1>13, <1>14, <1>15, <2>1, <2>2 DEF ValidatorShape
<1> QED  BY <1>16, <1>17

LEMMA ValidatorNextInv == ValidatorInv /\ [ValidatorNext]_validatorVars => ValidatorInv'
<1> SUFFICES ASSUME ValidatorInv, [ValidatorNext]_validatorVars PROVE ValidatorInv'
  OBVIOUS
<1>1. /\ ValidatorShape /\ ReadIsKept /\ CompleteIsEmitted /\ SnapshotsArePure /\ PublishedIsKept
      /\ AttestedOnce /\ EvidenceIsTrue
  BY DEF ValidatorInv
<1>2. ASSUME UNCHANGED <<reused, action, agreements, emittedKeys, evidence>>,
             position' \in [CommerceTopics -> Nat], replays' \in 0..MaxReplays,
             \A t \in CommerceTopics : \/ position'[t] <= position[t]
                                      \/ /\ position'[t] = position[t] + 1
                                         /\ position'[t] <= Len(topicLog(t))
                                         /\ topicLog(t)[position'[t]].type = "other"
      PROVE  ValidatorInv'
  <2>1. RequestIds' = RequestIds /\ Payments' = Payments
    BY <1>2 DEF RequestIds, requestID, Payments
  <2>2. \A t \in CommerceTopics : position'[t] <= Len(topicLog(t))
    <3>1. ASSUME NEW t \in CommerceTopics PROVE position'[t] <= Len(topicLog(t))
      <4>1. PICK n \in {2, 3} : Len(topicLog(t)) = n * NAgreements + 1
        BY LogIs
      <4>2. PICK m \in Nat : m = Len(topicLog(t))
        BY <4>1, ValidatorAssumption
      <4> QED  BY <1>1, <1>2, <4>2 DEF ValidatorShape
    <3> QED  BY <3>1
  <2>3. ValidatorShape'
    BY <1>1, <1>2, <2>1, <2>2 DEF ValidatorShape
  <2>4. ReadIsKept'
    <3>1. ASSUME NEW t \in CommerceTopics, NEW i \in 1..position'[t],
                 topicLog(t)[i].type # "other", ~reused
          PROVE  /\ topicLog(t)[i].agreement \in DOMAIN agreements
                 /\ topicLog(t)[i].type \in DOMAIN agreements[topicLog(t)[i].agreement]
      <4>1. i \in 1..position[t]
        <5>1. PICK p \in Nat, q \in Nat : p = position[t] /\ q = position'[t]
          BY <1>1, <1>2 DEF ValidatorShape
        <5>2. q <= p \/ (q = p + 1 /\ topicLog(t)[q].type = "other")
          BY <1>2, <5>1
        <5> QED  BY <3>1, <5>1, <5>2
      <4> QED  BY <1>1, <3>1, <4>1 DEF ReadIsKept
    <3> QED  BY <1>2, <3>1 DEF ReadIsKept
  <2>5. CompleteIsEmitted' /\ SnapshotsArePure'
    BY <1>1, <1>2 DEF CompleteIsEmitted, SnapshotsArePure, IsComplete, emitKey
  <2>6. PublishedIsKept' /\ AttestedOnce' /\ EvidenceIsTrue'
    BY <1>1, <1>2, <2>1 DEF PublishedIsKept, AttestedOnce, EvidenceIsTrue, OfOneAgreement
  <2> QED  BY <2>3, <2>4, <2>5, <2>6 DEF ValidatorInv
<1>3. ASSUME NEW t \in CommerceTopics, ReplayTopic(t) PROVE ValidatorInv'
  <2>1. /\ position' = [position EXCEPT ![t] = 0] /\ position[t] > 0
        /\ replays' = replays + 1 /\ replays < MaxReplays
        /\ UNCHANGED <<reused, action, agreements, emittedKeys, evidence>>
    BY <1>3 DEF ReplayTopic
  <2>2. /\ position' \in [CommerceTopics -> Nat] /\ replays' \in 0..MaxReplays
        /\ \A u \in CommerceTopics : position'[u] <= position[u]
    BY <1>1, <2>1, ValidatorAssumption DEF ValidatorShape
  <2> QED  BY <1>2, <2>1, <2>2
<1>4. ASSUME NEW t \in CommerceTopics, handleDelivery(t) PROVE ValidatorInv'
  <2>1. PICK m \in Nat : m = Len(topicLog(t))
    <3>1. PICK n \in {2, 3} : Len(topicLog(t)) = n * NAgreements + 1
      BY LogIs
    <3> QED  BY <3>1, ValidatorAssumption
  <2>2. PICK i \in 1..m : i = position[t] + 1
    BY <1>1, <1>4, <2>1 DEF handleDelivery, ValidatorShape
  <2>3. /\ position' = [position EXCEPT ![t] = i]
        /\ IF topicLog(t)[i].type = "other"
           THEN UNCHANGED <<agreements, emittedKeys, evidence>>
           ELSE Collect(requestID(topicLog(t)[i].agreement), topicLog(t)[i].type,
                        topicLog(t)[i].agreement)
        /\ UNCHANGED <<reused, action, replays>>
    BY <1>1, <1>4, <2>2 DEF handleDelivery, ValidatorShape
  <2>4. /\ position' \in [CommerceTopics -> Nat] /\ position'[t] = i
        /\ \A u \in CommerceTopics : u # t => position'[u] = position[u]
    BY <1>1, <2>1, <2>3 DEF ValidatorShape
  <2>5. CASE topicLog(t)[i].type = "other"
    <3>1. \A u \in CommerceTopics : \/ position'[u] <= position[u]
                                   \/ /\ position'[u] = position[u] + 1
                                      /\ position'[u] <= Len(topicLog(u))
                                      /\ topicLog(u)[position'[u]].type = "other"
      BY <1>1, <2>1, <2>2, <2>4, <2>5 DEF ValidatorShape
    <3>2. replays' \in 0..MaxReplays
      BY <1>1, <2>3 DEF ValidatorShape
    <3> QED  BY <1>2, <2>3, <2>4, <2>5, <3>1, <3>2
  <2>6. CASE topicLog(t)[i].type # "other"
    <3>1. i \in 2..Len(topicLog(t))
      <4>1. topicLog(t)[1].type = "other"
        BY LogIs
      <4> QED  BY <2>1, <2>6, <4>1
    <3>2. PICK s \in FiveTypes, a \in Agreements :
            s = topicLog(t)[i].type /\ a = topicLog(t)[i].agreement
      BY <3>1, LogMessages
    <3>3. PICK r \in RequestIds : r = requestID(a) /\ (~reused => r = a)
      BY DEF RequestIds, requestID
    <3>4. Collect(r, s, a)
      BY <2>3, <2>6, <3>2, <3>3
    <3>5. /\ DOMAIN agreements' \subseteq RequestIds
          /\ \A q \in DOMAIN agreements' : agreements'[q] \in Snapshots
          /\ r \in DOMAIN agreements' /\ s \in DOMAIN agreements'[r]
          /\ \A q \in DOMAIN agreements :
               q \in DOMAIN agreements' /\ DOMAIN agreements[q] \subseteq DOMAIN agreements'[q]
          /\ emittedKeys' \subseteq RequestIds \X Agreements
          /\ evidence' \in Seq(Envelopes)
          /\ CompleteIsEmitted' /\ SnapshotsArePure' /\ PublishedIsKept'
          /\ AttestedOnce' /\ EvidenceIsTrue'
      BY <2>3, <3>3, <3>4, CollectInv
    <3>6. RequestIds' = RequestIds
      BY <2>3 DEF RequestIds, requestID
    <3>7. ASSUME NEW u \in CommerceTopics PROVE position'[u] <= Len(topicLog(u))
      <4>1. CASE u = t
        BY <2>1, <2>4, <4>1
      <4>2. CASE u # t
        BY <1>1, <2>4, <4>2 DEF ValidatorShape
      <4> QED  BY <4>1, <4>2
    <3>8. ValidatorShape'
      BY <1>1, <2>3, <2>4, <3>5, <3>6, <3>7 DEF ValidatorShape
    <3>9. ReadIsKept'
      <4>1. ASSUME NEW u \in CommerceTopics, NEW j \in 1..position'[u],
                   topicLog(u)[j].type # "other", ~reused
            PROVE  /\ topicLog(u)[j].agreement \in DOMAIN agreements'
                   /\ topicLog(u)[j].type \in DOMAIN agreements'[topicLog(u)[j].agreement]
        <5>1. CASE u = t /\ j = i
          BY <3>2, <3>3, <3>5, <4>1, <5>1
        <5>2. CASE ~(u = t /\ j = i)
          <6>1. j \in 1..position[u]
            BY <1>1, <2>2, <2>4, <4>1, <5>2 DEF ValidatorShape
          <6>2. /\ topicLog(u)[j].agreement \in DOMAIN agreements
                /\ topicLog(u)[j].type \in DOMAIN agreements[topicLog(u)[j].agreement]
            BY <1>1, <4>1, <6>1 DEF ReadIsKept
          <6> QED  BY <3>5, <6>2
        <5> QED  BY <5>1, <5>2
      <4> QED  BY <2>3, <4>1 DEF ReadIsKept
    <3> QED  BY <3>5, <3>8, <3>9 DEF ValidatorInv
  <2> QED  BY <2>5, <2>6
<1>5. CASE StopWatching \/ UNCHANGED validatorVars
  <2>1. UNCHANGED <<reused, action, position, replays, agreements, emittedKeys, evidence>>
    BY <1>5 DEF StopWatching, validatorVars
  <2>2. /\ position' \in [CommerceTopics -> Nat] /\ replays' \in 0..MaxReplays
        /\ \A u \in CommerceTopics : position'[u] <= position[u]
    BY <1>1, <2>1 DEF ValidatorShape
  <2> QED  BY <1>2, <2>1, <2>2
<1> QED  BY <1>3, <1>4, <1>5 DEF ValidatorNext

LEMMA ValidatorInvSettled == ValidatorInv => SettledIsAttested
<1> SUFFICES ASSUME ValidatorInv, ~reused,
                    \A t \in CommerceTopics : position[t] = Len(topicLog(t))
    PROVE  emittedKeys = {<<a, a>> : a \in Agreements}
  BY DEF SettledIsAttested
<1>1. ASSUME NEW a \in Agreements, NEW s \in FiveTypes
      PROVE  a \in DOMAIN agreements /\ s \in DOMAIN agreements[a]
  <2>0. PICK t \in CommerceTopics : \E i \in 1..Len(topicLog(t)) :
          topicLog(t)[i] = [type |-> s, agreement |-> a]
    BY LogHasAll
  <2>1. PICK i \in 1..Len(topicLog(t)) : topicLog(t)[i] = [type |-> s, agreement |-> a]
    BY <2>0
  <2>2. i \in 1..position[t] /\ s # "other"
    BY DEF FiveTypes
  <2>3. topicLog(t)[i].type = s /\ topicLog(t)[i].agreement = a
    BY <2>1
  <2> QED  BY <2>2, <2>3 DEF ValidatorInv, ReadIsKept
<1>2. ASSUME NEW a \in Agreements PROVE <<a, a>> \in emittedKeys
  <2>1. a \in DOMAIN agreements /\ FiveTypes \subseteq DOMAIN agreements[a]
    <3>1. "invoice" \in FiveTypes
      BY DEF FiveTypes
    <3> QED  BY <1>1, <3>1
  <2>2. DOMAIN agreements[a] \subseteq MessageTypes
    BY <2>1 DEF ValidatorInv, ValidatorShape, Snapshots
  <2>3. IsComplete(agreements[a])
    BY <2>1, <2>2, TopicsAre DEF IsComplete
  <2>4. emitKey(a, agreements[a]) \in emittedKeys
    BY <2>1, <2>3 DEF ValidatorInv, CompleteIsEmitted
  <2>5. agreements[a]["serviceResponse"] = a
    BY <2>1 DEF ValidatorInv, SnapshotsArePure, FiveTypes
  <2> QED  BY <2>4, <2>5 DEF emitKey
<1>3. ASSUME NEW k \in emittedKeys PROVE k \in {<<a, a>> : a \in Agreements}
  <2>1. k[1] = k[2] /\ k \in RequestIds \X Agreements
    BY DEF ValidatorInv, ValidatorShape, SnapshotsArePure
  <2> QED  BY <2>1
<1> QED  BY <1>2, <1>3

\* The validator attests the terms of an agreement once at most; with fresh request ids its
\* evidence is about one agreement's own messages and says how the buyer answered, and when it
\* has read both topics it has attested every agreement: for any number of agreements, in
\* whatever order the two topics are read and however often they are replayed.
THEOREM Attested == ValidatorSpec => []EvidenceIsSound
<1>1. ValidatorInv => EvidenceIsSound
  BY ValidatorInvSettled DEF ValidatorInv, EvidenceIsSound
<1> QED  BY <1>1, ValidatorInitInv, ValidatorNextInv, PTL DEF ValidatorSpec

\* What the invariant says of the variables is what their types say.
LEMMA ValidatorTyped == ASSUME ValidatorInv PROVE ValidatorTypeOK
<1>1. \A t \in CommerceTopics : position[t] \in Nat /\ position[t] <= Len(topicLog(t))
  BY DEF ValidatorInv, ValidatorShape
<1>2. ASSUME NEW t \in CommerceTopics PROVE position[t] \in 0..Len(topicLog(t))
  <2>1. PICK n \in {2, 3} : Len(topicLog(t)) = n * NAgreements + 1
    BY LogIs
  <2>2. PICK m \in Nat : m = n * NAgreements + 1
    BY <2>1, ValidatorAssumption
  <2>3. PICK p \in Nat : p = position[t] /\ p <= m
    BY <1>1, <2>1, <2>2
  <2>4. p \in 0..m
    BY <2>3
  <2> QED  BY <2>1, <2>2, <2>3, <2>4
<1> QED  BY <1>2 DEF ValidatorInv, ValidatorShape, ValidatorTypeOK

\* The variables of the validator keep their types (validator.go, collectAgreements): what it
\* collects are snapshots of the agreements that were asked for.
THEOREM ValidatorTypeCorrect == ValidatorSpec => []ValidatorTypeOK
<1>1. ValidatorInv => ValidatorTypeOK
  BY ValidatorTyped
<1> QED  BY <1>1, ValidatorInitInv, ValidatorNextInv, PTL DEF ValidatorSpec

-----------------------------------------------------------------------------
(***************************************************************************)
(* The four side by side, as the run takes them.                           *)
(***************************************************************************)

\* One of the four moves, and the others stay as they are.
LEMMA ServicesStep ==
  ASSUME [ServicesNext]_servicesVars
  PROVE  /\ [DeliveryNext]_deliveryVars /\ [ValidatorNext]_validatorVars
         /\ [TaskingNext]_taskingVars /\ [SessionNext]_sessionVars
BY DEF ServicesNext, servicesVars

\* Each keeps its own invariant beside the others.
LEMMA ServicesInvariant ==
  ServicesSpec => [](/\ DeliveryInv /\ DeliveryTypes /\ ValidatorInv /\ TaskingInv
                     /\ SessionInv /\ SessionTypes)
<1> DEFINE I == /\ DeliveryInv /\ DeliveryTypes /\ ValidatorInv /\ TaskingInv
                /\ SessionInv /\ SessionTypes
<1>1. ServicesInit => I
  BY DeliveryInitInv, DeliveryTypesInit, ValidatorInitInv, TaskingInitInv, SessionInitInv,
     SessionTypesInit DEF ServicesInit
<1>2. I /\ [ServicesNext]_servicesVars => I'
  <2> SUFFICES ASSUME I, [ServicesNext]_servicesVars PROVE I'
    OBVIOUS
  <2>1. /\ [DeliveryNext]_deliveryVars /\ [ValidatorNext]_validatorVars
        /\ [TaskingNext]_taskingVars /\ [SessionNext]_sessionVars
    BY ServicesStep
  <2>2. DeliveryInv' /\ DeliveryTypes'
    BY <2>1, DeliveryNextInv, DeliveryTypesNext DEF DeliveryInv
  <2>3. ValidatorInv' /\ TaskingInv'
    BY <2>1, ValidatorNextInv, TaskingNextInv
  <2>4. SessionInv' /\ SessionTypes'
    BY <2>1, SessionNextInv, SessionTypesNext DEF SessionInv
  <2> QED  BY <2>2, <2>3, <2>4
<1> QED  BY <1>1, <1>2, PTL DEF ServicesSpec

\* The variables of the four services keep their types.
THEOREM ServicesTypeCorrect == ServicesSpec => []ServicesTypeOK
<1>1. /\ DeliveryInv /\ DeliveryTypes /\ ValidatorInv /\ TaskingInv /\ SessionInv /\ SessionTypes
      => ServicesTypeOK
  BY DeliveryTyped, ValidatorTyped, SessionTyped DEF TaskingInv, ServicesTypeOK
<1> QED  BY <1>1, ServicesInvariant, PTL
=============================================================================
