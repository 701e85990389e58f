------------------------------- MODULE MCTopics -------------------------------
(***************************************************************************)
(* The three transports for TLC: the bus of edgeapp, the in-memory adapter *)
(* and a subscription to a mirror node.  They share nothing, and one run   *)
(* checks each of them by itself: `transport` says which one moves.  The   *)
(* others stay in their initial states, where no action that is assumed to *)
(* be fair is enabled.                                                     *)
(***************************************************************************)
EXTENDS MemoryBus, MemoryTopicAdapter, MirrorSubscription

CONSTANTS a1, a2, b1,        \* publications: one of two chunks, its retry, and a short one
          Long, Short        \* the two messages they publish

VARIABLE transport

topicsVars == <<transport, busVars, topicVars, mirrorVars>>

MCChunksOf == [p \in Publications |-> IF p = b1 THEN 1 ELSE 2]
MCMessageOf == [p \in Publications |-> IF p = b1 THEN Short ELSE Long]

MCFeed(publications, decodable, valid, dedup) ==
  [publications |-> publications, decodable |-> decodable, valid |-> valid, dedup |-> dedup]

\* All is well; no tracker; a first publication that cannot be decoded and its retry that can;
\* a message with a bad signature among good ones.
MCFeeds ==
  {MCFeed({a1, a2}, Publications, {Long, Short}, TRUE),
   MCFeed({a1, b1}, Publications, {Long, Short}, FALSE),
   MCFeed({a1, a2}, {a2, b1}, {Long, Short}, TRUE),
   MCFeed({a1, b1}, Publications, {Long}, TRUE)}

TopicsInit ==
  /\ transport \in {"bus", "adapter", "mirror"}
  /\ BusInit /\ TopicInit /\ MirrorInit
  /\ transport # "mirror" => feed = MCFeed({a1, b1}, Publications, {Long, Short}, FALSE)

TopicsNext ==
  /\ UNCHANGED transport
  /\ \/ transport = "bus" /\ BusNext /\ UNCHANGED <<topicVars, mirrorVars>>
     \/ transport = "adapter" /\ TopicNext /\ UNCHANGED <<busVars, mirrorVars>>
     \/ transport = "mirror" /\ MirrorNext /\ UNCHANGED <<busVars, topicVars>>

TopicsSpec ==
  /\ TopicsInit /\ [][TopicsNext]_topicsVars
  /\ BusFairness /\ TopicFairness /\ MirrorFairness

\* What the variables of the three may hold.
TopicsTypeOK == BusTypeOK /\ TopicTypeOK /\ MirrorTypeOK
===============================================================================
