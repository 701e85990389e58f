---------------------------- MODULE MCEdgeCommerce ----------------------------
(***************************************************************************)
(* EdgeCommerce for TLC: two buyers on either bus where everything may     *)
(* fail, and one buyer on a bus that replays where nothing does.           *)
(***************************************************************************)
EXTENDS EdgeCommerce

CONSTANT FirstBuyer

MCDeployments ==
  [buyers: {Buyers}, replays: BOOLEAN, faults: {TRUE}]
    \cup [buyers: {{FirstBuyer}}, replays: {TRUE}, faults: {FALSE}]

\* HCS alone, for the request a subscription misses.
MCOnlyHCS == [buyers: {Buyers}, replays: {FALSE}, faults: {TRUE}]
=============================================================================
