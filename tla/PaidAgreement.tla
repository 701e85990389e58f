---------------------------- MODULE PaidAgreement ----------------------------
(***************************************************************************)
(* What the commerce of the edge apps promises about one agreement,        *)
(* whatever messages, subscriptions and processes carry it: the seller     *)
(* accepts it, the buyer then pays its price into escrow, the seller then  *)
(* claims the price, and the buyer then pays out what was claimed, once.   *)
(* Nobody ever gets back to an earlier step.                               *)
(***************************************************************************)
CONSTANT Agreements

VARIABLE trade \* trade[r]: how far agreement r has come

TradeState == {"open", "accepted", "funded", "claimed", "paid"}

TradeInit == trade = [r \in Agreements |-> "open"]

Advance(r, from, to) ==
  /\ trade[r] = from
  /\ trade' = [trade EXCEPT ![r] = to]

AcceptTrade(r) == Advance(r, "open", "accepted")
FundTrade(r) == Advance(r, "accepted", "funded")
ClaimTrade(r) == Advance(r, "funded", "claimed")
PayTrade(r) == Advance(r, "claimed", "paid")

TradeNext ==
  \E r \in Agreements : AcceptTrade(r) \/ FundTrade(r) \/ ClaimTrade(r) \/ PayTrade(r)

TradeSpec == TradeInit /\ [][TradeNext]_trade
=============================================================================
