--------------------------- MODULE MCRemoteIDSession ---------------------------
(***************************************************************************)
(* RemoteIDSession for TLC: a full trade settled by a contract or in       *)
(* memory, with failures, one without, and one that is registration only.  *)
(***************************************************************************)
EXTENDS RemoteIDSession

MCOffer(mode, contract, failing) ==
  [full |-> mode, price |-> 1, authenticates |-> contract, faults |-> failing]
MCOffers ==
  {MCOffer(TRUE, TRUE, TRUE), MCOffer(TRUE, FALSE, TRUE), MCOffer(TRUE, TRUE, FALSE),
   MCOffer(FALSE, FALSE, FALSE)}
================================================================================
