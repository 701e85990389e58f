---------------------------- MODULE MCNeuronEscrow ----------------------------
(***************************************************************************)
(* NeuronEscrow for TLC: escrows between one buyer and one seller, with or *)
(* without an arbiter.                                                     *)
(***************************************************************************)
EXTENDS NeuronEscrow

CONSTANTS Buyer, Seller, Arbiter

MCTerms ==
  [buyer: {Buyer}, seller: {Seller}, arbiter: {ZeroAddr, Arbiter}, token: Tokens,
   timeout: {MaxTime}]
=============================================================================
