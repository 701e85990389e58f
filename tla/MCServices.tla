------------------------------ MODULE MCServices ------------------------------
(***************************************************************************)
(* The services beside the trade, for TLC: delivery channels, the edge     *)
(* validator, the tasking of a sensor and the sessions of the Remote ID    *)
(* seller.  They share nothing, and one run checks each of them by itself: *)
(* `service` says which one moves.  The others stay in their initial       *)
(* states, where no action that is assumed to be fair is enabled.  The     *)
(* delivery channels are checked twice, under two bounds: several channels *)
(* that one reader reconnects, and one channel that all of them do.        *)
(***************************************************************************)
EXTENDS P2PDelivery, EdgeValidator, SapientTasking, MCRemoteIDSession

CONSTANTS u2, r2  \* a user and a reader that one of the two bounds leaves out

VARIABLE service

servicesVars ==
  <<service, deliveryVars, validatorVars, taskingVars, sessionVars>>

ServicesInit ==
  /\ service \in {"channels", "readers", "validator", "tasking", "session"}
  /\ DeliveryInit /\ ValidatorInit /\ TaskingInit /\ SessionInit
  /\ service # "session" => offer = MCOffer(FALSE, FALSE, FALSE)
  /\ service # "validator" => ~reused /\ \A a \in Agreements : action[a] = "approved"

ChannelsBound == doing'[r2] = AtRest
ReadersBound == doing'[u2] = AtRest /\ nextChannel' <= 1

ServicesNext ==
  /\ UNCHANGED service
  /\ \/ /\ service \in {"channels", "readers"}
        /\ DeliveryNext
        /\ IF service = "channels" THEN ChannelsBound ELSE ReadersBound
        /\ UNCHANGED <<validatorVars, taskingVars, sessionVars>>
     \/ /\ service = "validator" /\ ValidatorNext
        /\ UNCHANGED <<deliveryVars, taskingVars, sessionVars>>
     \/ /\ service = "tasking" /\ TaskingNext
        /\ UNCHANGED <<deliveryVars, validatorVars, sessionVars>>
     \/ /\ service = "session" /\ SessionNext
        /\ UNCHANGED <<deliveryVars, validatorVars, taskingVars>>

ServicesSpec ==
  /\ ServicesInit /\ [][ServicesNext]_servicesVars
  /\ DeliveryFairness /\ TaskingFairness /\ SessionFairness

\* What their variables may hold.
ServicesTypeOK == DeliveryTypeOK /\ ValidatorTypeOK /\ TaskingTypeOK /\ SessionTypeOK
=============================================================================
