------------------------------ MODULE Agreement ------------------------------
(***************************************************************************)
(* impl/golang/internal/payment/agreement.go: the transition table of an   *)
(* agreement, which the buyer and the seller each run for themselves.      *)
(***************************************************************************)

AgreementState == {"IDLE", "REQUESTED", "NEGOTIATING", "AGREED", "FUNDED", "ACTIVE",
                   "INVOICED", "COMPLETED", "TERMINATED", "REJECTED"}

\* Where serviceCancel may still be received.
Cancellable == {"REQUESTED", "NEGOTIATING", "AGREED", "FUNDED", "ACTIVE", "INVOICED"}

transitions ==
  { <<"IDLE", "SERVICE_REQUEST", "REQUESTED">>,
    <<"REQUESTED", "COUNTER", "NEGOTIATING">>,
    <<"REQUESTED", "ACCEPT", "AGREED">>,
    <<"REQUESTED", "REJECT", "REJECTED">>,
    <<"REQUESTED", "DEADLINE_EXPIRED", "REJECTED">>,
    <<"NEGOTIATING", "ACCEPT", "AGREED">>,
    <<"NEGOTIATING", "REJECT", "REJECTED">>,
    <<"NEGOTIATING", "WITHDRAW", "REJECTED">>,
    <<"NEGOTIATING", "DEADLINE_EXPIRED", "REJECTED">>,
    <<"AGREED", "ESCROW_CREATED", "FUNDED">>,
    <<"FUNDED", "DELIVERY_STARTED", "ACTIVE">>,
    <<"ACTIVE", "INVOICE", "INVOICED">>,
    <<"INVOICED", "INVOICE_APPROVED", "ACTIVE">>,
    <<"INVOICED", "INVOICE_REFUSED", "TERMINATED">>,
    <<"INVOICED", "TIMEOUT", "TERMINATED">>,
    <<"ACTIVE", "TERMINATE", "TERMINATED">>,
    <<"ACTIVE", "COMPLETE", "COMPLETED">>,
    <<"ACTIVE", "STOP", "TERMINATED">> }
  \cup (Cancellable \X {"CANCEL"} \X {"TERMINATED"})

\* Transition returns an error when the table has no entry.
Allowed(state, event) == \E t \in transitions : t[1] = state /\ t[2] = event

\* Transition(event) of a machine in the given state.
Transition(state, event) ==
  CHOOSE next \in AgreementState : <<state, event, next>> \in transitions
=============================================================================
