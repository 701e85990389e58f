------------------------------ MODULE MCHeartbeat ------------------------------
(***************************************************************************)
(* Heartbeat for TLC: the settings of its configurations.                  *)
(***************************************************************************)
EXTENDS Heartbeat

\* A topic that stamps and delivers late.
Late == [period |-> 3, consensusDelay |-> 1, deliveryDelay |-> 1, replays |-> FALSE]

\* A bus that stamps at once and replays; the period is the shortest one, so that a late
\* tick is rate limited.
Immediate == [period |-> 2, consensusDelay |-> 0, deliveryDelay |-> 0, replays |-> TRUE]

MCSettings == {Late, Immediate}

MCLate == {Late}

ASSUME SettingsArePrompt == Prompt
=============================================================================
