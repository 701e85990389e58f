------------------------------ MODULE MCMemoryBus ------------------------------
(***************************************************************************)
(* MemoryBus for TLC: its configurations give every constant a value.      *)
(* Publishers and subscriptions are interchangeable, but symmetry is not   *)
(* sound for the liveness property.                                        *)
(***************************************************************************)
EXTENDS MemoryBus
=============================================================================
