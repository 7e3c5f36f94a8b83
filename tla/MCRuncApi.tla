------------------------------- MODULE MCRuncApi -------------------------------
(* Small instances of the container API for TLC. *)
EXTENDS RuncApi, TLC

CONSTANTS c1, c2, small

MCBudget(c, t, e, f) == [call |-> c, timeout |-> t, exit |-> e, fault |-> f]
ApiBudget   == MCBudget(4, 1, 1, 1)
AskedBudget == MCBudget(4, 0, 1, 0)
=============================================================================
