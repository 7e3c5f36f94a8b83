---------------------------- MODULE MCConfigWatch ----------------------------
(* Small instances of the watcher and the dashboard for TLC. *)
EXTENDS ConfigWatch, TLC

CONSTANTS k1, k2, v1, v2

MCBudget(c, n, f) == [change |-> c, noise |-> n, fault |-> f]
WatchBudget == MCBudget(2, 1, 1)
FaultBudget == MCBudget(2, 0, 1)
=============================================================================
