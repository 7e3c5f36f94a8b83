----------------------------- MODULE MCConfigFile -----------------------------
(* Small instances of the key=value file for TLC. *)
EXTENDS ConfigFile, TLC

CONSTANTS k1, k2, k3, v1, v2, w1, w2

MCBudget(u, c, f) == [update |-> u, crash |-> c, fault |-> f]
FileBudget    == MCBudget(3, 2, 1)
MisreadBudget == MCBudget(1, 0, 1)
KilledBudget  == MCBudget(2, 1, 0)
CalmBudget    == MCBudget(3, 0, 0)
=============================================================================
