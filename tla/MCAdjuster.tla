------------------------------ MODULE MCAdjuster ------------------------------
(* Small instances of the adjuster for TLC. *)
EXTENDS Adjuster, TLC

CONSTANTS k1, k2

\* One module or two, with one unit each.
Small    == [modules |-> 1, units |-> 1]
Large    == [modules |-> 2, units |-> 1]
BothCfgs == {Small, Large}

\* The adjuster starts with one context or with all, or cannot start.
OneOrAll == {Bad} \cup {f \in [Keys -> {Small, NoCfg}] : f[k1] = Small}

MCBudget(e, c, f, h, a) == [edit |-> e, crash |-> c, fault |-> f, hup |-> h, all |-> a]
AdjusterBudget == MCBudget(1, 2, 1, 1, 2)
ZombieBudget   == MCBudget(1, 0, 1, 1, 2)
BackoffBudget  == MCBudget(0, 3, 0, 0, 3)
=============================================================================
