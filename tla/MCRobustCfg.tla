----------------------------- MODULE MCRobustCfg -----------------------------
(* Small instances of the robust-config library for TLC. *)
EXTENDS RobustCfgProps, TLC

CONSTANTS k1, k2, v1, v2, h1, h2, p1, p2

TwoProcs == h1 :> p1 @@ h2 :> p2
Alone    == h1 :> p1

MCBudget(c, k, p, f) == [call |-> c, kill |-> k, cut |-> p, fault |-> f]
KillBudget    == MCBudget(4, 2, 0, 0)
PowerBudget   == MCBudget(4, 0, 2, 0)
LifeBudget    == MCBudget(3, 1, 0, 1)
TieBudget     == MCBudget(6, 1, 0, 1)
RaceBudget    == MCBudget(2, 0, 0, 0)
CompactBudget == MCBudget(3, 2, 0, 0)
CalmBudget    == MCBudget(4, 0, 0, 0)
HalfBudget    == MCBudget(3, 1, 1, 0)
StaleBudget   == MCBudget(6, 3, 0, 0)

\* Keys and values are interchangeable, and so are processes with their handles.
DataSymmetry == Permutations({v1, v2}) \cup Permutations({k1, k2})
SwapProcs    == h1 :> h2 @@ h2 :> h1 @@ p1 :> p2 @@ p2 :> p1
FullSymmetry == DataSymmetry \cup {SwapProcs}
=============================================================================
