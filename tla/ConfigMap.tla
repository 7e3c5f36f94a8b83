------------------------------- MODULE ConfigMap -------------------------------
(***************************************************************************)
(* What config_io.h promises the users of a key=value file: a map whose    *)
(* updates change one key each, at one instant between the call and its    *)
(* return.  A power cut leaves the map as it was after some update since   *)
(* the last one that is known to be durable, and never a mixture.          *)
(*                                                                         *)
(* An update whose own read or write fails and does not notice is not      *)
(* exact: it may leave any map.  Those of others before and after it       *)
(* change their own key only.                                              *)
(***************************************************************************)
CONSTANTS Keys, Vals, NoVal, Writers

VARIABLES map,   \* the map readers see
          safe,  \* the maps a power cut may leave
          pend   \* the update each writer has pending: none, asked or applied

vars == <<map, safe, pend>>

Maps == [Keys -> Vals \cup {NoVal}]
None == [st |-> "none"]

Begin(p, k, v) ==
  /\ pend[p] = None
  /\ pend' = [pend EXCEPT ![p] = [st |-> "asked", key |-> k, val |-> v, exact |-> TRUE]]
  /\ UNCHANGED <<map, safe>>

\* What the update reads or writes is not what it should be.
Miss(p) ==
  /\ pend[p].st = "asked"
  /\ pend' = [pend EXCEPT ![p].exact = FALSE]
  /\ UNCHANGED <<map, safe>>

Apply(p) ==
  /\ pend[p].st = "asked"
  /\ map' \in IF pend[p].exact THEN {[map EXCEPT ![pend[p].key] = pend[p].val]} ELSE Maps
  /\ safe' = safe \cup {map'}
  /\ pend' = [pend EXCEPT ![p].st = "applied"]

\* The update ends.  What it did is durable, or not yet (a killed writer, a
\* directory that could not be synced); a writer that has not applied its
\* update failed, or found the value there already.
End(p) ==
  /\ pend[p] # None
  /\ pend' = [pend EXCEPT ![p] = None]
  /\ safe' \in {safe, {map}}
  /\ UNCHANGED map

PowerCut ==
  /\ map' \in safe
  /\ safe' = {map'}
  /\ pend' = [p \in Writers |-> None]

Init == /\ map \in Maps
        /\ safe = {map}
        /\ pend = [p \in Writers |-> None]

Next == \/ \E p \in Writers : Miss(p) \/ Apply(p) \/ End(p)
        \/ \E p \in Writers, k \in Keys, v \in Vals : Begin(p, k, v)
        \/ PowerCut

Spec == Init /\ [][Next]_vars
=============================================================================
