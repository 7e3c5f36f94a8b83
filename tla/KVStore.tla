------------------------------- MODULE KVStore -------------------------------
(***************************************************************************)
(* What robust_cfg.h promises its clients: a map from keys to values.      *)
(* A call takes effect at one instant between its invocation and its       *)
(* return; a call cut short by a crash takes effect wholly or not at all,  *)
(* and whatever else the file goes through (open, repair, compact) leaves  *)
(* the map as it is.  The one exception is a write that has no room for a  *)
(* second record beside the old one: a crash may tear that record, and the *)
(* value of the key is then any, or none.                                  *)
(***************************************************************************)
CONSTANTS Keys, Vals, NoKey, NoVal, Handles

VARIABLES store,  \* the map
          pend,   \* the call each handle has pending
          resp,   \* the result of each handle's last call
          exposed \* the handles whose write is over the old record; the store's choice

vars == <<store, pend, resp>>

None   == [kind |-> "none", key |-> NoKey, val |-> NoVal]
NoResp == [rc |-> "NONE", val |-> NoVal]

\* The map after request r.
Effect(r) == IF r.kind \in {"write", "delete"} THEN [store EXCEPT ![r.key] = r.val] ELSE store

\* What a call that succeeds returns: the value read, NOT_FOUND for a key that
\* is not there.
Outcome(r) ==
  IF r.kind \in {"read", "delete"} /\ store[r.key] = NoVal
  THEN [rc |-> "NOT_FOUND", val |-> NoVal]
  ELSE [rc |-> "OK", val |-> IF r.kind = "read" THEN store[r.key] ELSE NoVal]

Invoke(h) ==
  /\ pend[h] = None
  /\ \E c \in {"write", "read", "delete", "repair", "compact"},
        k \in Keys \cup {NoKey}, v \in Vals \cup {NoVal} :
          pend' = [pend EXCEPT ![h] = [kind |-> c, key |-> k, val |-> v]]
  /\ resp' = [resp EXCEPT ![h] = NoResp]
  /\ UNCHANGED store

Answer(h, a) == /\ pend[h] # None
                /\ pend' = [pend EXCEPT ![h] = None]
                /\ resp' = [resp EXCEPT ![h] = a]

Apply(h) == /\ Answer(h, Outcome(pend[h]))
            /\ store' = Effect(pend[h])

\* The store is full or its lock is taken: nothing happens.
Refuse(h) == \E rc \in {"FULL", "TIMEOUT"} :
  /\ rc = "FULL" => pend[h].kind = "write"
  /\ Answer(h, [rc |-> rc, val |-> NoVal])
  /\ UNCHANGED store

\* What a call that is cut short may leave of the map.
Torn(h) == IF h \in exposed /\ pend[h].kind = "write"
           THEN {[store EXCEPT ![pend[h].key] = v] : v \in Vals \cup {NoVal}} ELSE {}
Leaves(h) == {store, Effect(pend[h])} \cup Torn(h)

\* The handles in H are gone; at most one of their calls took effect.
Crash(H) ==
  /\ store' \in {store} \cup UNION {Leaves(h) : h \in H}
  /\ pend' = [h \in Handles |-> IF h \in H THEN None ELSE pend[h]]
  /\ resp' = [h \in Handles |-> IF h \in H THEN NoResp ELSE resp[h]]

Init ==
  /\ store = [k \in Keys |-> NoVal]
  /\ pend  = [h \in Handles |-> None]
  /\ resp  = [h \in Handles |-> NoResp]

Next == \/ \E h \in Handles : Invoke(h) \/ Apply(h) \/ Refuse(h)
        \/ \E H \in SUBSET Handles : Crash(H)

Spec == Init /\ [][Next]_vars
=============================================================================
