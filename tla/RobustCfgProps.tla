---------------------------- MODULE RobustCfgProps ----------------------------
(***************************************************************************)
(* The properties of the robust-config library.                            *)
(***************************************************************************)
EXTENDS RobustCfg

Locations == {"closed", "ready", "lock", "scan", "reread", "put", "putsync",
              "mark", "marksync", "image", "imgsync", "hdr"}
Job == [todo : SUBSET Slots, plan : Image, old : Slots \cup {NoSlot}, cnt : Nat]

FileTypeOK == /\ cache \in Image
              /\ media \in Image
              /\ hdr \in [st : {"none", "blank", "ok"}, cnt : Nat]
CallTypeOK == /\ flock \in [Procs -> {"none", "rd", "wr"}]
              /\ pc \in [Handles -> Locations]
              /\ req \in [Handles -> Requests \cup Openings \cup {NoReq}]
              /\ job \in [Handles -> Job]
              /\ ret \in [Handles -> [rc : Codes, val : Vals \cup {NoVal}]]
              /\ view \in [Handles -> [Keys -> Vals \cup {NoVal}]]
EnvTypeOK  == clock \in Nat /\ budget \in [Resources -> Nat]

\* Every variable has its type: the file, the handles' calls, the environment.
TypeOK == FileTypeOK /\ CallTypeOK /\ EnvTypeOK

\* The locals of a call fit the point it has reached.
JobShape ==
  \A h \in Handles :
    /\ pc[h] \in {"put", "putsync", "mark", "marksync", "image"} => job[h].todo # {}
    /\ pc[h] = "reread" => job[h].old \in Slots

\* How the library is meant to be used: a process opens the file once.
OneHandlePerProcess == \A h1, h2 \in Handles : ProcOf[h1] = ProcOf[h2] => h1 = h2

\* While a call writes, no other call of any process is past its lock.
WriterExclusion ==
  \A h1, h2 \in Handles : h1 # h2 /\ Writing(h1) => ~Writing(h2) /\ ~Reading(h2)

\* A key that is in the store stays in it, at every step of every call, until a
\* delete of that key marks its slots (test_fault_inject.c:210) - or until an I/O
\* operation fails, which SafetyNet is about.
NoErrorYet == budget["fault"] = Budget["fault"]
Deleting(h, k) == pc[h] \in {"mark", "marksync"} /\ req[h].kind = "delete" /\ req[h].key = k
KeysSurvive ==
  [][NoErrorYet' => \A k \in Keys : Live(cache, k) =>
       Live(cache', k) \/ \E h \in Handles : Deleting(h, k)]_cache

\* I/O errors included, the only calls that put a live key at risk are an in-place
\* write of it (the file is full) and compact: everything else keeps a copy.
InPlace(h, k) == /\ pc[h] \in {"put", "putsync"}
                 /\ job[h].old \in job[h].todo
                 /\ req[h].key = k
Compacting(h) == pc[h] = "image" /\ req[h].kind = "compact"
SafetyNet ==
  [][\A k \in Keys : Live(cache, k) =>
       \/ Live(cache', k)
       \/ \E h \in Handles : Deleting(h, k) \/ InPlace(h, k) \/ Compacting(h)]_cache

\* The same of what is on the media, whatever the power cuts: the power-loss durability
\* robust_cfg.h:9 claims.  A write in place gives up the safety net (robust_cfg.c:524).
SyncedKeysSurvive ==
  [][\A k \in Keys : Live(media, k) =>
       Live(media', k) \/ \E h \in Handles : Deleting(h, k) \/ InPlace(h, k)]_media

\* Between calls record_count is the number of live records, as long as no call
\* was cut short.
NoCrashYet == NoErrorYet /\ budget["kill"] = Budget["kill"] /\ budget["cut"] = Budget["cut"]
CountExact ==
  NoCrashYet /\ hdr.st = "ok" /\ (\A h \in Handles : ~Writing(h)) => hdr.cnt = LiveCount

\* Between calls everything a client can read is on the media.
SyncedBetweenCalls ==
  (\A h \in Handles : ~Writing(h)) => \A k \in Keys : Visible(media, k) = Visible(cache, k)

\* A write that returned OK is what a read now returns.
AckedWriteVisible ==
  [][\A h \in Handles : At(h, "hdr", {"write"}) /\ ret'[h].rc = "OK" =>
       Visible(cache', req[h].key) = req[h].val]_vars

\* A delete that is cut short leaves its key as it was or without a value: the copies
\* an interrupted write leaves behind are harmless (robust_cfg.c:515).
LeftOversHarmless ==
  [][\A h \in Handles : Writing(h) /\ req[h].kind = "delete" /\ pc'[h] = "closed" =>
       Visible(cache', req[h].key) \in {view[h][req[h].key], NoVal}]_vars

\* An open that has taken the lock finds a file it can validate.
OpenFindsHeader == \A h \in Handles : At(h, "scan", {"open"}) => hdr.st = "ok"

\* A call, once made, returns.
CallReturns == \A h \in Handles : pc[h] \notin Rest ~> pc[h] \in Rest

(***************************************************************************)
(* The library implements KVStore.  While a call holds the write lock the  *)
(* map is what it was when the lock was taken; releasing the lock, by      *)
(* returning or by dying, is when the call takes effect.                   *)
(***************************************************************************)
StoreNow == IF \E h \in Handles : Writing(h)
            THEN view[CHOOSE h \in Handles : Writing(h)]
            ELSE Contents
PendNow == [h \in Handles |-> IF req[h].kind \in {"init", "open"} THEN NoReq ELSE req[h]]

\* A kill tears no record: the write goes to the page cache at once.
Exposed == IF Budget["cut"] > 0 THEN {h \in Handles : InPlace(h, req[h].key)} ELSE {}

KV == INSTANCE KVStore WITH store <- StoreNow, pend <- PendNow, resp <- ret,
                            exposed <- Exposed
ImplementsKVStore == KV!Spec
=============================================================================
