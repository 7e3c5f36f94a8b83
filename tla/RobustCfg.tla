------------------------------ MODULE RobustCfg ------------------------------
(***************************************************************************)
(* The robust-config library (src/edgeconf/core): one file shared by the   *)
(* handles of several processes.                                           *)
(*                                                                         *)
(* Every call runs as robust_cfg.c runs it: take the file lock (or time    *)
(* out), scan the slots, write records one at a time, update the header,   *)
(* release the lock, return.  Between any two of these steps the process   *)
(* may be killed, which leaves the page cache as it is, or the power may   *)
(* be cut, which leaves of the writes since the last fdatasync an          *)
(* arbitrary, possibly torn, part.  A scan runs under the lock, so it is   *)
(* one step.  A handle's mutex lets it run one call at a time.             *)
(***************************************************************************)
EXTENDS RobustCfgFormat

CONSTANTS Handles,        \* robust_cfg_handle_t objects
          Procs,          \* the processes that open the file
          ProcOf,         \* the process each handle lives in
          Kinds,          \* the calls the workload makes
          StartOpen,      \* start with an initialised file every handle has open?
          ClockStepsBack, \* may time(NULL) step back (NTP, no RTC)?
          MaxClock,       \* bound on time(NULL)
          Budget          \* how many calls, kills, power cuts and I/O errors occur

NoReq == [kind |-> "none", key |-> NoKey, val |-> NoVal]

Requests ==
  UNION { {[kind |-> "write", key |-> k, val |-> v] : k \in Keys, v \in Vals},
          {[kind |-> c, key |-> k, val |-> NoVal] : c \in {"read", "delete"}, k \in Keys},
          {[kind |-> c, key |-> NoKey, val |-> NoVal] : c \in {"repair", "compact"}} }

\* What robust_cfg_open works on before there is a handle to call.
Openings == {[NoReq EXCEPT !.kind = c] : c \in {"init", "open"}}

Resources == {"call", "kill", "cut", "fault"}

ASSUME RobustCfgAssumption ==
  /\ ProcOf \in [Handles -> Procs]
  /\ Kinds \subseteq {"write", "read", "delete", "repair", "compact"}
  /\ StartOpen \in BOOLEAN
  /\ ClockStepsBack \in BOOLEAN
  /\ MaxClock \in Nat
  /\ Budget \in [Resources -> Nat]

VARIABLES
  cache,   \* the slots as processes read them: the page cache
  media,   \* the slots as of the last fdatasync
  hdr,     \* the header: does it exist, and its record_count
  flock,   \* the fcntl lock each process holds on the file
  pc,      \* where each handle is in its call
  req,     \* the call each handle runs
  job,     \* the call's locals: slots to write, their content, old_idx, a count
  ret,     \* what each handle's last call returned
  clock,   \* time(NULL)
  budget,  \* what is left of Budget
  view     \* history: what the file held when the handle took the write lock

file == <<cache, media, hdr>>
vars == <<cache, media, hdr, flock, pc, req, job, ret, clock, budget, view>>

BlankImage == [i \in Slots |-> EmptyRec]
NoJob == [todo |-> {}, plan |-> BlankImage, old |-> NoSlot, cnt |-> 0]
NoRet == [rc |-> "NONE", val |-> NoVal]
Codes == {"NONE", "OK", "NOT_FOUND", "FULL", "TIMEOUT", "CORRUPT", "ERR"}

Contents == [k \in Keys |-> Visible(cache, k)]
Absent   == [k \in Keys |-> NoVal]

Rest == {"closed", "ready"}
\* Under the write lock, with the whole of the call's effect still to come or under way.
Writing(h) == pc[h] \notin Rest \cup {"lock"} /\ req[h].kind # "read"
Reading(h) == pc[h] \notin Rest \cup {"lock"} /\ req[h].kind = "read"

-----------------------------------------------------------------------------
Spend(r) == /\ budget[r] > 0
            /\ budget' = [budget EXCEPT ![r] = @ - 1]

Goto(h, l) == pc' = [pc EXCEPT ![h] = l]

\* unlock_file (and, where open fails, close(fd)): the process holds no lock on
\* the file any more, and the locals of the call are gone.
Release(h) ==
  /\ flock' = [flock EXCEPT ![ProcOf[h]] = "none"]
  /\ req'   = [req EXCEPT ![h] = NoReq]
  /\ job'   = [job EXCEPT ![h] = NoJob]
  /\ view'  = [view EXCEPT ![h] = Absent]

Return(h, rc, v) == /\ Release(h)
                    /\ Goto(h, "ready")
                    /\ ret' = [ret EXCEPT ![h] = [rc |-> rc, val |-> v]]

\* robust_cfg_open returns NULL, or a handle.
FailOpen(h) == Release(h) /\ Goto(h, "closed") /\ UNCHANGED ret
Opened(h)   == Release(h) /\ Goto(h, "ready") /\ UNCHANGED ret

At(h, l, kinds) == pc[h] = l /\ req[h].kind \in kinds

-----------------------------------------------------------------------------
(***************************************************************************)
(* Opening and closing.  O_CREAT | O_EXCL creates the file before the lock *)
(* is taken: until init_new_file has written the header the file is blank. *)
(***************************************************************************)
Open(h) ==
  /\ pc[h] = "closed"
  /\ Goto(h, "lock")
  /\ IF hdr.st = "none"
     THEN /\ hdr' = [hdr EXCEPT !.st = "blank"]
          /\ req' = [req EXCEPT ![h] = [NoReq EXCEPT !.kind = "init"]]
     ELSE /\ req' = [req EXCEPT ![h] = [NoReq EXCEPT !.kind = "open"]]
          /\ UNCHANGED hdr
  /\ UNCHANGED <<cache, media, flock, job, ret, clock, budget, view>>

\* POSIX: closing any descriptor of the file drops all the process's locks on it.
Close(h) ==
  /\ pc[h] = "ready"
  /\ Goto(h, "closed")
  /\ flock' = [flock EXCEPT ![ProcOf[h]] = "none"]
  /\ UNCHANGED <<file, req, job, ret, clock, budget, view>>

Call(h, r) ==
  /\ pc[h] = "ready"
  /\ r.kind \in Kinds
  /\ Spend("call")
  /\ Goto(h, "lock")
  /\ req' = [req EXCEPT ![h] = r]
  /\ ret' = [ret EXCEPT ![h] = NoRet]
  /\ UNCHANGED <<file, flock, job, clock, view>>

(***************************************************************************)
(* lock_range.  An fcntl lock belongs to the process: it excludes other    *)
(* processes only, and a second request by the same process converts it.   *)
(***************************************************************************)
MayWriteOverReaders(h) == \A p \in Procs \ {ProcOf[h]} : flock[p] # "wr"  \* mutant
Others(h) == Procs \ {ProcOf[h]}
MayWrite(h) == \A p \in Others(h) : flock[p] = "none"
MayRead(h)  == \A p \in Others(h) : flock[p] # "wr"
MayLock(h)  == IF req[h].kind = "read" THEN MayRead(h) ELSE MayWrite(h)

Lock(h) ==
  /\ pc[h] = "lock"
  /\ MayLock(h)
  /\ Goto(h, "scan")
  /\ LET reads == req[h].kind = "read"
     IN /\ flock' = [flock EXCEPT ![ProcOf[h]] = IF reads THEN "rd" ELSE "wr"]
        /\ view'  = [view EXCEPT ![h] = IF reads THEN Absent ELSE Contents]
  /\ UNCHANGED <<file, req, job, ret, clock, budget>>

LockForever(h) == pc[h] = "timeout" /\ UNCHANGED vars   \* mutant: F_SETLKW

\* 500 retries, 10 ms apart, all found the lock taken.
LockTimeout(h) ==
  /\ pc[h] = "lock"
  /\ ~MayLock(h)
  /\ \/ /\ req[h].kind \in {"init", "open"}
        /\ FailOpen(h)
     \/ /\ req[h].kind \notin {"init", "open"}
        /\ Goto(h, "ready")
        /\ ret' = [ret EXCEPT ![h] = [rc |-> "TIMEOUT", val |-> NoVal]]
        /\ req' = [req EXCEPT ![h] = NoReq]
        /\ UNCHANGED <<flock, job, view>>
  /\ UNCHANGED <<file, clock, budget>>

-----------------------------------------------------------------------------
(***************************************************************************)
(* The scans: each decides, from the slots as they are, what to write.     *)
(***************************************************************************)
Plan(h, l, slots, img, o, n) ==
  /\ Goto(h, l)
  /\ job' = [job EXCEPT ![h] = [todo |-> slots, plan |-> img, old |-> o, cnt |-> n]]
  /\ UNCHANGED <<flock, req, ret, view>>

LiveCount == Cardinality(LiveSlots(cache))

\* init_new_file starts with the header, synced.
ScanInit(h) ==
  /\ At(h, "scan", {"init"})
  /\ hdr' = [st |-> "ok", cnt |-> 0]
  /\ media' = cache
  /\ Plan(h, "image", Slots, BlankImage, NoSlot, 0)
  /\ UNCHANGED <<cache, clock, budget>>

\* validate_and_scan; a header that cannot be read makes open fail.
ScanOpen(h) ==
  /\ At(h, "scan", {"open"})
  /\ \/ /\ hdr.st # "ok"
        /\ FailOpen(h)
     \/ /\ hdr.st = "ok"
        /\ LET bad == ScrubSlots(cache)
           IN Plan(h, IF bad = {} THEN "hdr" ELSE "mark", bad, BlankImage, NoSlot, LiveCount)
  /\ UNCHANGED <<file, clock, budget>>

\* robust_cfg_write: an EMPTY slot if there is one, else in place.
Target(k) == LET e == FirstEmpty(cache) IN IF e # NoSlot THEN e ELSE LastCopy(cache, k)

ScanWrite(h) ==
  /\ At(h, "scan", {"write"})
  /\ LET k == req[h].key
         t == Target(k)
     IN \/ t = NoSlot /\ Return(h, "FULL", NoVal)
        \/ /\ t # NoSlot
           /\ Plan(h, "put", {t}, [BlankImage EXCEPT ![t] = NewRec(k, req[h].val, clock)],
                   LastCopy(cache, k), 0)
  /\ UNCHANGED <<file, clock, budget>>

ScanDeleteOne(h) ==              \* mutant: the scan stops at the first copy it marks
  /\ At(h, "scan", {"delete"})
  /\ LET c == Copies(cache, req[h].key)
     IN \/ c = {} /\ Return(h, "NOT_FOUND", NoVal)
        \/ c # {} /\ Plan(h, "mark", {Max(c)}, BlankImage, NoSlot, 0)
  /\ UNCHANGED <<file, clock, budget>>

ScanDelete(h) ==
  /\ At(h, "scan", {"delete"})
  /\ LET c == Copies(cache, req[h].key)
     IN \/ c = {} /\ Return(h, "NOT_FOUND", NoVal)
        \/ c # {} /\ Plan(h, "mark", c, BlankImage, NoSlot, 0)
  /\ UNCHANGED <<file, clock, budget>>

ScanRepair(h) ==
  /\ At(h, "scan", {"repair"})
  /\ LET bad == RepairSlots(cache)
     IN Plan(h, IF bad = {} THEN "imgsync" ELSE "image", bad, BlankImage, NoSlot, LiveCount)
  /\ UNCHANGED <<file, clock, budget>>

ScanCompact(h) ==
  /\ At(h, "scan", {"compact"})
  /\ Plan(h, "image", Slots, CompactImage(cache), NoSlot, LiveCount)
  /\ UNCHANGED <<file, clock, budget>>

\* robust_cfg_read notes the winning slot and then reads it again.
ScanRead(h) ==
  /\ At(h, "scan", {"read"})
  /\ LET w == Winner(cache, req[h].key)
     IN \/ w = NoSlot /\ Return(h, "NOT_FOUND", NoVal)
        \/ w # NoSlot /\ Plan(h, "reread", {}, BlankImage, w, 0)
  /\ UNCHANGED <<file, clock, budget>>

Reread(h) ==
  /\ pc[h] = "reread"
  /\ LET r == cache[job[h].old]
     IN IF r.good THEN Return(h, "OK", r.val) ELSE Return(h, "CORRUPT", NoVal)
  /\ UNCHANGED <<file, clock, budget>>

-----------------------------------------------------------------------------
(***************************************************************************)
(* The writes.  Slots are written in ascending order.                      *)
(***************************************************************************)
NextSlot(h) == Min(job[h].todo)
Store(i, r) == cache' = [cache EXCEPT ![i] = r]
NoSync == UNCHANGED media        \* mutant: the fdatasync is forgotten
Sync == media' = cache
Advance(h, n) == job' = [job EXCEPT ![h].todo = @ \ {NextSlot(h)}, ![h].cnt = @ + n]

\* write_record_verified of the new record: write, then fdatasync and read back.
Put(h) ==
  /\ pc[h] = "put"
  /\ Store(NextSlot(h), job[h].plan[NextSlot(h)])
  /\ Goto(h, "putsync")
  /\ UNCHANGED <<media, hdr, flock, req, job, ret, clock, budget, view>>

\* The old slot that remains to be marked; none on the in-place path.
OldSlots(h) == {job[h].old} \ {NoSlot, NextSlot(h)}

PutUnsynced(h) ==                \* mutant: the old slot is marked before the sync
  /\ pc[h] = "putsync"
  /\ Goto(h, IF OldSlots(h) = {} THEN "hdr" ELSE "mark")
  /\ job' = [job EXCEPT ![h].todo = OldSlots(h)]
  /\ UNCHANGED <<file, flock, req, ret, clock, budget, view>>

PutSync(h) ==
  /\ pc[h] = "putsync"
  /\ Sync
  /\ \/ /\ cache[NextSlot(h)] = job[h].plan[NextSlot(h)]
        /\ Goto(h, IF OldSlots(h) = {} THEN "hdr" ELSE "mark")
        /\ job' = [job EXCEPT ![h].todo = OldSlots(h)]
        /\ UNCHANGED <<flock, req, ret, view>>
     \/ /\ cache[NextSlot(h)] # job[h].plan[NextSlot(h)]
        /\ Return(h, "CORRUPT", NoVal)
  /\ UNCHANGED <<cache, hdr, clock, budget>>

\* set_slot_state: read the record, change its state, write it with a new CRC.
MarkState(h) == IF req[h].kind = "open" THEN "CORRUPT" ELSE "DELETED"

Mark(h) ==
  /\ pc[h] = "mark"
  /\ Store(NextSlot(h), Marked(cache[NextSlot(h)], MarkState(h)))
  /\ Goto(h, "marksync")
  /\ UNCHANGED <<media, hdr, flock, req, job, ret, clock, budget, view>>

\* The next slot to mark, or the header when there is none.
AfterMark(h) == IF job[h].todo = {NextSlot(h)} THEN "hdr" ELSE "mark"

MarkSync(h) ==
  /\ pc[h] = "marksync"
  /\ Sync
  /\ Goto(h, AfterMark(h))
  /\ Advance(h, IF req[h].kind = "delete" THEN 1 ELSE 0)
  /\ UNCHANGED <<cache, hdr, flock, req, ret, clock, budget, view>>

\* init_new_file, repair and compact write slot after slot and sync once.
ImageStep(h) ==
  /\ pc[h] = "image"
  /\ Store(NextSlot(h), job[h].plan[NextSlot(h)])
  /\ Goto(h, IF job[h].todo = {NextSlot(h)} THEN "imgsync" ELSE "image")
  /\ Advance(h, 0)
  /\ UNCHANGED <<media, hdr, flock, req, ret, clock, budget, view>>

ImageSync(h) ==
  /\ pc[h] = "imgsync"
  /\ Sync
  /\ Goto(h, "hdr")
  /\ UNCHANGED <<cache, hdr, flock, req, job, ret, clock, budget, view>>

-----------------------------------------------------------------------------
(***************************************************************************)
(* The end of a call: update record_count (write_header syncs the file),   *)
(* release the lock and return.                                            *)
(***************************************************************************)
CountAnyway(h) == TRUE           \* mutant: record_count may wrap below zero
CountFits(h) == hdr.cnt >= job[h].cnt

CountEveryWrite(h) == IF req[h].kind = "write" THEN hdr.cnt + 1 ELSE job[h].cnt   \* mutant

NewCount(h) ==
  LET n == job[h].cnt
  IN CASE req[h].kind = "write"  -> IF job[h].old = NoSlot THEN hdr.cnt + 1 ELSE hdr.cnt
       [] req[h].kind = "delete" -> IF CountFits(h) THEN hdr.cnt - n ELSE hdr.cnt
       [] OTHER                  -> n

\* Is the header written at all?
WritesHeader(h) ==
  CASE req[h].kind = "delete" -> job[h].cnt > 0 /\ CountFits(h)
    [] req[h].kind = "open"   -> hdr.cnt # job[h].cnt
    [] req[h].kind = "init"   -> FALSE
    [] OTHER                  -> TRUE

Finish(h) ==
  \/ req[h].kind \in {"init", "open"} /\ Opened(h)
  \/ /\ req[h].kind = "delete"
     /\ Return(h, IF job[h].cnt > 0 THEN "OK" ELSE "NOT_FOUND", NoVal)
  \/ req[h].kind \in {"write", "repair", "compact"} /\ Return(h, "OK", NoVal)

Header(h) ==
  /\ pc[h] = "hdr"
  /\ \/ /\ WritesHeader(h)
        /\ hdr' = [hdr EXCEPT !.cnt = NewCount(h)]
        /\ Sync
     \/ ~WritesHeader(h) /\ UNCHANGED <<hdr, media>>
  /\ Finish(h)
  /\ UNCHANGED <<cache, clock, budget>>

-----------------------------------------------------------------------------
(***************************************************************************)
(* I/O errors: a write that fails leaves the slot as it was or cut short,  *)
(* an fdatasync that fails may have synced some of the slots.              *)
(***************************************************************************)
BadWrite(i, r) == \E left \in {cache[i]} \cup TornRecs(cache[i], r) : Store(i, left)
BadSync == \E S \in SUBSET Slots : media' = [i \in Slots |-> IF i \in S THEN cache[i] ELSE media[i]]

PutErrorIgnored(h) ==            \* mutant: the call goes on as if it were written
  /\ Spend("fault")
  /\ pc[h] = "put"
  /\ BadWrite(NextSlot(h), job[h].plan[NextSlot(h)])
  /\ Goto(h, IF OldSlots(h) = {} THEN "hdr" ELSE "mark")
  /\ job' = [job EXCEPT ![h].todo = OldSlots(h)]
  /\ UNCHANGED <<media, hdr, flock, req, ret, clock, view>>

\* The new record could not be written or synced: the call fails at once.
PutError(h) ==
  /\ Spend("fault")
  /\ \/ /\ pc[h] = "put"
        /\ BadWrite(NextSlot(h), job[h].plan[NextSlot(h)])
        /\ UNCHANGED media
     \/ pc[h] = "putsync" /\ BadSync /\ UNCHANGED cache
  /\ Return(h, "ERR", NoVal)
  /\ UNCHANGED <<hdr, clock>>

\* A mark that fails is ignored, or not counted by robust_cfg_delete.
MarkError(h) ==
  /\ Spend("fault")
  /\ \/ /\ pc[h] = "mark"
        /\ BadWrite(NextSlot(h), Marked(cache[NextSlot(h)], MarkState(h)))
        /\ UNCHANGED media
     \/ pc[h] = "marksync" /\ BadSync /\ UNCHANGED cache
  /\ Goto(h, AfterMark(h))
  /\ Advance(h, 0)
  /\ UNCHANGED <<hdr, flock, req, ret, clock, view>>

\* repair and compact ignore the result of a write or of the sync; init gives up.
ImageError(h) ==
  /\ Spend("fault")
  /\ \/ /\ pc[h] = "image"
        /\ BadWrite(NextSlot(h), job[h].plan[NextSlot(h)])
        /\ UNCHANGED media
     \/ pc[h] = "imgsync" /\ BadSync /\ UNCHANGED cache
  /\ \/ req[h].kind = "init" /\ FailOpen(h)
     \/ /\ req[h].kind # "init"
        /\ \/ /\ pc[h] = "imgsync"
              /\ Goto(h, "hdr")
              /\ UNCHANGED job
           \/ /\ pc[h] = "image"
              /\ Goto(h, IF job[h].todo = {NextSlot(h)} THEN "imgsync" ELSE "image")
              /\ Advance(h, 0)
        /\ UNCHANGED <<flock, req, ret, view>>
  /\ UNCHANGED <<hdr, clock>>

\* A header that cannot be written or synced fails init_new_file; the other
\* calls ignore it.
HeaderError(h) ==
  /\ Spend("fault")
  /\ \/ /\ At(h, "scan", {"init"})
        /\ hdr' \in {hdr, [st |-> "ok", cnt |-> 0]}
        /\ FailOpen(h)
     \/ /\ pc[h] = "hdr" /\ WritesHeader(h)
        /\ hdr' \in {hdr, [hdr EXCEPT !.cnt = NewCount(h)]}
        /\ Finish(h)
  /\ BadSync
  /\ UNCHANGED <<cache, clock>>

-----------------------------------------------------------------------------
(***************************************************************************)
(* The environment.                                                        *)
(***************************************************************************)
\* Every handle in H is gone, with the call it ran and the locks of the processes P.
Gone(H, P) ==
  /\ pc'    = [h \in Handles |-> IF h \in H THEN "closed" ELSE pc[h]]
  /\ req'   = [h \in Handles |-> IF h \in H THEN NoReq ELSE req[h]]
  /\ job'   = [h \in Handles |-> IF h \in H THEN NoJob ELSE job[h]]
  /\ ret'   = [h \in Handles |-> IF h \in H THEN NoRet ELSE ret[h]]
  /\ view'  = [h \in Handles |-> IF h \in H THEN Absent ELSE view[h]]
  /\ flock' = [p \in Procs |-> IF p \in P THEN "none" ELSE flock[p]]

\* SIGKILL: what the process wrote stays in the page cache.
Kill(p) ==
  /\ Spend("kill")
  /\ \E h \in Handles : ProcOf[h] = p /\ pc[h] \notin Rest
  /\ Gone({h \in Handles : ProcOf[h] = p}, {p})
  /\ UNCHANGED <<file, clock>>

\* The file itself stays: robust_cfg_open never syncs the directory entry of a file
\* it has created, so this is about files whose entry is on the media.
PowerCut ==
  /\ Spend("cut")
  /\ \E img \in PowerCutImages(cache, media) : cache' = img /\ media' = img
  /\ Gone(Handles, Procs)
  /\ UNCHANGED <<hdr, clock>>

Tick     == clock < MaxClock /\ clock' = clock + 1
StepBack == ClockStepsBack /\ clock > 0 /\ clock' = clock - 1
Time == /\ Tick \/ StepBack
        /\ UNCHANGED <<file, flock, pc, req, job, ret, budget, view>>

-----------------------------------------------------------------------------
Init ==
  /\ cache = [i \in Slots |-> IF StartOpen THEN EmptyRec ELSE AbsentRec]
  /\ media = cache
  /\ hdr   = [st |-> IF StartOpen THEN "ok" ELSE "none", cnt |-> 0]
  /\ flock = [p \in Procs |-> "none"]
  /\ pc    = [h \in Handles |-> IF StartOpen THEN "ready" ELSE "closed"]
  /\ req   = [h \in Handles |-> NoReq]
  /\ job   = [h \in Handles |-> NoJob]
  /\ ret   = [h \in Handles |-> NoRet]
  /\ view  = [h \in Handles |-> Absent]
  /\ clock = 0
  /\ budget = Budget

\* What the code of a call does, once called.
Scan(h) == \/ ScanInit(h) \/ ScanOpen(h) \/ ScanWrite(h) \/ ScanDelete(h)
           \/ ScanRepair(h) \/ ScanCompact(h) \/ ScanRead(h)
Run(h) == \/ Lock(h) \/ LockTimeout(h) \/ Scan(h) \/ Reread(h)
          \/ Put(h) \/ PutSync(h) \/ Mark(h) \/ MarkSync(h)
          \/ ImageStep(h) \/ ImageSync(h) \/ Header(h)
Fail(h) == PutError(h) \/ MarkError(h) \/ ImageError(h) \/ HeaderError(h)
Client(h) == Open(h) \/ Close(h) \/ (\E r \in Requests : Call(h, r))

Next ==
  \/ \E h \in Handles : Client(h) \/ Run(h) \/ Fail(h)
  \/ \E p \in Procs : Kill(p)
  \/ PowerCut
  \/ Time

Spec == Init /\ [][Next]_vars

\* A call that is running keeps running: the threads are scheduled and the lock
\* is retried a bounded number of times.
FairSpec == Spec /\ \A h \in Handles : WF_vars(Run(h))
=============================================================================
