-------------------------- MODULE RobustCfgStore_proofs --------------------------
(***************************************************************************)
(* What the robust-config library leaves on the media, what its header     *)
(* counts, and that it implements KVStore, for every number of slots,      *)
(* keys, values, handles and processes.                                    *)
(***************************************************************************)
EXTENDS RobustCfgKeys_proofs

-----------------------------------------------------------------------------
(* What a call has decided, and what it has done, as long as no I/O failed. *)

\* The calls that reach each point.
KindTask(h) ==
  /\ pc[h] \in Rest => req[h] = NoReq
  /\ pc[h] \notin Rest => req[h].kind \in Kinds \cup {"init", "open"}
  /\ pc[h] \in {"put", "putsync"} => req[h].kind = "write"
  /\ pc[h] \in {"mark", "marksync"} => req[h].kind \in {"write", "delete", "open"}
  /\ pc[h] \in {"image", "imgsync"} => req[h].kind \in {"init", "repair", "compact"}
  /\ pc[h] = "reread" => req[h].kind = "read"
  /\ pc[h] = "hdr" => req[h].kind # "read"
KindInv == \A h \in Handles : KindTask(h)

\* The new record goes to the slot the scan chose; the copy to be marked is the
\* one it found.
PutCourse(h) ==
  \E t \in Slots :
    /\ job[h].todo = {t}
    /\ job[h].plan[t] = NewRec(req[h].key, req[h].val, job[h].plan[t].ts)
    /\ pc[h] = "put" => t = Target(req[h].key) /\ job[h].old = LastCopy(cache, req[h].key)
    /\ pc[h] = "putsync" => /\ cache[t] = job[h].plan[t]
                            /\ job[h].old # NoSlot => job[h].old \in Copies(cache, req[h].key)

\* A delete has the copies of its key still to mark, a write the old one.
MarkCourse(h) ==
  /\ req[h].kind = "write" /\ pc[h] = "mark" =>
       job[h].todo = {job[h].old} /\ job[h].old \in Copies(cache, req[h].key)
  /\ req[h].kind = "write" => job[h].old # NoSlot
  /\ req[h].kind = "delete" =>
       Copies(cache, req[h].key) =
         IF pc[h] = "mark" THEN job[h].todo ELSE job[h].todo \ {NextSlot(h)}

Course(h) ==
  /\ pc[h] \in {"put", "putsync"}   => PutCourse(h)
  /\ pc[h] \in {"mark", "marksync"} => MarkCourse(h)
  /\ At(h, "image", {"init", "repair"}) => job[h].plan = BlankImage

CourseInv == NoErrorYet => \A h \in Handles : Course(h)

\* What a compact has written of the image it computed from the file it scanned, o.
Compacted(h, o) == /\ job[h].plan = CompactImage(o)
                   /\ \A i \in job[h].todo : cache[i] = o[i]
                   /\ \A i \in Slots \ job[h].todo : cache[i] = job[h].plan[i]

-----------------------------------------------------------------------------
(* What a step leaves alone. *)

LEMMA CallFacts ==
  ASSUME TypeInv
  PROVE  /\ pc \in [Handles -> Locations] /\ job \in [Handles -> Job]
         /\ req \in [Handles -> Requests \cup Openings \cup {NoReq}]
         /\ view \in [Handles -> [Keys -> Vals \cup {NoVal}]]
         /\ ret \in [Handles -> [rc : Codes, val : Vals \cup {NoVal}]]
         /\ flock \in [Procs -> {"none", "rd", "wr"}]
BY DEF TypeInv, CallInv, CallTypeOK

LEMMA DeleteGivesNothing ==
  ASSUME TypeInv, NEW h \in Handles, req[h].kind = "delete"
  PROVE  req[h].val = NoVal /\ req[h].key \in Keys
<1>1. \A r \in Requests \cup Openings \cup {NoReq} : r.kind = "delete" => r.val = NoVal /\ r.key \in Keys
  BY DEF Requests, Openings, NoReq
<1>2. req[h] \in Requests \cup Openings \cup {NoReq}
  BY CallFacts
<1>. QED  BY <1>1, <1>2

LEMMA ViewOthers ==
  ASSUME TypeInv, NEW h \in Handles, Client(h) \/ Run(h) \/ Fail(h), NEW g \in Handles \ {h}
  PROVE  view'[g] = view[g] /\ ret'[g] = ret[g]
<1>1. view \in [Handles -> [Keys -> Vals \cup {NoVal}]]
      /\ ret \in [Handles -> [rc : Codes, val : Vals \cup {NoVal}]]
  BY CallFacts
<1>2. Release(h) => view'[g] = view[g]
  BY <1>1 DEF Release
<1>3. (\E rc, v : Return(h, rc, v)) \/ FailOpen(h) \/ Opened(h) => view'[g] = view[g] /\ ret'[g] = ret[g]
  BY <1>1, <1>2 DEF Return, FailOpen, Opened
<1>4. Finish(h) => view'[g] = view[g] /\ ret'[g] = ret[g]
  BY <1>3 DEF Finish
<1>5. CASE Client(h)
  BY <1>1, <1>5 DEF Client, Open, Close, Call
<1>6. CASE Lock(h) \/ LockTimeout(h)
  BY <1>1, <1>3, <1>6 DEF Lock, LockTimeout
<1>7. CASE Scan(h) \/ Reread(h)
  BY <1>3, <1>7 DEF Scan, ScanInit, ScanOpen, ScanWrite, ScanDelete, ScanRepair, ScanCompact,
                    ScanRead, Plan, Reread
<1>8. CASE Put(h) \/ PutSync(h) \/ Mark(h) \/ MarkSync(h) \/ ImageStep(h) \/ ImageSync(h) \/ Header(h)
  BY <1>3, <1>4, <1>8 DEF Put, PutSync, Mark, MarkSync, ImageStep, ImageSync, Header
<1>9. CASE Fail(h)
  BY <1>3, <1>4, <1>9 DEF Fail, PutError, MarkError, ImageError, HeaderError
<1>. QED  BY <1>5, <1>6, <1>7, <1>8, <1>9 DEF Run

\* A handle that is not past its lock does not touch the file, except that it may create it.
LEMMA Outside ==
  ASSUME NEW h \in Handles, ~Inside(h), Client(h) \/ Run(h) \/ Fail(h)
  PROVE  /\ UNCHANGED <<cache, media>>
         /\ hdr' = hdr \/ (hdr.st = "none" /\ hdr' = [hdr EXCEPT !.st = "blank"])
<1>1. Open(h) \/ Close(h) \/ (\E r \in Requests : Call(h, r)) \/ Lock(h) \/ LockTimeout(h)
  BY DEF Inside, Rest, Client, Run, Fail, Scan, ScanInit, ScanOpen, ScanWrite, ScanDelete, ScanRepair,
         ScanCompact, ScanRead, At, Reread, Put, PutSync, Mark, MarkSync, ImageStep, ImageSync,
         Header, PutError, MarkError, ImageError, HeaderError
<1>. QED  BY <1>1 DEF Open, Close, Call, Lock, LockTimeout, file

\* While a call holds the write lock, the others leave it and the file alone.
LEMMA Quiet ==
  ASSUME OneHandlePerProcess, KeyInv, NEW g \in Handles, Writing(g),
         NEW h \in Handles \ {g}, Client(h) \/ Run(h) \/ Fail(h)
  PROVE  /\ ~Inside(h) /\ SameCall(g) /\ view'[g] = view[g] /\ Writing(g)'
         /\ UNCHANGED <<cache, media>>
         /\ hdr' = hdr \/ (hdr.st = "none" /\ hdr'.st = "blank" /\ hdr'.cnt = hdr.cnt)
<1>. TypeInv /\ LockInv
  BY DEF KeyInv
<1>1. ~Inside(h)
  BY ExclusionFromLocks DEF WriterExclusion, Writing, Reading, Inside
<1>2. SameCall(g) /\ view'[g] = view[g]
  BY StepOthers, ViewOthers
<1>3. hdr' = [hdr EXCEPT !.st = "blank"] => hdr'.st = "blank" /\ hdr'.cnt = hdr.cnt
  BY DEF TypeInv, FileTypeOK
<1>. QED  BY <1>1, <1>2, <1>3, Outside DEF Writing, SameCall

\* A call comes to each point from the points that lead there.
LEMMA KindStep ==
  ASSUME TypeInv, NEW h \in Handles, KindTask(h), Client(h) \/ Run(h) \/ Fail(h)
  PROVE  KindTask(h)'
<1>. DEFINE All == Kinds \cup {"init", "open"}
<1>1. /\ pc \in [Handles -> Locations] /\ job \in [Handles -> Job]
      /\ req \in [Handles -> Requests \cup Openings \cup {NoReq}]
  BY CallFacts
<1>2. ASSUME NEW l, Goto(h, l), UNCHANGED req, l \in {"scan", "lock"}, pc[h] \notin Rest
      PROVE  KindTask(h)'
  BY <1>1, <1>2 DEF Goto, KindTask, Rest
<1>3. ASSUME NEW l, Goto(h, l), UNCHANGED req, pc[h] \notin Rest, l \notin Rest,
             l \in {"put", "putsync"} => req[h].kind = "write",
             l \in {"mark", "marksync"} => req[h].kind \in {"write", "delete", "open"},
             l \in {"image", "imgsync"} => req[h].kind \in {"init", "repair", "compact"},
             l = "reread" => req[h].kind = "read",
             l = "hdr" => req[h].kind # "read"
      PROVE  KindTask(h)'
  BY <1>1, <1>3 DEF Goto, KindTask
<1>4. ASSUME NEW l \in Rest, Goto(h, l), req' = [req EXCEPT ![h] = NoReq]
      PROVE  KindTask(h)'
  BY <1>1, <1>4 DEF Goto, KindTask, Rest
<1>5. (\E rc, v : Return(h, rc, v)) \/ FailOpen(h) \/ Opened(h) => KindTask(h)'
  BY <1>4 DEF Return, FailOpen, Opened, Release, Rest
<1>6. Finish(h) => KindTask(h)'
  BY <1>5 DEF Finish
<1>7. CASE Client(h)
  <2>1. CASE Open(h)
    <3>1. pc'[h] = "lock" /\ req'[h].kind \in {"init", "open"}
      BY <1>1, <2>1 DEF Open, Goto, NoReq
    <3>. QED  BY <3>1 DEF KindTask, Rest
  <2>2. CASE Close(h)
    BY <1>1, <2>2 DEF Close, Goto, KindTask, Rest
  <2>3. ASSUME NEW r \in Requests, Call(h, r) PROVE KindTask(h)'
    BY <1>1, <2>3 DEF Call, Goto, KindTask, Rest
  <2>. QED  BY <1>7, <2>1, <2>2, <2>3 DEF Client
<1>8. CASE Lock(h)
  BY <1>2, <1>8 DEF Lock, Rest
<1>9. CASE LockTimeout(h)
  <2>1. CASE FailOpen(h)
    BY <1>5, <2>1
  <2>2. CASE Goto(h, "ready") /\ req' = [req EXCEPT ![h] = NoReq]
    BY <1>4, <2>2 DEF Rest
  <2>. QED  BY <1>9, <2>1, <2>2 DEF LockTimeout
<1>10. CASE Scan(h)
  <2>1. CASE ScanInit(h) \/ ScanRepair(h) \/ ScanCompact(h)
    BY <1>3, <2>1 DEF ScanInit, ScanRepair, ScanCompact, Plan, At, Rest
  <2>2. CASE ScanOpen(h) \/ ScanWrite(h)
    BY <1>3, <1>5, <2>2 DEF ScanOpen, ScanWrite, Plan, At, Rest
  <2>3. CASE ScanDelete(h) \/ ScanRead(h)
    BY <1>3, <1>5, <2>3 DEF ScanDelete, ScanRead, Plan, At, Rest
  <2>. QED  BY <1>10, <2>1, <2>2, <2>3 DEF Scan
<1>11. CASE Reread(h) \/ Header(h)
  BY <1>5, <1>6, <1>11 DEF Reread, Header
<1>12. CASE Put(h) \/ Mark(h) \/ ImageSync(h)
  BY <1>3, <1>12 DEF Put, Mark, ImageSync, KindTask, Rest
<1>13. CASE PutSync(h)
  BY <1>3, <1>5, <1>13 DEF PutSync, KindTask, Rest
<1>14. CASE MarkSync(h) \/ ImageStep(h)
  BY <1>3, <1>14 DEF MarkSync, ImageStep, AfterMark, KindTask, Rest
<1>15. CASE PutError(h) \/ HeaderError(h)
  BY <1>5, <1>6, <1>15 DEF PutError, HeaderError
<1>16. CASE MarkError(h) \/ ImageError(h)
  BY <1>3, <1>5, <1>16 DEF MarkError, ImageError, AfterMark, KindTask, Rest
<1>. QED  BY <1>7, <1>8, <1>9, <1>10, <1>11, <1>12, <1>13, <1>14, <1>15, <1>16 DEF Run, Fail

\* What a step that is no step of a handle does to the calls: it ends them or
\* leaves them alone.
Ended(g) == pc'[g] = "closed" /\ req'[g] = NoReq /\ ret'[g] = NoRet

LEMMA Elsewhere ==
  ASSUME NEW g \in Handles, (\E p \in Procs : Kill(p)) \/ PowerCut \/ Time \/ UNCHANGED vars
  PROVE  Ended(g) \/ (SameCall(g) /\ view'[g] = view[g] /\ ret'[g] = ret[g])
BY DEF Kill, PowerCut, Gone, Time, vars, Ended, SameCall

LEMMA KindInvStep ==
  ASSUME TypeInv, KindInv, [Next]_vars
  PROVE  KindInv'
<1>. SUFFICES ASSUME NEW g \in Handles PROVE KindTask(g)'
  BY DEF KindInv
<1>1. KindTask(g)
  BY DEF KindInv
<1>2. SameCall(g) => KindTask(g)'
  BY <1>1 DEF SameCall, KindTask
<1>3. Ended(g) => KindTask(g)'
  BY DEF Ended, KindTask, Rest
<1>4. ASSUME NEW h \in Handles, Client(h) \/ Run(h) \/ Fail(h) PROVE KindTask(g)'
  BY <1>1, <1>2, <1>4, KindStep, StepOthers
<1>. QED  BY <1>2, <1>3, <1>4, Elsewhere DEF Next

-----------------------------------------------------------------------------
(* The course of a call that meets no I/O error. *)

LEMMA CourseIdle ==
  ASSUME NEW g, pc'[g] \notin Busy
  PROVE  Course(g)'
BY DEF Course, Busy, At

LEMMA CourseKept ==
  ASSUME NEW g, Course(g), SameCall(g), UNCHANGED cache
  PROVE  Course(g)'
<1>1. NextSlot(g)' = NextSlot(g)
  BY DEF NextSlot, SameCall
<1>2. \A k : Target(k)' = Target(k)
  BY DEF Target, FirstEmpty, LastCopy, Live, Copies, LiveSlots
<1>3. PutCourse(g) => PutCourse(g)'
  BY <1>2 DEF SameCall, PutCourse
<1>4. MarkCourse(g) => MarkCourse(g)'
  BY <1>1 DEF SameCall, MarkCourse
<1>. QED  BY <1>3, <1>4 DEF Course, SameCall, At

LEMMA CopiesInSlots ==
  ASSUME NEW img, NEW k
  PROVE  \A i : i \in Copies(img, k) <=> i \in Slots /\ LiveRec(img[i]) /\ img[i].key = k
BY DEF Copies, LiveSlots

LEMMA NoSlotIsNone == NoSlot \notin Slots
BY FormatAssumption DEF NoSlot, Slots

LEMMA ReturnIdle ==
  ASSUME TypeInv, NEW h \in Handles,
         (\E rc, v : Return(h, rc, v)) \/ FailOpen(h) \/ Opened(h) \/ Finish(h)
  PROVE  pc'[h] \in Rest
BY ReturnTask, FinishTask

\* The plan of a write is to put a new record in the slot the scan chose.
LEMMA ScanWritePlans ==
  ASSUME TypeInv, NEW h \in Handles, ScanWrite(h), pc'[h] \notin Rest
  PROVE  LET t == Target(req[h].key)
         IN /\ pc'[h] = "put" /\ req' = req /\ cache' = cache /\ t \in Slots
            /\ job'[h].todo = {t} /\ job'[h].old = LastCopy(cache, req[h].key)
            /\ job'[h].plan[t] = NewRec(req[h].key, req[h].val, clock)
<1>. DEFINE k == req[h].key
            t == Target(k)
            img == [BlankImage EXCEPT ![t] = NewRec(k, req[h].val, clock)]
<1>1. ~Return(h, "FULL", NoVal)
  BY ReturnIdle
<1>2. t # NoSlot /\ Plan(h, "put", {t}, img, LastCopy(cache, k), 0)
  BY <1>1 DEF ScanWrite
<1>3. cache \in Image /\ cache' = cache
  BY DEF TypeInv, FileTypeOK, ScanWrite, file
<1>4. t \in Slots
  BY <1>2, <1>3, ScanResults, CopiesAreSlots DEF Target
<1>5. img[t] = NewRec(k, req[h].val, clock)
  BY <1>4 DEF BlankImage
<1>. HIDE DEF img, t
<1>6. /\ pc'[h] = "put" /\ req' = req /\ job'[h].todo = {t} /\ job'[h].plan = img
      /\ job'[h].old = LastCopy(cache, k)
  BY <1>2, PlanEffect
<1>. QED  BY <1>3, <1>4, <1>5, <1>6 DEF t

LEMMA ScanWriteCourse ==
  ASSUME TypeInv, NEW h \in Handles, ScanWrite(h)
  PROVE  Course(h)'
<1>. DEFINE t == Target(req[h].key)
<1>1. CASE pc'[h] \in Rest
  BY <1>1, CourseIdle DEF Rest, Busy
<1>2. CASE pc'[h] \notin Rest
  <2>1. /\ pc'[h] = "put" /\ req' = req /\ cache' = cache /\ t \in Slots
        /\ job'[h].todo = {t} /\ job'[h].old = LastCopy(cache, req[h].key)
        /\ job'[h].plan[t] = NewRec(req[h].key, req[h].val, clock)
    BY <1>2, ScanWritePlans
  <2>2. Target(req[h].key)' = t
    BY <2>1 DEF Target, FirstEmpty, LastCopy, Live, Copies, LiveSlots
  <2>3. NewRec(req[h].key, req[h].val, clock).ts = clock
    BY DEF NewRec
  <2>. HIDE DEF t
  <2>4. PutCourse(h)'
    BY <2>1, <2>2, <2>3 DEF PutCourse
  <2>. QED  BY <2>1, <2>4 DEF Course, At
<1>. QED  BY <1>1, <1>2

\* A write of the record planned for the next slot.
LEMMA PutCourseStep ==
  ASSUME TypeInv, NEW h \in Handles, Course(h), Put(h)
  PROVE  Course(h)'
<1>1. pc[h] = "put" /\ pc'[h] = "putsync" /\ req' = req /\ job' = job
      /\ Store(NextSlot(h), job[h].plan[NextSlot(h)])
  BY DEF Put, Goto, TypeInv, CallInv, CallTypeOK
<1>2. PICK t \in Slots : /\ job[h].todo = {t}
                         /\ job[h].plan[t] = NewRec(req[h].key, req[h].val, job[h].plan[t].ts)
                         /\ job[h].old = LastCopy(cache, req[h].key)
  BY <1>1 DEF Course, PutCourse
<1>3. NextSlot(h) = t /\ cache \in Image
  BY <1>1, <1>2, WriteTypes
<1>4. cache'[t] = job[h].plan[t] /\ \A j \in Slots \ {t} : cache'[j] = cache[j]
  BY <1>1, <1>3, OneSlotWritten
<1>5. LiveRec(job[h].plan[t]) /\ job[h].plan[t].key = req[h].key
  BY <1>2 DEF NewRec, LiveRec
<1>6. job[h].old # NoSlot => job[h].old \in Copies(cache, req[h].key)
  BY <1>2, <1>3, ScanResults
<1>7. job[h].old # NoSlot => job[h].old \in Copies(cache', req[h].key)
  BY <1>4, <1>5, <1>6, CopiesInSlots
<1>8. PutCourse(h)'
  BY <1>1, <1>2, <1>4, <1>7 DEF PutCourse
<1>. QED  BY <1>1, <1>8 DEF Course, At

LEMMA PutSyncMoves ==
  ASSUME TypeInv, NEW h \in Handles, PutSync(h), Course(h)
  PROVE  \E t \in Slots :
           /\ job[h].todo = {t} /\ pc[h] = "putsync"
           /\ job[h].plan[t] = NewRec(req[h].key, req[h].val, job[h].plan[t].ts)
           /\ cache[t] = job[h].plan[t] /\ cache' = cache /\ media' = cache /\ hdr' = hdr
           /\ req' = req /\ view' = view /\ ret' = ret
           /\ job'[h].old = job[h].old /\ job'[h].todo = {job[h].old} \ {NoSlot, t}
           /\ pc'[h] = IF {job[h].old} \ {NoSlot, t} = {} THEN "hdr" ELSE "mark"
           /\ job[h].old # NoSlot => job[h].old \in Copies(cache, req[h].key)
<1>1. pc[h] = "putsync"
  BY DEF PutSync
<1>2. PICK t \in Slots : /\ job[h].todo = {t} /\ cache[t] = job[h].plan[t]
                         /\ job[h].plan[t] = NewRec(req[h].key, req[h].val, job[h].plan[t].ts)
                         /\ job[h].old # NoSlot => job[h].old \in Copies(cache, req[h].key)
  BY <1>1 DEF Course, PutCourse
<1>3. NextSlot(h) = t
  BY <1>1, <1>2, WriteTypes
<1>4. /\ Goto(h, IF OldSlots(h) = {} THEN "hdr" ELSE "mark")
      /\ job' = [job EXCEPT ![h].todo = OldSlots(h)] /\ UNCHANGED <<req, ret, view>>
  BY <1>2, <1>3 DEF PutSync
<1>5. job \in [Handles -> Job] /\ pc \in [Handles -> Locations]
  BY CallFacts
<1>6. /\ job'[h].old = job[h].old /\ job'[h].todo = OldSlots(h)
      /\ pc'[h] = IF OldSlots(h) = {} THEN "hdr" ELSE "mark"
  BY <1>4, <1>5 DEF Goto, Job
<1>7. cache' = cache /\ media' = cache /\ hdr' = hdr
  BY DEF PutSync, Sync
<1>. QED  BY <1>1, <1>2, <1>3, <1>4, <1>6, <1>7 DEF OldSlots

LEMMA PutSyncCourse ==
  ASSUME TypeInv, NEW h \in Handles, Course(h), KindTask(h), PutSync(h)
  PROVE  Course(h)'
<1>1. PICK t \in Slots :
           /\ job[h].todo = {t} /\ pc[h] = "putsync"
           /\ cache' = cache /\ req' = req
           /\ job'[h].old = job[h].old /\ job'[h].todo = {job[h].old} \ {NoSlot, t}
           /\ pc'[h] = IF {job[h].old} \ {NoSlot, t} = {} THEN "hdr" ELSE "mark"
           /\ job[h].old # NoSlot => job[h].old \in Copies(cache, req[h].key)
  BY PutSyncMoves
<1>2. req[h].kind = "write"
  BY <1>1 DEF KindTask
<1>3. CASE {job[h].old} \ {NoSlot, t} = {}
  BY <1>1, <1>3, CourseIdle DEF Busy
<1>4. CASE {job[h].old} \ {NoSlot, t} # {}
  <2>1. MarkCourse(h)'
    BY <1>1, <1>2, <1>4 DEF MarkCourse
  <2>. QED  BY <1>1, <1>4, <2>1 DEF Course, At
<1>. QED  BY <1>3, <1>4

LEMMA ScanDeletePlans ==
  ASSUME TypeInv, NEW h \in Handles, ScanDelete(h), pc'[h] \notin Rest
  PROVE  /\ pc'[h] = "mark" /\ req' = req /\ cache' = cache /\ req[h].kind = "delete"
         /\ job'[h].todo = Copies(cache, req[h].key) /\ Live(cache, req[h].key)
         /\ job'[h].cnt = 0
<1>1. ~Return(h, "NOT_FOUND", NoVal)
  BY ReturnIdle
<1>2. Live(cache, req[h].key)
      /\ Plan(h, "mark", Copies(cache, req[h].key), BlankImage, NoSlot, 0)
  BY <1>1 DEF ScanDelete, Live
<1>3. job \in [Handles -> Job]
  BY CallFacts
<1>4. job'[h].cnt = 0
  BY <1>2, <1>3 DEF Plan
<1>. QED  BY <1>2, <1>4, PlanEffect DEF ScanDelete, At, file

LEMMA MarkEffect ==
  ASSUME TypeInv, NEW h \in Handles, Mark(h)
  PROVE  LET i == NextSlot(h)
         IN /\ pc[h] = "mark" /\ pc'[h] = "marksync" /\ NextSlot(h)' = i
            /\ UNCHANGED <<media, hdr, req, job, ret, view, clock>>
            /\ i \in job[h].todo /\ i \in Slots /\ \A y \in job[h].todo : i <= y
            /\ cache'[i].state = MarkState(h) /\ cache'[i].key = cache[i].key
            /\ ~LiveRec(cache'[i])
            /\ \A j \in Slots \ {i} : cache'[j] = cache[j]
<1>. DEFINE i == NextSlot(h)
<1>1. /\ pc[h] = "mark" /\ pc'[h] = "marksync"
      /\ UNCHANGED <<media, hdr, req, job, ret, view, clock>>
      /\ Store(i, Marked(cache[i], MarkState(h)))
  BY DEF Mark, Goto, TypeInv, CallInv, CallTypeOK
<1>2. i \in job[h].todo /\ i \in Slots /\ cache \in Image
  BY <1>1, WriteTypes
<1>3. \A y \in job[h].todo : i <= y
  BY <1>1, NextSlotType DEF TypeInv, CallInv, JobShape
<1>4. i' = i
  BY <1>1 DEF NextSlot
<1>5. cache'[i] = Marked(cache[i], MarkState(h)) /\ \A j \in Slots \ {i} : cache'[j] = cache[j]
  BY <1>1, <1>2, OneSlotWritten
<1>6. cache[i] \in Record
  BY <1>2 DEF Image
<1>7. cache'[i].state = MarkState(h) /\ cache'[i].key = cache[i].key
  BY <1>5, <1>6 DEF Marked, Record
<1>8. ~LiveRec(cache'[i])
  BY <1>7 DEF LiveRec, MarkState
<1>. QED  BY <1>1, <1>2, <1>3, <1>4, <1>5, <1>7, <1>8

LEMMA MarkSyncEffect ==
  ASSUME TypeInv, NEW h \in Handles, MarkSync(h)
  PROVE  LET i == NextSlot(h)
         IN /\ pc[h] = "marksync" /\ pc'[h] = AfterMark(h)
            /\ UNCHANGED <<cache, hdr, req, ret, view, clock>> /\ media' = cache
            /\ i \in job[h].todo /\ job'[h].todo = job[h].todo \ {i} /\ job'[h].old = job[h].old
            /\ job'[h].cnt = job[h].cnt + (IF req[h].kind = "delete" THEN 1 ELSE 0)
<1>. DEFINE n == IF req[h].kind = "delete" THEN 1 ELSE 0
<1>1. /\ pc[h] = "marksync" /\ Goto(h, AfterMark(h)) /\ Advance(h, n)
      /\ UNCHANGED <<cache, hdr, req, ret, view, clock>> /\ media' = cache
  BY DEF MarkSync, Sync
<1>2. pc'[h] = AfterMark(h) /\ job'[h].todo = job[h].todo \ {NextSlot(h)}
  BY <1>1, AdvanceEffect
<1>3. job \in [Handles -> Job]
  BY CallFacts
<1>. HIDE DEF n
<1>4. job'[h].old = job[h].old /\ job'[h].cnt = job[h].cnt + n
  BY <1>1, <1>3 DEF Advance, Job
<1>5. NextSlot(h) \in job[h].todo
  BY <1>1, WriteTypes
<1>. QED  BY <1>1, <1>2, <1>4, <1>5 DEF n

LEMMA MarkCourseStep ==
  ASSUME TypeInv, NEW h \in Handles, Course(h), Mark(h)
  PROVE  Course(h)'
<1>. DEFINE i == NextSlot(h)
<1>1. /\ pc[h] = "mark" /\ pc'[h] = "marksync" /\ i' = i /\ UNCHANGED <<req, job>>
      /\ i \in job[h].todo /\ i \in Slots /\ ~LiveRec(cache'[i])
      /\ \A j \in Slots \ {i} : cache'[j] = cache[j]
  BY MarkEffect
<1>2. MarkCourse(h)
  BY <1>1 DEF Course
<1>3. \A k : Copies(cache', k) = Copies(cache, k) \ {i}
  BY <1>1, CopiesInSlots
<1>. HIDE DEF i
<1>4. MarkCourse(h)'
  BY <1>1, <1>2, <1>3 DEF MarkCourse, i
<1>. QED  BY <1>1, <1>4 DEF Course, At

LEMMA MarkSyncCourse ==
  ASSUME KeyInv, NEW h \in Handles, Course(h), MarkSync(h)
  PROVE  Course(h)'
<1>. TypeInv
  BY DEF KeyInv
<1>1. /\ pc[h] = "marksync" /\ pc'[h] = AfterMark(h) /\ cache' = cache /\ req' = req
      /\ job'[h].todo = job[h].todo \ {NextSlot(h)} /\ job'[h].old = job[h].old
      /\ NextSlot(h) \in job[h].todo
  BY MarkSyncEffect
<1>2. MarkCourse(h) /\ MarkTask(h)
  BY <1>1 DEF Course, KeyInv, Task
<1>3. CASE AfterMark(h) = "hdr"
  BY <1>1, <1>3, CourseIdle DEF Busy
<1>4. CASE AfterMark(h) = "mark"
  <2>1. job[h].todo # {NextSlot(h)}
    BY <1>4 DEF AfterMark
  <2>2. req[h].kind # "write"
    BY <1>1, <1>2, <2>1 DEF MarkTask
  <2>3. MarkCourse(h)'
    BY <1>1, <1>2, <1>4, <2>2 DEF MarkCourse
  <2>. QED  BY <1>1, <1>4, <2>3 DEF Course, At
<1>. QED  BY <1>3, <1>4 DEF AfterMark

LEMMA ScanCourse ==
  ASSUME TypeInv, NEW h \in Handles, Scan(h)
  PROVE  Course(h)'
<1>1. CASE pc'[h] \notin Busy
  BY <1>1, CourseIdle
<1>2. CASE ScanWrite(h)
  BY <1>2, ScanWriteCourse
<1>3. CASE ScanDelete(h) /\ pc'[h] \in Busy
  <2>1. /\ pc'[h] = "mark" /\ req' = req /\ cache' = cache /\ req[h].kind = "delete"
        /\ job'[h].todo = Copies(cache, req[h].key)
    BY <1>3, ScanDeletePlans DEF Busy, Rest
  <2>2. MarkCourse(h)'
    BY <2>1 DEF MarkCourse
  <2>. QED  BY <2>1, <2>2 DEF Course, At
<1>4. CASE ScanOpen(h) /\ pc'[h] \in Busy
  <2>1. req' = req /\ pc'[h] \in {"hdr", "mark"} /\ req[h].kind = "open"
    <3>1. ~FailOpen(h)
      BY <1>4, ReturnIdle DEF Busy, Rest
    <3>2. \E l \in {"hdr", "mark"} : \E S : Plan(h, l, S, BlankImage, NoSlot, LiveCount)
      BY <1>4, <3>1 DEF ScanOpen
    <3>. QED  BY <1>4, <3>2, PlanEffect DEF ScanOpen, At
  <2>2. MarkCourse(h)'
    BY <2>1 DEF MarkCourse
  <2>. QED  BY <2>1, <2>2 DEF Course, At
<1>5. CASE ScanInit(h) \/ ScanRepair(h)
  <2>1. \E l \in {"image", "imgsync"} : \E S, n : Plan(h, l, S, BlankImage, NoSlot, n)
    BY <1>5 DEF ScanInit, ScanRepair
  <2>2. pc'[h] \in {"image", "imgsync"} /\ job'[h].plan = BlankImage
    BY <2>1, PlanEffect
  <2>. QED  BY <2>2 DEF Course, At
<1>6. CASE ScanCompact(h)
  <2>1. pc'[h] = "image" /\ req' = req /\ req[h].kind = "compact"
    BY <1>6, PlanEffect DEF ScanCompact, At
  <2>. QED  BY <2>1 DEF Course, At
<1>7. CASE ScanRead(h)
  <2>1. pc'[h] \in Rest \cup {"reread"}
    BY <1>7, ReturnIdle, PlanEffect DEF ScanRead
  <2>. QED  BY <2>1, CourseIdle DEF Rest, Busy
<1>. QED  BY <1>1, <1>2, <1>3, <1>4, <1>5, <1>6, <1>7 DEF Scan

LEMMA OwnCourse ==
  ASSUME KeyInv, NEW h \in Handles, KindTask(h), Course(h), Client(h) \/ Run(h)
  PROVE  Course(h)'
<1>. TypeInv
  BY DEF KeyInv
<1>1. CASE Client(h) \/ Lock(h) \/ LockTimeout(h) \/ Reread(h) \/ ImageSync(h) \/ Header(h)
  <2>1. \A l : Goto(h, l) => pc'[h] = l
    BY LeaveTask, CallFacts DEF Goto
  <2>2. pc'[h] \in Rest \cup {"lock", "scan", "hdr"}
    BY <1>1, <2>1, ReturnIdle DEF Client, Open, Close, Call, Lock, LockTimeout, Reread, ImageSync, Header, Rest
  <2>. QED  BY <2>2, CourseIdle DEF Rest, Busy
<1>2. CASE ImageStep(h)
  <2>1. /\ pc'[h] \in {"image", "imgsync"} /\ req' = req /\ job'[h].plan = job[h].plan
        /\ pc[h] = "image"
    BY <1>2, AdvanceEffect DEF ImageStep
  <2>. QED  BY <2>1 DEF Course, At
<1>. QED  BY <1>1, <1>2, ScanCourse, PutCourseStep, PutSyncCourse, MarkCourseStep, MarkSyncCourse DEF Run

LEMMA CourseInvStep ==
  ASSUME OneHandlePerProcess, KeyInv, KindInv, BudgetInv, CourseInv, [Next]_vars
  PROVE  CourseInv'
<1>. TypeInv
  BY DEF KeyInv
<1>. SUFFICES ASSUME NoErrorYet', NEW g \in Handles PROVE Course(g)'
  BY DEF CourseInv
<1>1. /\ \A h \in Handles : ~Fail(h)
      /\ Course(g)
  BY NothingYet DEF CourseInv
<1>2. ASSUME NEW h \in Handles, Client(h) \/ Run(h) PROVE Course(g)'
  <2>1. CASE g = h
    BY <1>1, <1>2, <2>1, OwnCourse DEF KindInv
  <2>2. CASE g # h
    <3>1. SameCall(g)
      BY <1>2, <2>2, StepOthers
    <3>2. CASE cache' = cache
      BY <1>1, <3>1, <3>2, CourseKept
    <3>3. CASE pc[h] \in Busy
      BY <2>2, <3>1, <3>3, AloneInFile, CourseIdle DEF SameCall
    <3>. QED  BY <1>2, <3>2, <3>3, OwnTask
  <2>. QED  BY <2>1, <2>2
<1>3. CASE (\E p \in Procs : Kill(p)) \/ PowerCut \/ Time \/ UNCHANGED vars
  <2>1. CASE Ended(g)
    BY <2>1, CourseIdle DEF Ended, Busy
  <2>2. CASE ~Ended(g)
    <3>1. SameCall(g)
      BY <1>3, <2>2, Elsewhere
    <3>2. ~PowerCut
      BY <2>2 DEF PowerCut, Gone, Ended
    <3>3. cache' = cache
      BY <1>3, <3>2 DEF Kill, Time, vars, file
    <3>. QED  BY <1>1, <3>1, <3>3, CourseKept
  <2>. QED  BY <2>1, <2>2
<1>. QED  BY <1>1, <1>2, <1>3 DEF Next

-----------------------------------------------------------------------------
(***************************************************************************)
(* The media.  As long as no process is killed and no I/O fails, the file  *)
(* is synced at every point of every call but these.                       *)
(***************************************************************************)
Unsynced == {"putsync", "marksync", "image", "imgsync"}
FileSynced == media = cache \/ \E h \in Handles : pc[h] \in Unsynced
NoKills == budget["kill"] = 0

\* A step of a handle syncs the file, leaves it alone, or is in the middle of its writes.
LEMMA SyncStep ==
  ASSUME TypeInv, NEW h \in Handles, Client(h) \/ Run(h)
  PROVE  \/ media' = cache'
         \/ pc'[h] \in Unsynced
         \/ UNCHANGED <<cache, media>> /\ pc[h] \notin Unsynced
<1>1. \A l : Goto(h, l) => pc'[h] = l
  BY CallFacts DEF Goto
<1>2. CASE Client(h) \/ Lock(h) \/ LockTimeout(h) \/ Reread(h)
  BY <1>2 DEF Client, Open, Close, Call, Lock, LockTimeout, Reread, file, Unsynced
<1>3. CASE Scan(h)
  BY <1>3 DEF Scan, ScanInit, ScanOpen, ScanWrite, ScanDelete, ScanRepair, ScanCompact, ScanRead,
              At, file, Unsynced
<1>4. CASE Put(h) \/ Mark(h) \/ ImageStep(h)
  BY <1>1, <1>4 DEF Put, Mark, ImageStep, Unsynced
<1>5. CASE PutSync(h) \/ MarkSync(h) \/ ImageSync(h) \/ Header(h)
  BY <1>5 DEF PutSync, MarkSync, ImageSync, Header, Sync, Unsynced
<1>. QED  BY <1>2, <1>3, <1>4, <1>5 DEF Run

LEMMA NoKill == ASSUME TypeInv, NoKills PROVE \A p \in Procs : ~Kill(p)
BY DEF TypeInv, EnvTypeOK, NoKills, Kill, Spend, Resources

LEMMA FileSyncedStep ==
  ASSUME TypeInv, NoKills, NoFaults, FileSynced, [Next]_vars
  PROVE  FileSynced'
<1>1. ASSUME NEW h \in Handles, Client(h) \/ Run(h) PROVE FileSynced'
  <2>1. CASE media' = cache' \/ pc'[h] \in Unsynced
    BY <2>1 DEF FileSynced
  <2>2. CASE UNCHANGED <<cache, media>> /\ pc[h] \notin Unsynced
    <3>1. CASE media = cache
      BY <2>2, <3>1 DEF FileSynced
    <3>2. CASE media # cache
      <4>1. PICK g \in Handles : pc[g] \in Unsynced
        BY <3>2 DEF FileSynced
      <4>2. pc'[g] = pc[g]
        BY <1>1, <2>2, <4>1, StepOthers DEF SameCall
      <4>. QED  BY <4>1, <4>2 DEF FileSynced
    <3>. QED  BY <3>1, <3>2
  <2>. QED  BY <1>1, <2>1, <2>2, SyncStep
<1>2. CASE PowerCut
  BY <1>2 DEF PowerCut, FileSynced
<1>3. CASE Time \/ UNCHANGED vars
  BY <1>3 DEF Time, vars, file, FileSynced
<1>. QED  BY <1>1, <1>2, <1>3, NoKill, NothingFails DEF Next

LEMMA KindInit == Init => KindInv
BY DEF Init, KindInv, KindTask, Rest

\* When no process is killed and no I/O fails, between calls what a client can read
\* is what the media hold, whatever the calls, the processes and handles that run
\* them and the power cuts: every store is followed by a sync before its call
\* returns (robust_cfg.c:207, 238, 695, 750).
THEOREM WritesAreSynced ==
  ASSUME Budget["kill"] = 0, Budget["fault"] = 0
  PROVE  Spec => []SyncedBetweenCalls
<1>. DEFINE I == TypeInv /\ KindInv /\ NoKills /\ NoFaults /\ FileSynced
<1>1. Init => I
  BY InitType, KindInit DEF Init, NoKills, NoFaults, FileSynced
<1>2. I /\ [Next]_vars => I'
  BY TypeStep, KindInvStep, BudgetOnlyFalls, FileSyncedStep DEF NoKills, NoFaults, Resources
<1>3. I => SyncedBetweenCalls
  <2>. SUFFICES ASSUME I, \A h \in Handles : ~Writing(h) PROVE media = cache
    BY DEF SyncedBetweenCalls
  <2>1. \A h \in Handles : pc[h] \notin Unsynced
    BY DEF KindInv, KindTask, Writing, Unsynced, Rest
  <2>. QED  BY <2>1 DEF FileSynced
<1>. HIDE DEF I
<1>. QED  BY <1>1, <1>2, <1>3, PTL DEF Spec

\* Where the media may lag behind: in the slot just written, which the media
\* hold a live record in only if the write is in place or marks a copy of its key.
MediaTask(h) ==
  /\ pc[h] = "putsync" => \A i \in Slots :
       \/ media[i] = cache[i]
       \/ /\ i \in job[h].todo
          /\ LiveRec(media[i]) => job[h].old = i /\ media[i].key = req[h].key
  /\ pc[h] = "marksync" => \A i \in Slots :
       \/ media[i] = cache[i]
       \/ /\ i = NextSlot(h)
          /\ LiveRec(media[i]) => req[h].kind # "open" /\ media[i].key = req[h].key
  /\ pc[h] \in {"image", "imgsync"} => \A i \in Slots :
       \/ media[i] = cache[i]
       \/ ~LiveRec(media[i]) /\ ~LiveRec(cache[i])

MediaInv == FileSynced /\ \A h \in Handles : MediaTask(h)

SyncInv == /\ KeyInv /\ KindInv /\ BudgetInv /\ CourseInv /\ MediaInv
           /\ NoKills /\ NoFaults /\ NoErrorYet

LEMMA UnsyncedWrites ==
  ASSUME NEW h, KindTask(h), pc[h] \in Unsynced
  PROVE  Writing(h)
BY DEF KindTask, Unsynced, Writing, Rest

\* A call that is about to write finds the file synced.
LEMMA SyncedBefore ==
  ASSUME OneHandlePerProcess, KeyInv, KindInv, FileSynced, NEW h \in Handles,
         Writing(h), pc[h] \notin Unsynced
  PROVE  media = cache
<1>. SUFFICES ASSUME NEW g \in Handles, pc[g] \in Unsynced PROVE FALSE
  BY DEF FileSynced
<1>1. Writing(g) /\ g # h
  BY UnsyncedWrites DEF KindInv
<1>. QED  BY <1>1, ExclusionFromLocks DEF KeyInv, WriterExclusion

LEMMA MediaIdle ==
  ASSUME NEW g, pc'[g] \notin Unsynced
  PROVE  MediaTask(g)'
BY DEF MediaTask, Unsynced

LEMMA MediaKept ==
  ASSUME NEW g, MediaTask(g), SameCall(g), UNCHANGED <<cache, media>>
  PROVE  MediaTask(g)'
<1>1. NextSlot(g)' = NextSlot(g)
  BY DEF NextSlot, SameCall
<1>. QED  BY <1>1 DEF MediaTask, SameCall, LiveRec

\* The steps after which the file is not synced.
LEMMA UnsyncedEntry ==
  ASSUME TypeInv, NEW h \in Handles, Client(h) \/ Run(h), pc'[h] \in Unsynced
  PROVE  Put(h) \/ Mark(h) \/ ScanInit(h) \/ ScanRepair(h) \/ ScanCompact(h) \/ ImageStep(h)
<1>1. \A l : Goto(h, l) => pc'[h] = l
  BY CallFacts DEF Goto
<1>2. ~Client(h) /\ ~Lock(h) /\ ~LockTimeout(h) /\ ~Reread(h) /\ ~ImageSync(h) /\ ~Header(h)
  BY <1>1, ReturnIdle DEF Client, Open, Close, Call, Lock, LockTimeout, Reread, ImageSync, Header,
                          Unsynced, Rest
<1>3. ~ScanOpen(h) /\ ~ScanWrite(h) /\ ~ScanDelete(h) /\ ~ScanRead(h)
  BY <1>1, ReturnIdle DEF ScanOpen, ScanWrite, ScanDelete, ScanRead, Plan, Unsynced, Rest
<1>4. ~PutSync(h) /\ ~MarkSync(h)
  BY <1>1, ReturnIdle DEF PutSync, MarkSync, AfterMark, Unsynced, Rest
<1>. QED  BY <1>2, <1>3, <1>4 DEF Run, Scan

LEMMA OwnMedia ==
  ASSUME OneHandlePerProcess, SyncInv, "compact" \notin Kinds, NEW h \in Handles, Client(h) \/ Run(h)
  PROVE  MediaTask(h)'
<1>. TypeInv /\ KindTask(h) /\ FileSynced /\ KeyInv /\ KindInv /\ MediaTask(h)
  BY DEF SyncInv, KeyInv, KindInv, MediaInv
<1>1. Course(h)
  BY DEF SyncInv, CourseInv
<1>2. CASE pc'[h] \notin Unsynced
  BY <1>2, MediaIdle
<1>3. CASE Put(h)
  <2>. DEFINE i == NextSlot(h)
  <2>1. /\ pc[h] = "put" /\ pc'[h] = "putsync" /\ UNCHANGED <<media, req, job>>
        /\ Store(i, job[h].plan[i])
    BY <1>3 DEF Put, Goto, TypeInv, CallInv, CallTypeOK
  <2>2. i \in job[h].todo /\ i \in Slots /\ \A j \in Slots \ {i} : cache'[j] = cache[j]
    BY <2>1, WriteTypes, OneSlotWritten
  <2>3. PutTask(h)
    BY <2>1 DEF KeyInv, Task
  <2>4. media = cache
    BY <2>1, <2>3, SyncedBefore DEF Writing, PutTask, Rest, Unsynced
  <2>5. LiveRec(cache[i]) => job[h].old = i /\ cache[i].key = req[h].key
    BY <2>1, <2>2, <2>3 DEF PutTask, LiveRec
  <2>. HIDE DEF i
  <2>. QED  BY <2>1, <2>2, <2>4, <2>5 DEF MediaTask, LiveRec
<1>4. CASE Mark(h)
  <2>. DEFINE i == NextSlot(h)
  <2>1. /\ pc[h] = "mark" /\ pc'[h] = "marksync" /\ i' = i /\ UNCHANGED <<media, req, job>>
        /\ i \in job[h].todo /\ i \in Slots /\ \A j \in Slots \ {i} : cache'[j] = cache[j]
    BY <1>4, MarkEffect
  <2>2. MarkTask(h)
    BY <2>1 DEF KeyInv, Task
  <2>3. media = cache
    BY <2>1, SyncedBefore DEF Writing, KindTask, Rest, Unsynced
  <2>4. LiveRec(cache[i]) => req[h].kind # "open" /\ cache[i].key = req[h].key
    BY <2>1, <2>2 DEF MarkTask, Holds
  <2>. HIDE DEF i
  <2>. QED  BY <2>1, <2>3, <2>4 DEF MediaTask, LiveRec, i
<1>5. CASE ScanInit(h) \/ ScanRepair(h)
  <2>1. pc'[h] \in {"image", "imgsync"} /\ cache' = cache
    BY <1>5, PlanEffect DEF ScanInit, ScanRepair, file
  <2>2. media' = cache'
    <3>1. CASE ScanInit(h)
      BY <3>1 DEF ScanInit
    <3>2. CASE ScanRepair(h)
      <4>1. media = cache
        BY <3>2, SyncedBefore DEF ScanRepair, At, Writing, Rest, Unsynced
      <4>. QED  BY <3>2, <4>1 DEF ScanRepair, file
    <3>. QED  BY <1>5, <3>1, <3>2
  <2>. QED  BY <2>1, <2>2 DEF MediaTask
<1>6. CASE ImageStep(h)
  <2>. DEFINE i == NextSlot(h)
  <2>1. /\ pc[h] = "image" /\ pc'[h] \in {"image", "imgsync"} /\ UNCHANGED <<media, req>>
        /\ Store(i, job[h].plan[i])
    BY <1>6, AdvanceEffect DEF ImageStep
  <2>2. i \in job[h].todo /\ i \in Slots /\ cache'[i] = job[h].plan[i]
        /\ \A j \in Slots \ {i} : cache'[j] = cache[j]
    BY <2>1, WriteTypes, OneSlotWritten
  <2>3. req[h].kind \in {"init", "repair"}
    BY <2>1 DEF KindTask, Rest
  <2>4. ~LiveRec(cache[i])
    BY <2>1, <2>2, <2>3 DEF KeyInv, Task, ImageTask
  <2>5. ~LiveRec(cache'[i])
    BY <1>1, <2>1, <2>2, <2>3 DEF Course, At, BlankImage, EmptyRec, LiveRec
  <2>6. \A j \in Slots : media[j] = cache[j] \/ (~LiveRec(media[j]) /\ ~LiveRec(cache[j]))
    BY <2>1 DEF MediaTask
  <2>. HIDE DEF i
  <2>. QED  BY <2>1, <2>2, <2>4, <2>5, <2>6 DEF MediaTask, LiveRec
<1>7. ~ScanCompact(h)
  BY DEF ScanCompact, At, KindTask, Rest
<1>. QED  BY <1>2, <1>3, <1>4, <1>5, <1>6, <1>7, UnsyncedEntry

LEMMA SyncInvStep ==
  ASSUME OneHandlePerProcess, SyncInv, "compact" \notin Kinds, [Next]_vars
  PROVE  SyncInv'
<1>. TypeInv /\ KeyInv /\ KindInv /\ NoKills /\ NoFaults /\ FileSynced
  BY DEF SyncInv, KeyInv, MediaInv
<1>1. /\ KeyInv' /\ KindInv' /\ BudgetInv' /\ CourseInv' /\ FileSynced'
      /\ NoKills' /\ NoFaults' /\ NoErrorYet'
  BY KeyStep, KindInvStep, NothingYet, CourseInvStep, BudgetOnlyFalls, FileSyncedStep
     DEF SyncInv, NoKills, NoFaults, NoErrorYet, Resources
<1>. SUFFICES ASSUME NEW g \in Handles PROVE MediaTask(g)'
  BY <1>1 DEF SyncInv, MediaInv
<1>2. MediaTask(g) /\ KindTask(g)
  BY DEF SyncInv, MediaInv, KindInv
<1>3. ASSUME NEW h \in Handles, Client(h) \/ Run(h) PROVE MediaTask(g)'
  <2>1. CASE g = h
    BY <1>3, <2>1, OwnMedia
  <2>2. CASE g # h /\ pc[g] \in Unsynced
    BY <1>2, <1>3, <2>2, UnsyncedWrites, Quiet, MediaKept
  <2>3. CASE g # h /\ pc[g] \notin Unsynced
    BY <1>3, <2>3, StepOthers, MediaIdle DEF SameCall
  <2>. QED  BY <2>1, <2>2, <2>3
<1>4. CASE PowerCut
  BY <1>4, MediaIdle DEF PowerCut, Gone, Unsynced
<1>5. CASE Time \/ UNCHANGED vars
  BY <1>2, <1>5, MediaKept DEF Time, vars, file, SameCall
<1>. QED  BY <1>3, <1>4, <1>5, NoKill, NothingFails DEF Next

LEMMA SyncInvInit ==
  ASSUME Budget["kill"] = 0, Budget["fault"] = 0, Init
  PROVE  SyncInv
<1>1. Budget \in [Resources -> Nat]
  BY RobustCfgAssumption
<1>2. BudgetInv
  BY <1>1 DEF Init, BudgetInv
<1>3. CourseInv /\ MediaInv
  BY DEF Init, CourseInv, Course, At, MediaInv, MediaTask, FileSynced
<1>. QED  BY <1>2, <1>3, KeyInit, KindInit DEF SyncInv, NoKills, NoFaults, NoErrorYet, Init

\* What a sync does to a key that is on the media.
LEMMA SyncKeepsKeys ==
  ASSUME OneHandlePerProcess, SyncInv, "compact" \notin Kinds, NEW h \in Handles, Client(h) \/ Run(h),
         NEW k, Live(media, k), ~Live(media', k)
  PROVE  Deleting(h, k) \/ InPlace(h, k)
<1>. TypeInv /\ KeyInv /\ KindInv /\ KindTask(h) /\ FileSynced /\ MediaTask(h)
  BY DEF SyncInv, KeyInv, MediaInv, KindInv
<1>1. PICK j \in Slots : LiveRec(media[j]) /\ media[j].key = k
  BY CopiesInSlots DEF Live
<1>2. \A i \in Slots : ~(LiveRec(media'[i]) /\ media'[i].key = k)
  BY CopiesInSlots DEF Live
<1>3. media' = cache /\ pc[h] \in Unsynced
  <2>1. media' # media
    BY <1>1, <1>2
  <2>2. ScanInit(h) \/ PutSync(h) \/ MarkSync(h) \/ ImageSync(h) \/ Header(h)
    BY <2>1 DEF Client, Open, Close, Call, Run, Lock, LockTimeout, Scan, ScanOpen, ScanWrite,
         ScanDelete, ScanRepair, ScanCompact, ScanRead, Reread, Put, Mark, ImageStep, file
  <2>3. media' = cache
    BY <2>1, <2>2 DEF ScanInit, PutSync, MarkSync, ImageSync, Header, Sync
  <2>4. ScanInit(h) \/ Header(h) => Writing(h) /\ pc[h] \notin Unsynced
    BY DEF ScanInit, Header, At, KindTask, Writing, Unsynced, Rest
  <2>5. ~ScanInit(h) /\ ~Header(h)
    BY <2>1, <2>3, <2>4, SyncedBefore
  <2>. QED  BY <2>2, <2>3, <2>5 DEF PutSync, MarkSync, ImageSync, Unsynced
<1>4. media[j] # cache[j]
  BY <1>1, <1>2, <1>3
<1>5. CASE pc[h] = "putsync"
  BY <1>1, <1>4, <1>5 DEF MediaTask, InPlace
<1>6. CASE pc[h] = "marksync"
  <2>1. req[h].kind # "open" /\ req[h].key = k
    BY <1>1, <1>4, <1>6 DEF MediaTask
  <2>2. req[h].kind # "write"
    BY <1>2, <1>3, <1>6, <2>1 DEF KeyInv, Task, MarkTask, Holds
  <2>. QED  BY <1>6, <2>1, <2>2 DEF KindTask, Deleting
<1>7. CASE pc[h] \in {"image", "imgsync"}
  BY <1>1, <1>4, <1>7 DEF MediaTask
<1>. QED  BY <1>3, <1>5, <1>6, <1>7 DEF Unsynced

\* What a power cut does to one.
LEMMA CutKeepsKeys ==
  ASSUME SyncInv, PowerCut, NEW k, Live(media, k), ~Live(media', k)
  PROVE  \E h \in Handles : Deleting(h, k) \/ InPlace(h, k)
<1>. TypeInv /\ KeyInv /\ KindInv /\ FileSynced
  BY DEF SyncInv, KeyInv, MediaInv
<1>1. PICK j \in Slots : LiveRec(media[j]) /\ media[j].key = k
  BY CopiesInSlots DEF Live
<1>2. \A i \in Slots : ~(LiveRec(media'[i]) /\ media'[i].key = k)
  BY CopiesInSlots DEF Live
<1>3. \A i \in Slots : media[i] = cache[i] => media'[i] = media[i]
  BY CutLeaves DEF Survivors
<1>4. media[j] # cache[j]
  BY <1>1, <1>2, <1>3
<1>5. PICK h \in Handles : pc[h] \in Unsynced
  BY <1>4 DEF FileSynced
<1>6. MediaTask(h) /\ KindTask(h) /\ Task(h)
  BY DEF SyncInv, KeyInv, MediaInv, KindInv
<1>7. CASE pc[h] = "putsync"
  BY <1>1, <1>4, <1>6, <1>7 DEF MediaTask, InPlace
<1>8. CASE pc[h] = "marksync"
  <2>1. req[h].kind # "open" /\ req[h].key = k /\ j = NextSlot(h)
    BY <1>1, <1>4, <1>6, <1>8 DEF MediaTask
  <2>2. req[h].kind # "write"
    <3>. SUFFICES ASSUME req[h].kind = "write" PROVE FALSE
      OBVIOUS
    <3>1. PICK m, n \in Slots : m # n /\ job[h].todo = {m} /\ Holds(n, k)
      BY <1>6, <1>8, <2>1 DEF Task, MarkTask
    <3>2. NextSlot(h) = m
      BY <1>8, <3>1, WriteTypes
    <3>3. media[n] = cache[n]
      BY <1>6, <1>8, <3>1, <3>2 DEF MediaTask
    <3>. QED  BY <1>2, <1>3, <3>1, <3>3 DEF Holds
  <2>. QED  BY <1>6, <1>8, <2>1, <2>2 DEF KindTask, Deleting
<1>9. CASE pc[h] \in {"image", "imgsync"}
  BY <1>1, <1>4, <1>6, <1>9 DEF MediaTask
<1>. QED  BY <1>5, <1>7, <1>8, <1>9 DEF Unsynced

\* A key that is on the media stays there at every step and every power cut, until a
\* delete of it marks its slots or, the file being full, a write of it goes in place
\* (robust_cfg.h:9, robust_cfg.c:524).  Killed processes, I/O errors and compact are
\* left out: the runs show what they do to the media.
THEOREM MediaKeepKeys ==
  ASSUME OneHandlePerProcess, "compact" \notin Kinds, Budget["kill"] = 0, Budget["fault"] = 0
  PROVE  Spec => SyncedKeysSurvive
<1>1. Init => SyncInv
  BY SyncInvInit
<1>2. SyncInv /\ [Next]_vars => SyncInv'
  BY SyncInvStep
<1>3. SyncInv /\ [Next]_vars =>
        [\A k \in Keys : Live(media, k) =>
           Live(media', k) \/ \E h \in Handles : Deleting(h, k) \/ InPlace(h, k)]_media
  <2>. SUFFICES ASSUME SyncInv, [Next]_vars, media' # media, NEW k \in Keys,
                       Live(media, k), ~Live(media', k)
                PROVE  \E h \in Handles : Deleting(h, k) \/ InPlace(h, k)
    OBVIOUS
  <2>1. ASSUME NEW h \in Handles, Client(h) \/ Run(h)
        PROVE  Deleting(h, k) \/ InPlace(h, k)
    BY <2>1, SyncKeepsKeys
  <2>2. \A h \in Handles : ~Fail(h)
    BY NothingFails DEF SyncInv, KeyInv
  <2>3. ~Time /\ ~UNCHANGED vars
    BY DEF Time, vars, file
  <2>. QED  BY <2>1, <2>2, <2>3, CutKeepsKeys, NoKill DEF Next, SyncInv, KeyInv
<1>. QED  BY <1>1, <1>2, <1>3, PTL DEF Spec, SyncedKeysSurvive

-----------------------------------------------------------------------------
(***************************************************************************)
(* The count.  As long as nothing was cut short, each call knows by how    *)
(* much the header is off while it is under way.                           *)
(***************************************************************************)
CountTask(h) ==
  Writing(h) =>
    /\ pc[h] = "scan" /\ hdr.st = "ok" => hdr.cnt = LiveCount
    /\ pc[h] = "put" => hdr.cnt = LiveCount
    /\ pc[h] = "putsync" => LiveCount = hdr.cnt + (IF job[h].old \in job[h].todo THEN 0 ELSE 1)
    /\ At(h, "mark", {"write"})     => LiveCount = hdr.cnt + 1
    /\ At(h, "marksync", {"write"}) => LiveCount = hdr.cnt
    /\ At(h, "hdr", {"write"})      => LiveCount = hdr.cnt + (IF job[h].old = NoSlot THEN 1 ELSE 0)
    /\ At(h, "mark", {"delete"})    => LiveCount + job[h].cnt = hdr.cnt
    /\ At(h, "marksync", {"delete"}) => LiveCount + job[h].cnt + 1 = hdr.cnt
    /\ At(h, "hdr", {"delete"})     => LiveCount + job[h].cnt = hdr.cnt
    /\ pc[h] # "scan" =>
         /\ req[h].kind = "init" => LiveCount = hdr.cnt
         /\ req[h].kind \in {"open", "repair"} => LiveCount = job[h].cnt
         /\ req[h].kind = "compact" =>
              IF pc[h] = "image"
              THEN \E o \in Image : Compacted(h, o) /\ job[h].cnt = Cardinality(LiveSlots(o))
              ELSE LiveCount = job[h].cnt

CountInv == NoCrashYet => CountExact /\ \A h \in Handles : CountTask(h)

\* A record that becomes live, or is no longer live, changes the count by one.
LEMMA CountChange ==
  ASSUME NEW img, NEW new, NEW i \in Slots,
         \A j \in Slots \ {i} : LiveRec(new[j]) <=> LiveRec(img[j])
  PROVE  LET n == Cardinality(LiveSlots(img))
             m == Cardinality(LiveSlots(new))
         IN /\ n \in Nat /\ m \in Nat
            /\ (LiveRec(new[i]) <=> LiveRec(img[i])) => m = n
            /\ LiveRec(new[i]) /\ ~LiveRec(img[i]) => m = n + 1
            /\ ~LiveRec(new[i]) /\ LiveRec(img[i]) => n = m + 1
<1>1. /\ IsFiniteSet(LiveSlots(img)) /\ Cardinality(LiveSlots(img)) \in Nat
      /\ IsFiniteSet(LiveSlots(new)) /\ Cardinality(LiveSlots(new)) \in Nat
  BY SlotsFinite DEF LiveSlots
<1>2. (LiveRec(new[i]) <=> LiveRec(img[i])) => LiveSlots(new) = LiveSlots(img)
  BY DEF LiveSlots
<1>3. ASSUME LiveRec(new[i]), ~LiveRec(img[i])
      PROVE  Cardinality(LiveSlots(new)) = Cardinality(LiveSlots(img)) + 1
  <2>1. LiveSlots(new) = LiveSlots(img) \cup {i} /\ i \notin LiveSlots(img)
    BY <1>3 DEF LiveSlots
  <2>. QED  BY <1>1, <2>1, FS_AddElement
<1>4. ASSUME ~LiveRec(new[i]), LiveRec(img[i])
      PROVE  Cardinality(LiveSlots(img)) = Cardinality(LiveSlots(new)) + 1
  <2>1. LiveSlots(img) = LiveSlots(new) \cup {i} /\ i \notin LiveSlots(new)
    BY <1>4 DEF LiveSlots
  <2>. QED  BY <1>1, <2>1, FS_AddElement
<1>. QED  BY <1>1, <1>2, <1>3, <1>4

\* Where compact puts each live record.
LEMMA CompactPlaces ==
  ASSUME NEW img
  PROVE  /\ \A s \in LiveSlots(img) : /\ Rank(img, s) \in Slots /\ Rank(img, s) <= s
                                      /\ CompactImage(img)[Rank(img, s)] = img[s]
         /\ \A s, t \in LiveSlots(img) : Rank(img, s) = Rank(img, t) => s = t
         /\ \A i \in Slots : \/ CompactImage(img)[i] = EmptyRec
                             \/ \E s \in LiveSlots(img) : Rank(img, s) = i
<1>1. LiveSlots(img) \subseteq Nat /\ LiveSlots(img) \subseteq Slots
  BY FormatAssumption DEF LiveSlots, Slots
<1>2. \A s \in LiveSlots(img) : Rank(img, s) \in Slots /\ Rank(img, s) <= s
  BY <1>1, RankBounds, FormatAssumption DEF Slots
<1>3. ASSUME NEW s \in LiveSlots(img), NEW t \in LiveSlots(img), Rank(img, s) = Rank(img, t), s # t
      PROVE  FALSE
  <2>1. s < t \/ t < s
    BY <1>1, <1>3
  <2>2. Rank(img, s) \in Nat /\ Rank(img, t) \in Nat
    BY RankBounds
  <2>. QED  BY <1>3, <2>1, <2>2, RankStrict
<1>4. ASSUME NEW s \in LiveSlots(img) PROVE CompactImage(img)[Rank(img, s)] = img[s]
  BY <1>2, <1>3 DEF CompactImage
<1>5. \A i \in Slots : CompactImage(img)[i] = EmptyRec \/ \E s \in LiveSlots(img) : Rank(img, s) = i
  BY DEF CompactImage
<1>. QED  BY <1>2, <1>3, <1>4, <1>5

\* compact keeps the number of live records.
LEMMA CompactCount ==
  ASSUME NEW img
  PROVE  Cardinality(LiveSlots(CompactImage(img))) = Cardinality(LiveSlots(img))
<1>. DEFINE S == LiveSlots(img)
            T == LiveSlots(CompactImage(img))
            f == [s \in S |-> Rank(img, s)]
<1>1. IsFiniteSet(S)
  BY SlotsFinite DEF LiveSlots
<1>2. ASSUME NEW s \in S PROVE f[s] \in T
  BY CompactPlaces DEF LiveSlots
<1>3. ASSUME NEW s \in S, NEW t \in S, f[s] = f[t] PROVE s = t
  BY <1>3, CompactPlaces
<1>4. ASSUME NEW i \in T PROVE \E s \in S : f[s] = i
  <2>1. i \in Slots /\ CompactImage(img)[i] # EmptyRec
    BY DEF LiveSlots, LiveRec, EmptyRec
  <2>. QED  BY <2>1, CompactPlaces
<1>. HIDE DEF S, T
<1>5. f \in Injection(S, T) /\ f \in Surjection(S, T)
  BY <1>2, <1>3, <1>4 DEF Injection, Surjection, IsInjective
<1>6. Cardinality(T) = Cardinality(S)
  BY <1>1, <1>5, FS_Surjection
<1>. QED  BY <1>6 DEF S, T

\* A step of compact writes the next slot of its image.
LEMMA CompactedStep ==
  ASSUME TypeInv, NEW h \in Handles, ImageStep(h), NEW o \in Image, Compacted(h, o)
  PROVE  Compacted(h, o)'
<1>. DEFINE i == NextSlot(h)
<1>1. pc[h] = "image" /\ Store(i, job[h].plan[i])
  BY DEF ImageStep
<1>2. i \in job[h].todo /\ i \in Slots /\ cache \in Image /\ job[h].todo \in SUBSET Slots
  BY <1>1, WriteTypes DEF Job
<1>3. job'[h].todo = job[h].todo \ {i} /\ job'[h].plan = job[h].plan
  BY AdvanceEffect DEF ImageStep
<1>4. cache'[i] = job[h].plan[i] /\ \A j \in Slots \ {i} : cache'[j] = cache[j]
  BY <1>1, <1>2, OneSlotWritten
<1>. HIDE DEF i
<1>5. \A j \in job'[h].todo : cache'[j] = o[j]
  BY <1>2, <1>3, <1>4 DEF Compacted
<1>6. \A j \in Slots \ job'[h].todo : cache'[j] = job'[h].plan[j]
  BY <1>2, <1>3, <1>4 DEF Compacted
<1>. QED  BY <1>3, <1>5, <1>6 DEF Compacted

\* The calls the count does not follow.
LEMMA CountIdle ==
  ASSUME NEW g, pc'[g] \in Rest \cup {"lock"} \/ req'[g].kind = "read"
  PROVE  CountTask(g)'
BY DEF CountTask, Writing

LEMMA CountKept ==
  ASSUME NEW g, CountTask(g), SameCall(g), UNCHANGED cache,
         hdr'.cnt = hdr.cnt, hdr'.st = "ok" => hdr.st = "ok"
  PROVE  CountTask(g)'
<1>1. LiveCount' = LiveCount
  BY DEF LiveCount, LiveSlots
<1>2. \A o : Compacted(g, o) => Compacted(g, o)'
  BY DEF Compacted, SameCall
<1>. QED  BY <1>1, <1>2 DEF CountTask, SameCall, Writing, At

LEMMA CountTypes ==
  ASSUME TypeInv
  PROVE  LiveCount \in Nat /\ hdr.cnt \in Nat /\ \A h \in Handles : job[h].cnt \in Nat
<1>1. LiveSlots(cache) \in SUBSET Slots
  BY DEF LiveSlots
<1>2. LiveCount \in Nat
  BY <1>1, SlotsFinite DEF LiveCount
<1>. QED  BY <1>2 DEF TypeInv, FileTypeOK, CallInv, CallTypeOK, Job

\* A blank file counts none.
LEMMA BlankCount == ASSUME Blank PROVE LiveCount = 0
<1>1. LiveSlots(cache) = {}
  BY DEF Blank, LiveSlots
<1>. QED  BY <1>1, FS_EmptySet DEF LiveCount

LEMMA PlanCount ==
  ASSUME TypeInv, NEW h \in Handles, NEW l, NEW S, NEW img, NEW o, NEW n, Plan(h, l, S, img, o, n)
  PROVE  job'[h].cnt = n
BY CallFacts DEF Plan, Job

LEMMA ScanCount ==
  ASSUME KeyInv, NEW h \in Handles, KindTask(h), CountTask(h), Scan(h)
  PROVE  CountTask(h)'
<1>. TypeInv /\ HeaderInv
  BY DEF KeyInv
<1>1. pc[h] = "scan" /\ cache' = cache
  BY DEF Scan, ScanInit, ScanOpen, ScanWrite, ScanDelete, ScanRepair, ScanCompact, ScanRead, At, file
<1>2. LiveCount' = LiveCount /\ LiveCount \in Nat /\ hdr.cnt \in Nat
  BY <1>1, CountTypes DEF LiveCount, LiveSlots
<1>3. req[h].kind \notin {"init", "open", "read"} => hdr.cnt = LiveCount
  BY <1>1, HeaderThere DEF CountTask, Writing, Starting, Rest
<1>4. CASE pc'[h] \in Rest
  BY <1>4, CountIdle
<1>5. CASE ScanInit(h)
  <2>1. pc'[h] = "image" /\ req' = req /\ hdr'.cnt = 0 /\ req[h].kind = "init"
    BY <1>5, PlanEffect DEF ScanInit, At
  <2>2. LiveCount = 0
    BY <1>1, <2>1, BlankCount DEF HeaderInv, Creating
  <2>. QED  BY <1>2, <2>1, <2>2 DEF CountTask, At
<1>6. CASE (ScanOpen(h) \/ ScanRepair(h)) /\ pc'[h] \notin Rest
  <2>1. \E l \in {"hdr", "mark", "image", "imgsync"} : \E S : Plan(h, l, S, BlankImage, NoSlot, LiveCount)
    BY <1>6, ReturnIdle DEF ScanOpen, ScanRepair
  <2>2. pc'[h] \in {"hdr", "mark", "image", "imgsync"} /\ req' = req /\ job'[h].cnt = LiveCount
        /\ req[h].kind \in {"open", "repair"}
    BY <1>6, <2>1, PlanEffect, PlanCount DEF ScanOpen, ScanRepair, At
  <2>. QED  BY <1>2, <2>2 DEF CountTask, At
<1>7. CASE ScanWrite(h) /\ pc'[h] \notin Rest
  <2>1. pc'[h] = "put" /\ req' = req /\ hdr' = hdr /\ req[h].kind = "write"
    BY <1>7, ScanWritePlans DEF ScanWrite, At, file
  <2>. QED  BY <1>2, <1>3, <2>1 DEF CountTask, At
<1>8. CASE ScanDelete(h) /\ pc'[h] \notin Rest
  <2>1. pc'[h] = "mark" /\ req' = req /\ hdr' = hdr /\ req[h].kind = "delete" /\ job'[h].cnt = 0
    BY <1>8, ScanDeletePlans DEF ScanDelete, At, file
  <2>. QED  BY <1>2, <1>3, <2>1 DEF CountTask, At
<1>9. CASE ScanCompact(h)
  <2>1. Plan(h, "image", Slots, CompactImage(cache), NoSlot, LiveCount) /\ req[h].kind = "compact"
    BY <1>9 DEF ScanCompact, At
  <2>2. /\ pc'[h] = "image" /\ req' = req /\ job'[h].cnt = LiveCount
        /\ job'[h].todo = Slots /\ job'[h].plan = CompactImage(cache)
    BY <2>1, PlanEffect, PlanCount
  <2>3. cache \in Image /\ Compacted(h, cache)'
    BY <1>1, <2>2 DEF Compacted, TypeInv, FileTypeOK
  <2>4. \E o \in Image : Compacted(h, o)' /\ job'[h].cnt = Cardinality(LiveSlots(o))
    BY <1>1, <2>2, <2>3 DEF LiveCount, Compacted
  <2>. QED  BY <1>2, <2>1, <2>2, <2>4 DEF CountTask, At
<1>10. CASE ScanRead(h)
  <2>1. req[h].kind = "read" /\ (req' = req \/ pc'[h] \in Rest)
    BY <1>10, PlanEffect, ReturnIdle DEF ScanRead, At
  <2>. QED  BY <1>4, <2>1, CountIdle
<1>. QED  BY <1>4, <1>5, <1>6, <1>7, <1>8, <1>9, <1>10 DEF Scan

\* The slot of the new record holds a live one exactly if the write is in place.
LEMMA PutTarget ==
  ASSUME TypeInv, NEW h \in Handles, Course(h), Put(h)
  PROVE  \E t \in Slots :
           /\ pc[h] = "put" /\ pc'[h] = "putsync" /\ UNCHANGED <<media, hdr, req, job, view, ret, clock>>
           /\ job[h].todo = {t} /\ NextSlot(h) = t
           /\ job[h].plan[t] = NewRec(req[h].key, req[h].val, job[h].plan[t].ts)
           /\ t = Target(req[h].key) /\ job[h].old = LastCopy(cache, req[h].key)
           /\ cache'[t] = job[h].plan[t] /\ \A j \in Slots \ {t} : cache'[j] = cache[j]
           /\ LiveRec(cache[t]) <=> job[h].old = t
           /\ job[h].old # t => cache[t].state = "EMPTY" /\ t = FirstEmpty(cache)
<1>1. /\ pc[h] = "put" /\ pc'[h] = "putsync"
      /\ UNCHANGED <<media, hdr, req, job, view, ret, clock>>
      /\ Store(NextSlot(h), job[h].plan[NextSlot(h)])
  BY DEF Put, Goto, TypeInv, CallInv, CallTypeOK
<1>2. PICK t \in Slots : /\ job[h].todo = {t} /\ t = Target(req[h].key)
                         /\ job[h].plan[t] = NewRec(req[h].key, req[h].val, job[h].plan[t].ts)
                         /\ job[h].old = LastCopy(cache, req[h].key)
  BY <1>1 DEF Course, PutCourse
<1>3. NextSlot(h) = t /\ cache \in Image
  BY <1>1, <1>2, WriteTypes
<1>4. cache'[t] = job[h].plan[t] /\ \A j \in Slots \ {t} : cache'[j] = cache[j]
  BY <1>1, <1>3, OneSlotWritten
<1>5. CASE FirstEmpty(cache) # NoSlot
  <2>1. t = FirstEmpty(cache) /\ cache[t].state = "EMPTY"
    BY <1>2, <1>3, <1>5, ScanResults DEF Target
  <2>2. job[h].old # t
    BY <1>2, <1>3, <2>1, ScanResults, NoSlotIsNone, CopiesInSlots DEF LiveRec
  <2>. QED  BY <1>1, <1>2, <1>3, <1>4, <2>1, <2>2 DEF LiveRec
<1>6. CASE FirstEmpty(cache) = NoSlot
  <2>1. t = job[h].old
    BY <1>2, <1>6 DEF Target
  <2>2. LiveRec(cache[t])
    BY <1>2, <1>3, <2>1, ScanResults, NoSlotIsNone, CopiesInSlots
  <2>. QED  BY <1>1, <1>2, <1>3, <1>4, <2>1, <2>2
<1>. QED  BY <1>5, <1>6

LEMMA PutCount ==
  ASSUME TypeInv, NEW h \in Handles, KindTask(h), Course(h), CountTask(h), Put(h)
  PROVE  CountTask(h)'
<1>1. PICK t \in Slots :
           /\ pc[h] = "put" /\ pc'[h] = "putsync" /\ UNCHANGED <<media, hdr, req, job, view, ret, clock>>
           /\ job[h].todo = {t}
           /\ job[h].plan[t] = NewRec(req[h].key, req[h].val, job[h].plan[t].ts)
           /\ cache'[t] = job[h].plan[t] /\ \A j \in Slots \ {t} : cache'[j] = cache[j]
           /\ LiveRec(cache[t]) <=> job[h].old = t
  BY PutTarget
<1>2. req[h].kind = "write"
  BY <1>1 DEF KindTask
<1>3. hdr.cnt = LiveCount /\ LiveCount \in Nat
  BY <1>1, <1>2, CountTypes DEF CountTask, Writing, Rest
<1>4. LiveRec(cache'[t])
  BY <1>1 DEF NewRec, LiveRec
<1>5. LiveCount' = LiveCount + (IF job[h].old = t THEN 0 ELSE 1)
  BY <1>1, <1>3, <1>4, CountChange DEF LiveCount
<1>. QED  BY <1>1, <1>2, <1>3, <1>5 DEF CountTask, At

LEMMA PutSyncCount ==
  ASSUME TypeInv, NEW h \in Handles, KindTask(h), Course(h), CountTask(h), PutSync(h)
  PROVE  CountTask(h)'
<1>1. PICK t \in Slots :
           /\ job[h].todo = {t} /\ pc[h] = "putsync"
           /\ cache' = cache /\ hdr' = hdr /\ req' = req
           /\ job'[h].old = job[h].old
           /\ pc'[h] = IF {job[h].old} \ {NoSlot, t} = {} THEN "hdr" ELSE "mark"
  BY PutSyncMoves
<1>2. req[h].kind = "write"
  BY <1>1 DEF KindTask
<1>3. LiveCount = hdr.cnt + (IF job[h].old = t THEN 0 ELSE 1) /\ LiveCount \in Nat /\ hdr.cnt \in Nat
  BY <1>1, <1>2, CountTypes DEF CountTask, Writing, Rest
<1>4. LiveCount' = LiveCount
  BY <1>1 DEF LiveCount, LiveSlots
<1>. QED  BY <1>1, <1>2, <1>3, <1>4, NoSlotIsNone DEF CountTask, At

LEMMA MarkCount ==
  ASSUME KeyInv, NEW h \in Handles, KindTask(h), Course(h), CountTask(h), Mark(h)
  PROVE  CountTask(h)'
<1>. DEFINE i == NextSlot(h)
<1>. TypeInv /\ Task(h)
  BY DEF KeyInv
<1>1. /\ pc[h] = "mark" /\ pc'[h] = "marksync" /\ UNCHANGED <<hdr, req, job>>
      /\ i \in job[h].todo /\ i \in Slots /\ ~LiveRec(cache'[i])
      /\ \A j \in Slots \ {i} : cache'[j] = cache[j]
  BY MarkEffect
<1>2. MarkCourse(h) /\ MarkTask(h) /\ req[h].kind \in {"write", "delete", "open"}
  BY <1>1 DEF Course, Task, KindTask
<1>. HIDE DEF i
<1>3. LiveRec(cache[i]) <=> req[h].kind # "open"
  BY <1>1, <1>2, CopiesInSlots DEF MarkCourse, MarkTask
<1>4. /\ LiveCount \in Nat /\ LiveCount' \in Nat /\ hdr.cnt \in Nat /\ job[h].cnt \in Nat
      /\ req[h].kind = "open" => LiveCount' = LiveCount
      /\ req[h].kind # "open" => LiveCount = LiveCount' + 1
  BY <1>1, <1>3, CountChange, CountTypes DEF LiveCount
<1>5. /\ req[h].kind = "write"  => LiveCount = hdr.cnt + 1
      /\ req[h].kind = "delete" => LiveCount + job[h].cnt = hdr.cnt
      /\ req[h].kind = "open"   => LiveCount = job[h].cnt
  BY <1>1, <1>2 DEF CountTask, Writing, At, Rest
<1>6. CASE req[h].kind = "write"
  <2>1. LiveCount' = hdr.cnt
    BY <1>4, <1>5, <1>6
  <2>. QED  BY <1>1, <1>6, <2>1 DEF CountTask, At
<1>7. CASE req[h].kind = "delete"
  <2>1. LiveCount' + job[h].cnt + 1 = hdr.cnt
    BY <1>4, <1>5, <1>7
  <2>. QED  BY <1>1, <1>7, <2>1 DEF CountTask, At
<1>8. CASE req[h].kind = "open"
  <2>1. LiveCount' = job[h].cnt
    BY <1>4, <1>5, <1>8
  <2>. QED  BY <1>1, <1>8, <2>1 DEF CountTask, At
<1>. QED  BY <1>2, <1>6, <1>7, <1>8

LEMMA MarkSyncCount ==
  ASSUME KeyInv, NEW h \in Handles, KindTask(h), Course(h), CountTask(h), MarkSync(h)
  PROVE  CountTask(h)'
<1>. TypeInv /\ Task(h)
  BY DEF KeyInv
<1>1. /\ pc[h] = "marksync" /\ pc'[h] = AfterMark(h) /\ cache' = cache /\ hdr' = hdr /\ req' = req
      /\ NextSlot(h) \in job[h].todo /\ job'[h].old = job[h].old
      /\ job'[h].cnt = job[h].cnt + (IF req[h].kind = "delete" THEN 1 ELSE 0)
  BY MarkSyncEffect
<1>2. MarkCourse(h) /\ MarkTask(h) /\ req[h].kind \in {"write", "delete", "open"}
  BY <1>1 DEF Course, Task, KindTask
<1>3. req[h].kind = "write" => pc'[h] = "hdr" /\ job[h].old # NoSlot
  BY <1>1, <1>2 DEF MarkTask, MarkCourse, AfterMark
<1>4. LiveCount' = LiveCount /\ LiveCount \in Nat /\ hdr.cnt \in Nat /\ job[h].cnt \in Nat
  BY <1>1, CountTypes DEF LiveCount, LiveSlots
<1>5. pc'[h] \in {"hdr", "mark"}
  BY <1>1 DEF AfterMark
<1>. QED  BY <1>1, <1>2, <1>3, <1>4, <1>5 DEF CountTask, Writing, At, Rest

\* What repair and init write over holds nothing live.
LEMMA ImageCount ==
  ASSUME KeyInv, NEW h \in Handles, KindTask(h), Course(h), CountTask(h), ImageStep(h)
  PROVE  CountTask(h)'
<1>. DEFINE i == NextSlot(h)
<1>. TypeInv /\ Task(h)
  BY DEF KeyInv
<1>1. /\ pc[h] = "image" /\ pc'[h] = IF job[h].todo = {i} THEN "imgsync" ELSE "image"
      /\ UNCHANGED <<hdr, req>> /\ job'[h].todo = job[h].todo \ {i}
      /\ Store(i, job[h].plan[i])
  BY AdvanceEffect DEF ImageStep
<1>2. i \in job[h].todo /\ i \in Slots /\ cache'[i] = job[h].plan[i]
      /\ \A j \in Slots \ {i} : cache'[j] = cache[j]
  BY <1>1, WriteTypes, OneSlotWritten
<1>3. job'[h].cnt = job[h].cnt
  BY CallFacts, CountTypes DEF ImageStep, Advance, Job
<1>4. ImageTask(h) /\ req[h].kind \in {"init", "repair", "compact"}
  BY <1>1 DEF Task, KindTask
<1>5. LiveCount' \in Nat /\ LiveCount \in Nat
  BY <1>2, CountChange DEF LiveCount
<1>. HIDE DEF i
<1>6. CASE req[h].kind # "compact"
  <2>1. ~LiveRec(cache[i])
    BY <1>2, <1>4, <1>6 DEF ImageTask
  <2>2. ~LiveRec(cache'[i])
    BY <1>1, <1>2, <1>4, <1>6 DEF Course, At, BlankImage, EmptyRec, LiveRec
  <2>3. LiveCount' = LiveCount
    BY <1>2, <2>1, <2>2, CountChange DEF LiveCount
  <2>4. /\ req[h].kind = "init"   => LiveCount = hdr.cnt
        /\ req[h].kind = "repair" => LiveCount = job[h].cnt
    BY <1>1, <1>4 DEF CountTask, Writing, Rest
  <2>. QED  BY <1>1, <1>3, <1>4, <1>6, <2>3, <2>4 DEF CountTask, At
<1>7. CASE req[h].kind = "compact"
  <2>1. PICK o \in Image : Compacted(h, o) /\ job[h].cnt = Cardinality(LiveSlots(o))
    BY <1>1, <1>7 DEF CountTask, Writing, Rest
  <2>2. Compacted(h, o)'
    BY <2>1, CompactedStep
  <2>3. CASE job[h].todo = {i}
    <3>1. \A j \in Slots : cache'[j] = CompactImage(o)[j]
      BY <1>1, <2>2, <2>3 DEF Compacted
    <3>2. LiveSlots(cache') = LiveSlots(CompactImage(o))
      BY <3>1 DEF LiveSlots
    <3>3. LiveCount' = job'[h].cnt
      BY <1>3, <2>1, <3>2, CompactCount DEF LiveCount
    <3>. QED  BY <1>1, <1>7, <2>3, <3>3 DEF CountTask, At
  <2>4. CASE job[h].todo # {i}
    BY <1>1, <1>3, <1>7, <2>1, <2>2, <2>4 DEF CountTask, At
  <2>. QED  BY <2>3, <2>4
<1>. QED  BY <1>6, <1>7

LEMMA OwnCount ==
  ASSUME KeyInv, NEW h \in Handles, KindTask(h), Course(h), CountTask(h), CountExact, NoCrashYet,
         \A g \in Handles \ {h} : Writing(h)' => ~Writing(g),
         Client(h) \/ Run(h)
  PROVE  CountTask(h)'
<1>. TypeInv
  BY DEF KeyInv
<1>1. CASE Client(h) \/ LockTimeout(h) \/ Reread(h) \/ Header(h)
  <2>1. \A l : Goto(h, l) => pc'[h] = l
    BY LeaveTask, CallFacts DEF Goto
  <2>2. pc'[h] \in Rest \cup {"lock"}
    BY <1>1, <2>1, ReturnIdle DEF Client, Open, Close, Call, LockTimeout, Reread, Header, Rest
  <2>. QED  BY <2>2, CountIdle
<1>2. CASE Lock(h)
  <2>1. pc[h] = "lock" /\ pc'[h] = "scan" /\ req' = req /\ cache' = cache /\ hdr' = hdr
    BY <1>2, CallFacts DEF Lock, Goto, file
  <2>2. LiveCount' = LiveCount
    BY <2>1 DEF LiveCount, LiveSlots
  <2>3. CASE req[h].kind = "read"
    BY <2>1, <2>3, CountIdle
  <2>4. CASE req[h].kind # "read"
    <3>1. \A g \in Handles : ~Writing(g)
      BY <2>1, <2>4 DEF Writing, Rest
    <3>2. hdr.st = "ok" => hdr.cnt = LiveCount
      BY <3>1 DEF CountExact
    <3>. QED  BY <2>1, <2>2, <3>2 DEF CountTask, At
  <2>. QED  BY <2>3, <2>4
<1>3. CASE ImageSync(h)
  <2>1. pc[h] = "imgsync" /\ pc'[h] = "hdr" /\ UNCHANGED <<cache, hdr, req, job>>
    BY <1>3, CallFacts DEF ImageSync, Goto
  <2>2. LiveCount' = LiveCount /\ req[h].kind \in {"init", "repair", "compact"}
    BY <2>1 DEF LiveCount, LiveSlots, KindTask
  <2>. QED  BY <2>1, <2>2 DEF CountTask, Writing, At, Rest
<1>. QED  BY <1>1, <1>2, <1>3, ScanCount, PutCount, PutSyncCount, MarkCount, MarkSyncCount, ImageCount DEF Run

\* A call that holds the write lock goes on, or returns.
LEMMA StaysWriting ==
  ASSUME TypeInv, NEW h \in Handles, KindTask(h), Writing(h), Client(h) \/ Run(h)
  PROVE  pc'[h] \in Rest \/ (Writing(h)' /\ req'[h] = req[h])
<1>. SUFFICES ASSUME pc'[h] \notin Rest PROVE pc'[h] # "lock" /\ req'[h] = req[h]
  BY DEF Writing
<1>1. \A l : Goto(h, l) => pc'[h] = l
  BY LeaveTask, CallFacts DEF Goto
<1>2. ~Client(h) /\ ~Lock(h) /\ ~LockTimeout(h) /\ ~Reread(h)
  BY DEF Writing, Client, Open, Close, Call, Lock, LockTimeout, Reread, KindTask, Rest
<1>3. ~Header(h)
  BY ReturnIdle DEF Header
<1>4. CASE Scan(h)
  <2>1. CASE ScanInit(h) \/ ScanOpen(h) \/ ScanWrite(h) \/ ScanDelete(h)
    BY <1>1, <2>1, ReturnIdle DEF ScanInit, ScanOpen, ScanWrite, ScanDelete, Plan
  <2>2. CASE ScanRepair(h) \/ ScanCompact(h) \/ ScanRead(h)
    BY <1>1, <2>2, ReturnIdle DEF ScanRepair, ScanCompact, ScanRead, Plan
  <2>. QED  BY <1>4, <2>1, <2>2 DEF Scan
<1>5. CASE Put(h) \/ PutSync(h) \/ Mark(h) \/ MarkSync(h) \/ ImageStep(h) \/ ImageSync(h)
  BY <1>1, <1>5, ReturnIdle DEF Put, PutSync, Mark, MarkSync, ImageStep, ImageSync, AfterMark
<1>. QED  BY <1>2, <1>3, <1>4, <1>5 DEF Run

\* When a call that held the write lock returns, the header is right.
LEMMA LeaveCount ==
  ASSUME KeyInv, NEW h \in Handles, KindTask(h), Course(h), CountTask(h),
         Writing(h), pc'[h] \in Rest, Client(h) \/ Run(h)
  PROVE  hdr'.st = "ok" => hdr'.cnt = LiveCount'
<1>. TypeInv /\ HeaderInv
  BY DEF KeyInv
<1>1. \A l : Goto(h, l) => pc'[h] = l
  BY LeaveTask, CallFacts DEF Goto
<1>2. LiveCount \in Nat /\ hdr.cnt \in Nat /\ job[h].cnt \in Nat
  BY CountTypes
<1>3. CASE Scan(h)
  <2>1. pc[h] = "scan" /\ cache' = cache
    BY <1>3 DEF Scan, ScanInit, ScanOpen, ScanWrite, ScanDelete, ScanRepair, ScanCompact, ScanRead, At, file
  <2>2. ~ScanInit(h)
    BY <1>1 DEF ScanInit, Plan, Rest
  <2>3. hdr' = hdr
    BY <1>3, <2>2 DEF Scan, ScanOpen, ScanWrite, ScanDelete, ScanRepair, ScanCompact, ScanRead, file
  <2>. QED  BY <2>1, <2>3 DEF CountTask, LiveCount, LiveSlots
<1>4. CASE Header(h)
  <2>1. pc[h] = "hdr" /\ req[h].kind \in {"write", "delete", "repair", "compact", "init", "open"}
    BY <1>4, RobustCfgAssumption DEF Header, KindTask, Rest
  <2>2. LiveCount' = LiveCount
    BY <1>4 DEF Header, LiveCount, LiveSlots
  <2>3. /\ req[h].kind = "write"  => LiveCount = hdr.cnt + (IF job[h].old = NoSlot THEN 1 ELSE 0)
        /\ req[h].kind = "delete" => LiveCount + job[h].cnt = hdr.cnt
        /\ req[h].kind = "init"   => LiveCount = hdr.cnt
        /\ req[h].kind \in {"open", "repair", "compact"} => LiveCount = job[h].cnt
    BY <2>1 DEF CountTask, At
  <2>4. CASE WritesHeader(h)
    <3>1. hdr'.cnt = NewCount(h)
      BY <1>4, <2>4 DEF Header, TypeInv, FileTypeOK
    <3>2. NewCount(h) = LiveCount
      BY <1>2, <2>1, <2>3, <2>4 DEF NewCount, WritesHeader, CountFits
    <3>. QED  BY <2>2, <3>1, <3>2
  <2>5. CASE ~WritesHeader(h)
    <3>1. hdr' = hdr
      BY <1>4, <2>5 DEF Header
    <3>2. hdr.cnt = LiveCount
      BY <1>2, <2>1, <2>3, <2>5 DEF WritesHeader, CountFits
    <3>. QED  BY <2>2, <3>1, <3>2
  <2>. QED  BY <2>4, <2>5
<1>5. ~Client(h) /\ ~Lock(h) /\ ~LockTimeout(h) /\ ~Reread(h)
  BY DEF Writing, Client, Open, Close, Call, Lock, LockTimeout, Reread, KindTask, Rest
<1>6. ~Put(h) /\ ~Mark(h) /\ ~MarkSync(h) /\ ~ImageStep(h) /\ ~ImageSync(h)
  BY <1>1 DEF Put, Mark, MarkSync, ImageStep, ImageSync, AfterMark, Rest
<1>7. ~PutSync(h)
  BY PutSyncMoves DEF Rest
<1>. QED  BY <1>3, <1>4, <1>5, <1>6, <1>7 DEF Run

\* A call that holds no write lock leaves the count and the header alone.
LEMMA AwayCount ==
  ASSUME KeyInv, NEW h \in Handles, KindTask(h), ~Writing(h), Client(h) \/ Run(h)
  PROVE  cache' = cache /\ (hdr' = hdr \/ hdr'.st # "ok")
<1>. TypeInv
  BY DEF KeyInv
<1>1. CASE ~Inside(h)
  <2>1. hdr' = hdr \/ hdr'.st = "blank"
    BY <1>1, Outside DEF TypeInv, FileTypeOK
  <2>. QED  BY <1>1, <2>1, Outside
<1>2. CASE Inside(h)
  <2>1. req[h].kind = "read"
    BY <1>2 DEF Inside, Writing
  <2>2. ScanRead(h) \/ Reread(h)
    BY <1>2, <2>1 DEF Inside, Client, Open, Close, Call, Run, Lock, LockTimeout, Scan, ScanInit, ScanOpen,
         ScanWrite, ScanDelete, ScanRepair, ScanCompact, Put, PutSync, Mark, MarkSync, ImageStep,
         ImageSync, Header, At, KindTask, Rest
  <2>. QED  BY <2>2 DEF ScanRead, Reread, file
<1>. QED  BY <1>1, <1>2

LEMMA CountInvStep ==
  ASSUME OneHandlePerProcess, KeyInv, KindInv, BudgetInv, CourseInv, CountInv, [Next]_vars
  PROVE  CountInv'
<1>. TypeInv /\ LockInv
  BY DEF KeyInv
<1>. SUFFICES ASSUME NoCrashYet' PROVE CountExact' /\ \A g \in Handles : CountTask(g)'
  BY DEF CountInv
<1>1. /\ NoCrashYet /\ ~PowerCut /\ \A p \in Procs : ~Kill(p)
      /\ \A h \in Handles : ~Fail(h)
  BY NothingYet
<1>2. /\ CountExact
      /\ \A h \in Handles : CountTask(h) /\ KindTask(h) /\ Course(h)
  BY <1>1, NothingYet DEF CountInv, KindInv, CourseInv
<1>3. ASSUME NEW h \in Handles, Client(h) \/ Run(h)
      PROVE  CountExact' /\ \A g \in Handles : CountTask(g)'
  <2>1. \A g \in Handles \ {h} : SameCall(g)
    BY <1>3, StepOthers
  <2>2. \A g \in Handles \ {h} : Writing(g)' = Writing(g)
    BY <2>1 DEF SameCall, Writing
  <2>3. LockInv'
    BY KeyStep DEF KeyInv
  <2>4. \A g \in Handles \ {h} : Writing(h)' => ~Writing(g)
    <3>1. WriterExclusion'
      BY <2>3, ExclusionFromLocks, PTL
    <3>. QED  BY <2>2, <3>1 DEF WriterExclusion
  <2>5. CountTask(h)'
    BY <1>1, <1>2, <1>3, <2>4, OwnCount
  <2>6. ASSUME NEW g \in Handles \ {h} PROVE CountTask(g)'
    <3>1. CASE Writing(g)
      BY <1>2, <1>3, <3>1, Quiet, CountKept
    <3>2. CASE ~Writing(g)
      <4>1. ~Writing(g)'
        BY <2>2, <3>2
      <4>. QED  BY <4>1 DEF CountTask
    <3>. QED  BY <3>1, <3>2
  <2>7. CountExact'
    <3>. SUFFICES ASSUME hdr'.st = "ok", \A g \in Handles : ~Writing(g)'
                  PROVE  hdr'.cnt = LiveCount'
      BY DEF CountExact
    <3>1. CASE Writing(h)
      <4>1. req'[h].kind # "read" => pc'[h] \in Rest \cup {"lock"}
        BY DEF Writing
      <4>2. pc'[h] \in Rest
        BY <1>2, <1>3, <3>1, <4>1, StaysWriting
      <4>. QED  BY <1>2, <1>3, <3>1, <4>2, LeaveCount
    <3>2. CASE ~Writing(h)
      <4>1. cache' = cache /\ hdr' = hdr
        BY <1>2, <1>3, <3>2, AwayCount
      <4>2. \A g \in Handles : ~Writing(g)
        BY <2>2, <3>2
      <4>. QED  BY <1>1, <1>2, <4>1, <4>2 DEF CountExact, LiveCount, LiveSlots
    <3>. QED  BY <3>1, <3>2
  <2>. QED  BY <2>5, <2>6, <2>7
<1>4. CASE Time \/ UNCHANGED vars
  <2>1. UNCHANGED <<cache, hdr, pc, req, job>>
    BY <1>4 DEF Time, vars, file
  <2>2. \A g \in Handles : CountTask(g)'
    BY <1>2, <2>1, CountKept DEF SameCall
  <2>3. CountExact'
    BY <1>1, <1>2, <2>1 DEF CountExact, Writing, LiveCount, LiveSlots
  <2>. QED  BY <2>2, <2>3
<1>. QED  BY <1>1, <1>3, <1>4 DEF Next

\* As long as no call was cut short and no I/O failed, record_count is between
\* calls the number of live records, whatever calls ran, however they waited for
\* each other and whichever opens, repairs and compacts recounted them
\* (robust_cfg.c:357, 537, 640, 699, 755).
THEOREM CountIsExact ==
  ASSUME OneHandlePerProcess
  PROVE  Spec => []CountExact
<1>. DEFINE I == KeyInv /\ KindInv /\ BudgetInv /\ CourseInv /\ CountInv
<1>1. Init => I
  <2>. SUFFICES ASSUME Init PROVE I
    OBVIOUS
  <2>1. KeyInv /\ KindInv
    BY KeyInit, KindInit
  <2>2. BudgetInv /\ CourseInv
    BY RobustCfgAssumption DEF Init, BudgetInv, CourseInv, Course, At
  <2>3. LiveCount = 0
    BY BlankCount DEF Init, Blank, LiveRec, EmptyRec, AbsentRec
  <2>4. CountInv
    BY <2>3 DEF Init, CountInv, CountExact, CountTask, Writing, Rest
  <2>. QED  BY <2>1, <2>2, <2>4
<1>2. I /\ [Next]_vars => I'
  BY KeyStep, KindInvStep, NothingYet, CourseInvStep, CountInvStep DEF KeyInv
<1>3. I => CountExact
  BY DEF CountInv, CountExact
<1>. HIDE DEF I
<1>. QED  BY <1>1, <1>2, <1>3, PTL DEF Spec

-----------------------------------------------------------------------------
(***************************************************************************)
(* The map.  What keeps the greatest timestamp, the highest slot and the   *)
(* last write the same: records fill the slots upwards, so that the copies *)
(* of a key have their timestamps in slot order.                           *)
(***************************************************************************)
Used(r) == r.state \notin {"EMPTY", "ABSENT"}
Packed(img)  == \A i, j \in Slots : i < j /\ img[i].state = "EMPTY" => ~Used(img[j])
Ordered(img) == \A i, j \in LiveSlots(img) : i < j /\ img[i].key = img[j].key => img[i].ts <= img[j].ts
Dated(img)   == \A i \in LiveSlots(img) : img[i].key \in Keys /\ img[i].val \in Vals /\ img[i].ts <= clock
Clean(img)   == \A i \in Slots : img[i].good /\ img[i].state # "CORRUPT"
Sane(img) == Packed(img) /\ Ordered(img) /\ Dated(img) /\ (Budget["cut"] = 0 => Clean(img))

Map(img) == [k \in Keys |-> Visible(img, k)]
Unused(img) == \A i \in Slots : ~Used(img[i])
Missing(img) == \A i \in Slots : img[i] = AbsentRec

\* The map with the effect of the call.
Applied(h) == [view[h] EXCEPT ![req[h].key] = req[h].val]

\* Has the call marked the last of the copies it found?
LastMarked(h) == At(h, "hdr", {"delete"}) \/ (At(h, "marksync", {"delete"}) /\ job[h].todo = {NextSlot(h)})

\* Where a call that holds the write lock has not taken effect on the file, and where it has.
Before(h) == \/ pc[h] \in {"scan", "put"}
             \/ req[h].kind \in {"init", "open", "repair"}
             \/ req[h].kind = "delete" /\ ~LastMarked(h)
             \/ req[h].kind = "compact" /\ pc[h] # "image"
After(h)  == \/ req[h].kind = "write" /\ pc[h] \notin {"scan", "put"}
             \/ LastMarked(h)

StoreTask(h) ==
  Writing(h) =>
    /\ Before(h) => Contents = view[h]
    /\ After(h)  => Contents = Applied(h)
    /\ pc[h] = "put" => \A t \in job[h].todo :
         /\ job[h].plan[t].ts <= clock
         /\ \A i \in LiveSlots(cache) : cache[i].ts <= job[h].plan[t].ts
    /\ pc[h] = "putsync" => LastCopy(cache, req[h].key) \in job[h].todo
    /\ At(h, "mark", {"write"}) => LastCopy(cache, req[h].key) \notin job[h].todo
    /\ At(h, "mark", {"open"})     => job[h].todo \subseteq ScrubSlots(cache)
    /\ At(h, "marksync", {"open"}) => job[h].todo \ {NextSlot(h)} \subseteq ScrubSlots(cache)
    /\ req[h].kind = "delete" /\ pc[h] # "scan" => view[h][req[h].key] # NoVal
    /\ At(h, "hdr", {"delete"}) => job[h].cnt > 0
    /\ At(h, "image", {"init"}) => Unused(cache) /\ Unused(media)
    /\ At(h, "image", {"compact"}) => \E o \in Image : Compacted(h, o) /\ Sane(o) /\ Map(o) = view[h]
    /\ ~At(h, "image", {"repair"})

\* What a power cut may bring back.
BackTask(h) ==
  Writing(h) =>
    /\ pc[h] = "putsync" => Map(media) = view[h]
    /\ At(h, "marksync", {"write"})  => Map(media) = Applied(h)
    /\ At(h, "marksync", {"delete", "open"}) => Map(media) = view[h]
    /\ pc[h] = "marksync" => ~LiveRec(cache[NextSlot(h)])
    /\ pc[h] = "imgsync" => Unused(cache) /\ Unused(media)

\* A reader has found the record it will return.
ReadTask(h) == pc[h] = "reread" => job[h].old = Winner(cache, req[h].key) /\ job[h].old # NoSlot

FileInv == /\ Sane(cache) \/ \E h \in Handles : Compacting(h)
           /\ Sane(media)
           /\ hdr.st # "ok" => Missing(cache) /\ Missing(media)

StoreInv == FileInv /\ \A h \in Handles : /\ StoreTask(h) /\ ReadTask(h)
                                          /\ Budget["cut"] > 0 => BackTask(h)

-----------------------------------------------------------------------------
(* Reading an image. *)

LEMMA SlotOrder == \A i \in Slots : i \in Nat
BY FormatAssumption DEF Slots

LEMMA LiveRecords ==
  ASSUME NEW img \in Image, NEW i \in LiveSlots(img)
  PROVE  i \in Slots /\ img[i] \in Record /\ img[i].ts \in Nat /\ LiveRec(img[i]) /\ Used(img[i])
BY DEF LiveSlots, Image, Record, LiveRec, Used

\* The preferred copy is the only one that is preferred to all.
LEMMA WinnerUnique ==
  ASSUME NEW img \in Image, NEW k, NEW i \in Copies(img, k),
         \A j \in Copies(img, k) : Beats(img, i, j)
  PROVE  Winner(img, k) = i
<1>. DEFINE w == BestCopy(img, k)
<1>1. w \in Copies(img, k) /\ \A j \in Copies(img, k) : Beats(img, w, j)
  BY BestExists, CopiesAreSlots DEF BestCopy
<1>2. Beats(img, w, i) /\ Beats(img, i, w)
  BY <1>1
<1>3. img[w].ts \in Nat /\ img[i].ts \in Nat /\ w \in Nat /\ i \in Nat
  BY <1>1, CopiesAreSlots, LiveRecords, SlotOrder
<1>. HIDE DEF w
<1>4. w = i
  BY <1>2, <1>3 DEF Beats
<1>. QED  BY <1>4 DEF w, Winner, Live

\* What a client reads depends on the copies of the key only.
LEMMA SameCopies ==
  ASSUME NEW a \in Image, NEW b \in Image, NEW k,
         \A i \in Slots : \/ a[i] = b[i]
                          \/ /\ ~(LiveRec(a[i]) /\ a[i].key = k)
                             /\ ~(LiveRec(b[i]) /\ b[i].key = k)
  PROVE  /\ Copies(a, k) = Copies(b, k) /\ Live(a, k) = Live(b, k)
         /\ LastCopy(a, k) = LastCopy(b, k)
         /\ Visible(a, k) = Visible(b, k)
<1>1. \A i : i \in Copies(a, k) <=> i \in Copies(b, k)
  BY CopiesInSlots
<1>2. Copies(a, k) = Copies(b, k)
  BY <1>1
<1>3. \A i \in Copies(a, k) : a[i] = b[i]
  BY CopiesInSlots
<1>4. Live(a, k) = Live(b, k) /\ LastCopy(a, k) = LastCopy(b, k)
  BY <1>2 DEF Live, LastCopy
<1>5. CASE Live(a, k)
  <2>. DEFINE w == BestCopy(a, k)
  <2>1. w \in Copies(a, k) /\ \A j \in Copies(a, k) : Beats(a, w, j)
    BY <1>5, BestExists, CopiesAreSlots DEF BestCopy, Live
  <2>2. \A j \in Copies(b, k) : Beats(b, w, j)
    BY <1>2, <1>3, <2>1 DEF Beats
  <2>3. Winner(b, k) = w /\ Winner(a, k) = w
    BY <1>2, <1>5, <2>1, <2>2, WinnerUnique DEF Winner
  <2>4. a[w] = b[w]
    BY <1>3, <2>1
  <2>. QED  BY <1>2, <1>4, <1>5, <2>3, <2>4 DEF Visible
<1>6. CASE ~Live(a, k)
  BY <1>2, <1>4, <1>6 DEF Visible
<1>. QED  BY <1>5, <1>6

LEMMA SameMap ==
  ASSUME NEW a \in Image, NEW b \in Image,
         \A i \in Slots : a[i] = b[i] \/ (~LiveRec(a[i]) /\ ~LiveRec(b[i]))
  PROVE  Map(a) = Map(b)
<1>1. \A k \in Keys : Visible(a, k) = Visible(b, k)
  BY SameCopies
<1>. QED  BY <1>1 DEF Map

\* The last copy is the one in the highest slot.
LEMMA LastIsMax ==
  ASSUME NEW img, NEW k, Live(img, k)
  PROVE  LastCopy(img, k) \in Copies(img, k) /\ \A j \in Copies(img, k) : j <= LastCopy(img, k)
<1>. DEFINE m == Max(Copies(img, k))
<1>1. Copies(img, k) \in SUBSET Slots /\ Copies(img, k) # {}
  BY CopiesAreSlots DEF Live
<1>2. m \in Copies(img, k) /\ \A j \in Copies(img, k) : m >= j
  BY <1>1, MinMaxSlot
<1>3. m \in Nat /\ \A j \in Copies(img, k) : j \in Nat
  BY <1>1, <1>2, SlotOrder
<1>. HIDE DEF m
<1>4. \A j \in Copies(img, k) : j <= m
  BY <1>2, <1>3
<1>. QED  BY <1>2, <1>4 DEF LastCopy, m

LEMMA LastUnique ==
  ASSUME NEW img, NEW k, NEW i \in Copies(img, k), \A j \in Copies(img, k) : j <= i
  PROVE  LastCopy(img, k) = i /\ Live(img, k)
<1>1. Live(img, k)
  BY DEF Live
<1>2. i \in Nat /\ LastCopy(img, k) \in Nat
  BY <1>1, LastIsMax, CopiesAreSlots, SlotOrder
<1>3. LastCopy(img, k) <= i /\ i <= LastCopy(img, k)
  BY <1>1, LastIsMax
<1>. QED  BY <1>1, <1>2, <1>3

\* Where the copies of a key have their timestamps in slot order, a client reads the last one.
LEMMA LastWins ==
  ASSUME NEW img \in Image, Ordered(img), NEW k, Live(img, k)
  PROVE  Visible(img, k) = img[LastCopy(img, k)].val
<1>. DEFINE m == LastCopy(img, k)
<1>1. m \in Copies(img, k) /\ \A j \in Copies(img, k) : j <= m
  BY LastIsMax
<1>2. ASSUME NEW j \in Copies(img, k) PROVE Beats(img, m, j)
  <2>1. /\ j \in LiveSlots(img) /\ m \in LiveSlots(img) /\ img[j].key = img[m].key
        /\ j \in Nat /\ m \in Nat /\ img[j].ts \in Nat /\ img[m].ts \in Nat
    BY <1>1, CopiesAreSlots, CopiesInSlots, LiveRecords, SlotOrder
  <2>2. j = m \/ j < m
    BY <1>1, <2>1
  <2>. QED  BY <2>1, <2>2 DEF Beats, Ordered
<1>3. Winner(img, k) = m
  BY <1>1, <1>2, WinnerUnique
<1>. QED  BY <1>3 DEF Visible

\* A key that is there has a value.
LEMMA ValueThere ==
  ASSUME NEW img \in Image, Dated(img), NEW k
  PROVE  /\ Live(img, k) => Visible(img, k) \in Vals /\ Visible(img, k) # NoVal
         /\ ~Live(img, k) => Visible(img, k) = NoVal
<1>1. Live(img, k) => Winner(img, k) \in LiveSlots(img)
  BY ScanResults, CopiesAreSlots
<1>. QED  BY <1>1, FormatAssumption DEF Visible, Dated

-----------------------------------------------------------------------------
(* How the images stay sane. *)

\* A used slot is given a record that is not live.
LEMMA MarkSane ==
  ASSUME NEW a \in Image, NEW b \in Image, Sane(a), NEW i \in Slots,
         \A j \in Slots \ {i} : b[j] = a[j], ~LiveRec(b[i]), Used(a[i]), Used(b[i]),
         Budget["cut"] = 0 => b[i].good /\ b[i].state # "CORRUPT"
  PROVE  Sane(b)
<1>1. \A j \in Slots : (Used(b[j]) => Used(a[j])) /\ (b[j].state = "EMPTY" => a[j].state = "EMPTY")
  BY DEF Used
<1>2. \A j \in LiveSlots(b) : j \in LiveSlots(a) /\ b[j] = a[j]
  BY DEF LiveSlots
<1>3. Packed(b)
  BY <1>1 DEF Packed, Sane
<1>4. Ordered(b) /\ Dated(b)
  BY <1>2 DEF Sane, Ordered, Dated
<1>5. Budget["cut"] = 0 => Clean(b)
  BY DEF Sane, Clean
<1>. QED  BY <1>3, <1>4, <1>5 DEF Sane

LEMMA UnusedSane ==
  ASSUME NEW img, Unused(img), Budget["cut"] = 0 => Clean(img)
  PROVE  Sane(img) /\ \A i : i \notin LiveSlots(img)
<1>1. \A i : i \notin LiveSlots(img)
  BY DEF Unused, Used, LiveSlots, LiveRec
<1>. QED  BY <1>1 DEF Sane, Packed, Ordered, Dated, Unused

\* The clock runs on.
LEMMA SaneLater ==
  ASSUME NEW img \in Image, Sane(img), clock \in Nat, clock' \in Nat, clock <= clock'
  PROVE  Sane(img)'
<1>1. \A i \in LiveSlots(img) : img[i].ts \in Nat
  BY LiveRecords
<1>2. \A i \in LiveSlots(img) : img[i].ts <= clock'
  BY <1>1 DEF Sane, Dated
<1>. QED  BY <1>2 DEF Sane, Dated, Packed, Ordered, Clean

\* A new record is put in the first EMPTY slot or over the last copy of its key: no
\* copy of the key is above it, and none has a greater timestamp.
LEMMA PutSane ==
  ASSUME NEW a \in Image, NEW b \in Image, Sane(a), NEW k \in Keys, NEW v \in Vals, NEW t \in Slots,
         b[t] = NewRec(k, v, b[t].ts), \A j \in Slots \ {t} : b[j] = a[j],
         b[t].ts <= clock, \A j \in LiveSlots(a) : a[j].ts <= b[t].ts,
         \/ t = FirstEmpty(a) /\ a[t].state = "EMPTY"
         \/ t = LastCopy(a, k) /\ t \in Copies(a, k)
  PROVE  /\ Sane(b) /\ Visible(b, k) = v /\ LastCopy(b, k) = t
         /\ \A c : c # k => Visible(b, c) = Visible(a, c)
<1>1. b[t].state = "VALID" /\ b[t].good /\ b[t].key = k /\ b[t].val = v /\ LiveRec(b[t]) /\ Used(b[t])
      /\ t \in LiveSlots(b) /\ t \in Nat
  BY SlotOrder DEF NewRec, LiveRec, Used, LiveSlots
<1>2. \A j \in LiveSlots(b) : j = t \/ (j \in LiveSlots(a) /\ b[j] = a[j])
  BY DEF LiveSlots
<1>3. \A j \in Slots : j < t => a[j].state # "EMPTY" \/ Used(a[t])
  <2>1. CASE t = FirstEmpty(a) /\ a[t].state = "EMPTY"
    <3>. DEFINE E == {j \in Slots : a[j].state = "EMPTY"}
    <3>1. t = Min(E) /\ E # {}
      BY <2>1 DEF FirstEmpty
    <3>2. \A j \in E : t <= j
      BY <3>1, MinMaxSlot
    <3>. QED  BY <1>1, <3>2, SlotOrder
  <2>2. CASE t \in Copies(a, k)
    BY <2>2, CopiesAreSlots, LiveRecords
  <2>. QED  BY <2>1, <2>2
<1>4. \A j \in LiveSlots(a) : a[j].key = k => j <= t
  <2>1. CASE t = FirstEmpty(a) /\ a[t].state = "EMPTY"
    <3>. SUFFICES ASSUME NEW j \in LiveSlots(a) PROVE j <= t
      OBVIOUS
    <3>1. j \in Slots /\ j \in Nat /\ Used(a[j])
      BY LiveRecords, SlotOrder
    <3>2. ~(t < j)
      BY <2>1, <3>1 DEF Sane, Packed
    <3>. QED  BY <1>1, <3>1, <3>2
  <2>2. CASE t = LastCopy(a, k) /\ t \in Copies(a, k)
    <3>1. Live(a, k)
      BY <2>2 DEF Live
    <3>. QED  BY <2>2, <3>1, LastIsMax DEF Copies
  <2>. QED  BY <2>1, <2>2
<1>5. Packed(b)
  <2>. SUFFICES ASSUME NEW i \in Slots, NEW j \in Slots, i < j, b[i].state = "EMPTY", Used(b[j])
                PROVE  FALSE
    BY DEF Packed
  <2>1. i # t /\ a[i].state = "EMPTY"
    BY <1>1
  <2>2. Used(a[j]) => FALSE
    BY <2>1 DEF Sane, Packed
  <2>3. j = t
    BY <2>2
  <2>. QED  BY <1>3, <2>1, <2>2, <2>3
<1>6. Ordered(b)
  <2>. SUFFICES ASSUME NEW i \in LiveSlots(b), NEW j \in LiveSlots(b), i < j, b[i].key = b[j].key
                PROVE  b[i].ts <= b[j].ts
    BY DEF Ordered
  <2>1. i \in Nat /\ j \in Nat
    BY LiveRecords, SlotOrder
  <2>2. CASE i = t
    BY <1>1, <1>2, <1>4, <2>1, <2>2
  <2>3. CASE i # t /\ j = t
    BY <1>2, <2>3
  <2>4. CASE i # t /\ j # t
    BY <1>2, <2>4 DEF Sane, Ordered
  <2>. QED  BY <2>2, <2>3, <2>4
<1>7. Dated(b)
  BY <1>1, <1>2 DEF Sane, Dated
<1>8. Budget["cut"] = 0 => Clean(b)
  BY <1>1 DEF Sane, Clean
<1>9. LastCopy(b, k) = t /\ Live(b, k)
  <2>1. t \in Copies(b, k)
    BY <1>1 DEF Copies
  <2>2. \A j \in Copies(b, k) : j <= t
    BY <1>1, <1>2, <1>4 DEF Copies
  <2>. QED  BY <2>1, <2>2, LastUnique
<1>10. Visible(b, k) = v
  BY <1>1, <1>6, <1>9, LastWins
<1>11. ASSUME NEW c, c # k PROVE Visible(b, c) = Visible(a, c)
  <2>1. ~(LiveRec(a[t]) /\ a[t].key = c)
    BY <1>11 DEF LiveRec, Copies
  <2>. QED  BY <1>1, <1>11, <2>1, SameCopies
<1>. QED  BY <1>5, <1>6, <1>7, <1>8, <1>9, <1>10, <1>11 DEF Sane

\* Marking a copy that is not the last one changes nothing for a client; marking the
\* last one that is left takes the key away.
LEMMA MarkedMap ==
  ASSUME NEW a \in Image, NEW b \in Image, Sane(a), NEW k, NEW i \in Copies(a, k),
         \A j \in Slots \ {i} : b[j] = a[j], ~LiveRec(b[i]), Sane(b)
  PROVE  /\ Copies(b, k) = Copies(a, k) \ {i}
         /\ \A c : c # k => Visible(b, c) = Visible(a, c)
         /\ LastCopy(a, k) # i => Visible(b, k) = Visible(a, k) /\ LastCopy(b, k) = LastCopy(a, k)
         /\ Copies(a, k) = {i} => Visible(b, k) = NoVal
<1>1. Copies(b, k) = Copies(a, k) \ {i}
  BY CopiesInSlots
<1>2. \A c : c # k => Visible(b, c) = Visible(a, c)
  BY SameCopies, CopiesInSlots
<1>3. ASSUME LastCopy(a, k) # i
      PROVE  Visible(b, k) = Visible(a, k) /\ LastCopy(b, k) = LastCopy(a, k)
  <2>. DEFINE m == LastCopy(a, k)
  <2>1. m \in Copies(a, k) /\ (\A j \in Copies(a, k) : j <= m) /\ Live(a, k)
    BY LastIsMax DEF Live
  <2>2. m \in Copies(b, k) /\ \A j \in Copies(b, k) : j <= m
    BY <1>1, <1>3, <2>1
  <2>3. LastCopy(b, k) = m /\ Live(b, k)
    BY <2>2, LastUnique
  <2>4. b[m] = a[m]
    BY <1>3, <2>1, CopiesInSlots
  <2>. QED  BY <2>1, <2>3, <2>4, LastWins DEF Sane
<1>4. Copies(a, k) = {i} => Visible(b, k) = NoVal
  BY <1>1 DEF Visible, Live
<1>. QED  BY <1>1, <1>2, <1>3, <1>4

-----------------------------------------------------------------------------
(* What compact makes of an image. *)

\* The records fill the slots from 0 without a gap.
LEMMA NoGaps ==
  ASSUME NEW img, NEW s \in LiveSlots(img), NEW i \in Nat, i < Rank(img, s)
  PROVE  \E r \in LiveSlots(img) : Rank(img, r) = i
<1>. DEFINE S == {r \in LiveSlots(img) : r < s}
            n == Rank(img, s)
            T == 0 .. n - 1
            f == [r \in S |-> Rank(img, r)]
<1>1. n \in Nat /\ n = Cardinality(S)
  BY RankBounds DEF Rank
<1>2. S \in SUBSET Slots
  BY DEF LiveSlots
<1>3. IsFiniteSet(S)
  BY <1>2, SlotsFinite
<1>4. IsFiniteSet(T) /\ Cardinality(T) = n
  <2>. DEFINE b == n - 1
  <2>1. 0 \in Int /\ b \in Int
    BY <1>1
  <2>2. IsFiniteSet(0 .. b) /\ Cardinality(0 .. b) = IF 0 > b THEN 0 ELSE b - 0 + 1
    BY <2>1, FS_Interval
  <2>. QED  BY <1>1, <2>2
<1>5. ASSUME NEW r \in S PROVE f[r] \in T
  <2>1. Rank(img, r) \in Nat /\ Rank(img, r) < n
    BY RankBounds, RankStrict
  <2>. QED  BY <1>1, <2>1
<1>6. ASSUME NEW r \in S, NEW q \in S, f[r] = f[q] PROVE r = q
  BY <1>6, CompactPlaces
<1>. HIDE DEF S, T, n
<1>7. f \in Injection(S, T)
  BY <1>5, <1>6 DEF Injection, IsInjective
<1>8. f \in Surjection(S, T)
  BY <1>1, <1>3, <1>4, <1>7, FS_Injection
<1>9. i \in T
  BY <1>1 DEF T, n
<1>10. \E r \in S : f[r] = i
  BY <1>8, <1>9 DEF Surjection
<1>. QED  BY <1>10 DEF S

LEMMA CompactSane ==
  ASSUME NEW img \in Image, Sane(img)
  PROVE  /\ CompactImage(img) \in Image
         /\ Sane(CompactImage(img))
         /\ Map(CompactImage(img)) = Map(img)
<1>. DEFINE c == CompactImage(img)
<1>1. c \in Image
  BY CompactKeeps
<1>2. ASSUME NEW i \in LiveSlots(c)
      PROVE  \E s \in LiveSlots(img) : Rank(img, s) = i /\ c[i] = img[s]
  <2>1. i \in Slots /\ c[i] # EmptyRec
    BY DEF LiveSlots, LiveRec, EmptyRec
  <2>. QED  BY <2>1, CompactPlaces
<1>3. \A s \in LiveSlots(img) : Rank(img, s) \in Slots /\ c[Rank(img, s)] = img[s]
  BY CompactPlaces
<1>4. \A i \in Slots : Used(c[i]) => i \in LiveSlots(c)
  <2>. SUFFICES ASSUME NEW i \in Slots, Used(c[i]) PROVE LiveRec(c[i])
    BY DEF LiveSlots
  <2>1. c[i] # EmptyRec
    BY DEF Used, EmptyRec
  <2>2. PICK s \in LiveSlots(img) : Rank(img, s) = i
    BY <2>1, CompactPlaces
  <2>. QED  BY <1>3, <2>2 DEF LiveSlots
<1>5. \A i \in Slots : i \notin LiveSlots(c) => c[i] = EmptyRec
  BY <1>3, CompactPlaces DEF LiveSlots
<1>. HIDE DEF c
<1>6. Packed(c)
  <2>. SUFFICES ASSUME NEW i \in Slots, NEW j \in Slots, i < j, c[i].state = "EMPTY", Used(c[j])
                PROVE  FALSE
    BY DEF Packed
  <2>1. PICK s \in LiveSlots(img) : Rank(img, s) = j
    BY <1>2, <1>4
  <2>2. PICK r \in LiveSlots(img) : Rank(img, r) = i
    BY <2>1, NoGaps, SlotOrder
  <2>3. LiveRec(c[i])
    BY <1>3, <2>2 DEF LiveSlots
  <2>. QED  BY <2>3 DEF LiveRec
<1>7. Ordered(c)
  <2>. SUFFICES ASSUME NEW i \in LiveSlots(c), NEW j \in LiveSlots(c), i < j, c[i].key = c[j].key
                PROVE  c[i].ts <= c[j].ts
    BY DEF Ordered
  <2>1. PICK s \in LiveSlots(img) : Rank(img, s) = i /\ c[i] = img[s]
    BY <1>2
  <2>2. PICK r \in LiveSlots(img) : Rank(img, r) = j /\ c[j] = img[r]
    BY <1>2
  <2>3. s \in Nat /\ r \in Nat /\ i \in Nat /\ j \in Nat
    BY LiveRecords, SlotOrder, <1>1
  <2>4. s < r
    BY <2>1, <2>2, <2>3, RankStrict
  <2>. QED  BY <2>1, <2>2, <2>4 DEF Sane, Ordered
<1>8. Dated(c)
  BY <1>2 DEF Sane, Dated
<1>9. Clean(img) => Clean(c)
  <2>1. \A i \in LiveSlots(c) : c[i].good /\ c[i].state # "CORRUPT"
    BY DEF LiveSlots, LiveRec
  <2>. QED  BY <1>5, <2>1 DEF Clean, EmptyRec
<1>10. ASSUME NEW k \in Keys PROVE Visible(c, k) = Visible(img, k)
  <2>1. \A s \in Copies(img, k) : Rank(img, s) \in Copies(c, k)
    BY <1>3 DEF Copies, LiveSlots
  <2>2. \A i \in Copies(c, k) : \E s \in Copies(img, k) : Rank(img, s) = i
    BY <1>2 DEF Copies
  <2>3. CASE Live(img, k)
    <3>. DEFINE m == LastCopy(img, k)
    <3>1. m \in Copies(img, k) /\ \A s \in Copies(img, k) : s <= m
      BY <2>3, LastIsMax
    <3>2. ASSUME NEW i \in Copies(c, k) PROVE i <= Rank(img, m)
      <4>1. PICK s \in Copies(img, k) : Rank(img, s) = i
        BY <2>2
      <4>2. s \in LiveSlots(img) /\ m \in LiveSlots(img) /\ s \in Nat /\ m \in Nat
        BY <3>1, <4>1, CopiesAreSlots, SlotOrder
      <4>3. s = m \/ s < m
        BY <3>1, <4>1, <4>2
      <4>4. Rank(img, s) \in Nat /\ Rank(img, m) \in Nat
        BY <4>2, RankBounds
      <4>. QED  BY <4>1, <4>2, <4>3, <4>4, RankStrict
    <3>3. LastCopy(c, k) = Rank(img, m) /\ Live(c, k)
      BY <2>1, <3>1, <3>2, LastUnique
    <3>4. c[Rank(img, m)] = img[m]
      BY <1>3, <3>1, CopiesAreSlots
    <3>. HIDE DEF m
    <3>5. Visible(c, k) = c[Rank(img, m)].val /\ Visible(img, k) = img[m].val
      BY <1>1, <1>7, <2>3, <3>3, LastWins DEF Sane, m
    <3>. QED  BY <3>4, <3>5
  <2>4. CASE ~Live(img, k)
    BY <2>2, <2>4 DEF Live, Visible
  <2>. QED  BY <2>3, <2>4
<1>11. Map(c) = Map(img)
  BY <1>10 DEF Map
<1>. QED  BY <1>1, <1>6, <1>7, <1>8, <1>9, <1>11 DEF Sane, c

\* What a power cut leaves when the media and the cache differ in one slot.
LEMMA CutSane ==
  ASSUME cache \in Image, media \in Image, Sane(cache), Sane(media), Budget["cut"] > 0,
         NEW d \in Slots, \A j \in Slots \ {d} : media[j] = cache[j],
         NEW img \in Image, \A j \in Slots : img[j] \in Survivors(cache[j], media[j])
  PROVE  Sane(img)
<1>1. \A j \in Slots \ {d} : img[j] = cache[j] /\ img[j] = media[j]
  BY DEF Survivors
<1>2. img[d].state \in {cache[d].state, media[d].state}
  BY DEF Survivors, TornRecs, EmptyRec
<1>3. LiveRec(img[d]) => img[d] \in {cache[d], media[d]}
  BY DEF Survivors, TornRecs, EmptyRec, LiveRec
<1>4. Packed(img)
  BY <1>1, <1>2 DEF Packed, Sane, Used
<1>5. \/ \A j \in LiveSlots(img) : j \in LiveSlots(cache) /\ img[j] = cache[j]
      \/ \A j \in LiveSlots(img) : j \in LiveSlots(media) /\ img[j] = media[j]
  BY <1>1, <1>3 DEF LiveSlots
<1>6. Ordered(img) /\ Dated(img)
  BY <1>5 DEF Ordered, Dated, Sane
<1>7. Budget["cut"] # 0
  BY RobustCfgAssumption DEF Resources
<1>. QED  BY <1>4, <1>6, <1>7 DEF Sane

-----------------------------------------------------------------------------
(* The invariant of the map, and where it holds. *)

\* The workloads the library keeps its promise for.  The runs show what happens beyond:
\* a clock that steps back, a write error that is ignored, compact cut short, a delete
\* that is cut half-way on a file with left-over copies, a repair that opens a gap.
Workload ==
  /\ OneHandlePerProcess
  /\ ~ClockStepsBack
  /\ Budget["fault"] = 0
  /\ Budget["cut"] = 0 \/ (Budget["kill"] = 0 /\ "repair" \notin Kinds)
  /\ "compact" \in Kinds => Budget["kill"] = 0 /\ Budget["cut"] = 0

MapInv == /\ KeyInv /\ KindInv /\ BudgetInv /\ CourseInv /\ StoreInv
          /\ Budget["cut"] > 0 => SyncInv

LEMMA Unspent ==
  ASSUME TypeInv, BudgetInv, NEW r \in Resources, Budget[r] = 0
  PROVE  budget[r] = 0
<1>1. budget[r] \in Nat /\ budget[r] <= 0
  BY DEF TypeInv, EnvTypeOK, BudgetInv
<1>. QED  BY <1>1

LEMMA MapFacts ==
  ASSUME Workload, MapInv
  PROVE  /\ TypeInv /\ LockInv /\ HeaderInv /\ NoFaults /\ NoErrorYet /\ FileInv /\ OneHandlePerProcess
         /\ cache \in Image /\ media \in Image /\ clock \in Nat /\ Contents = Map(cache)
         /\ Budget["cut"] > 0 \/ Budget["cut"] = 0
         /\ \A h \in Handles : /\ StoreTask(h) /\ ReadTask(h) /\ KindTask(h) /\ Course(h) /\ Task(h)
                               /\ Budget["cut"] > 0 => BackTask(h)
<1>1. TypeInv /\ LockInv /\ HeaderInv /\ \A h \in Handles : Task(h)
  BY DEF MapInv, KeyInv
<1>2. NoFaults
  BY <1>1, Unspent DEF MapInv, Workload, NoFaults, Resources
<1>3. NoErrorYet
  BY <1>2 DEF Workload, NoFaults, NoErrorYet
<1>4. Budget["cut"] > 0 \/ Budget["cut"] = 0
  BY RobustCfgAssumption DEF Resources
<1>. QED  BY <1>1, <1>2, <1>3, <1>4 DEF MapInv, Workload, StoreInv, KindInv, CourseInv, TypeInv, FileTypeOK,
                                       EnvTypeOK, Contents, Map

\* A call past its lock finds a sane file, unless it is a compact under way.
LEMMA CacheSane ==
  ASSUME OneHandlePerProcess, KeyInv, FileInv, NEW h \in Handles, Inside(h), ~Compacting(h)
  PROVE  Sane(cache)
<1>. SUFFICES ASSUME NEW g \in Handles, Compacting(g) PROVE FALSE
  BY DEF FileInv
<1>1. Writing(g) /\ g # h
  BY DEF Compacting, Writing, Rest
<1>. QED  BY <1>1, ExclusionFromLocks DEF KeyInv, WriterExclusion, Writing, Reading, Inside

\* No call but a compact that is writing its image keeps the file in disorder.
LEMMA FileKept ==
  ASSUME FileInv, UNCHANGED <<cache, media, clock>>, hdr'.st # "ok" => hdr.st # "ok",
         \A g \in Handles : Compacting(g) => Compacting(g)'
  PROVE  FileInv'
<1>1. Sane(cache)' = Sane(cache) /\ Sane(media)' = Sane(media)
  BY DEF Sane, Packed, Ordered, Dated, Clean, Used, LiveSlots
<1>. QED  BY <1>1 DEF FileInv, Missing

LEMMA FileSane ==
  ASSUME Sane(cache'), Sane(media'), UNCHANGED clock, hdr'.st = "ok"
  PROVE  FileInv'
<1>1. Sane(cache)' = Sane(cache') /\ Sane(media)' = Sane(media')
  BY DEF Sane, Packed, Ordered, Dated, Clean, Used, LiveSlots
<1>. QED  BY <1>1 DEF FileInv, Missing

\* The calls that do not write rely on nothing here.
LEMMA StoreIdle ==
  ASSUME NEW g, pc'[g] \in Rest \cup {"lock"} \/ req'[g].kind = "read"
  PROVE  StoreTask(g)' /\ BackTask(g)'
BY DEF StoreTask, BackTask, Writing

LEMMA StoreKept ==
  ASSUME NEW g, SameCall(g), view'[g] = view[g], UNCHANGED <<cache, media, clock>>, StoreTask(g)
  PROVE  StoreTask(g)'
<1>1. Contents' = Contents /\ (\A k : LastCopy(cache, k)' = LastCopy(cache, k))
  BY DEF Contents, LastCopy
<1>2. NextSlot(g)' = NextSlot(g) /\ Applied(g)' = Applied(g) /\ Writing(g)' = Writing(g)
  BY DEF NextSlot, SameCall, Applied, Writing
<1>3. LastMarked(g)' = LastMarked(g)
  BY <1>2 DEF LastMarked, SameCall, At
<1>4. Before(g)' = Before(g) /\ After(g)' = After(g)
  BY <1>3 DEF Before, After, SameCall
<1>5. \A o : Sane(o)' = Sane(o) /\ Compacted(g, o)' = Compacted(g, o)
  BY DEF Sane, Packed, Ordered, Dated, Clean, Compacted, SameCall
<1>6. LiveSlots(cache)' = LiveSlots(cache) /\ Unused(cache)' = Unused(cache) /\ Unused(media)' = Unused(media)
      /\ ScrubSlots(cache)' = ScrubSlots(cache)
  BY DEF LiveSlots, Unused, ScrubSlots
<1>7. \A l, K : At(g, l, K)' = At(g, l, K)
  BY DEF SameCall, At
<1>. QED  BY <1>1, <1>2, <1>4, <1>5, <1>6, <1>7 DEF StoreTask, SameCall

LEMMA BackKept ==
  ASSUME NEW g, SameCall(g), view'[g] = view[g], UNCHANGED <<cache, media>>, BackTask(g)
  PROVE  BackTask(g)'
BY DEF BackTask, SameCall, Writing, At, Applied, Map, Unused, NextSlot

-----------------------------------------------------------------------------
(* What each step makes of the map. *)

\* The steps that leave the cache alone.
LEMMA StillMap ==
  ASSUME UNCHANGED cache
  PROVE  Contents' = Contents /\ (\A k : LastCopy(cache, k)' = LastCopy(cache, k))
         /\ LiveSlots(cache)' = LiveSlots(cache) /\ Unused(cache)' = Unused(cache)
         /\ ScrubSlots(cache)' = ScrubSlots(cache)
BY DEF Contents, LastCopy, LiveSlots, Unused, ScrubSlots

\* A step of a handle ends no one else's compact.
LEMMA OthersCompact ==
  ASSUME TypeInv, NEW h \in Handles, Client(h) \/ Run(h), ~Compacting(h)
  PROVE  \A g \in Handles : Compacting(g) => Compacting(g)'
BY StepOthers DEF SameCall, Compacting

LEMMA OutsideMap ==
  ASSUME Workload, MapInv, NEW h \in Handles, Client(h) \/ Lock(h) \/ LockTimeout(h)
  PROVE  FileInv' /\ StoreTask(h)' /\ BackTask(h)'
<1>. TypeInv /\ FileInv
  BY MapFacts
<1>1. ~Inside(h) /\ ~Compacting(h)
  BY DEF Inside, Compacting, Client, Open, Close, Call, Lock, LockTimeout, Rest
<1>2. UNCHANGED <<cache, media, clock>>
  BY DEF Client, Open, Close, Call, Lock, LockTimeout, file
<1>3. hdr'.st # "ok" => hdr.st # "ok"
  BY <1>1, Outside DEF Run, TypeInv, FileTypeOK
<1>4. FileInv'
  BY <1>1, <1>2, <1>3, FileKept, OthersCompact DEF Run
<1>5. CASE Lock(h)
  <2>1. pc'[h] = "scan" /\ req' = req
        /\ view'[h] = IF req[h].kind = "read" THEN Absent ELSE Contents
    BY <1>5, CallFacts DEF Lock, Goto
  <2>2. CASE req[h].kind = "read"
    BY <1>4, <2>1, <2>2, StoreIdle
  <2>3. CASE req[h].kind # "read"
    <3>1. Contents' = view'[h]
      BY <1>2, <2>1, <2>3, StillMap
    <3>2. StoreTask(h)' /\ BackTask(h)'
      BY <2>1, <2>3, <3>1 DEF StoreTask, BackTask, Before, After, LastMarked, At
    <3>. QED  BY <1>4, <3>2
  <2>. QED  BY <2>2, <2>3
<1>6. CASE Client(h) \/ LockTimeout(h)
  <2>1. \A l : Goto(h, l) => pc'[h] = l
    BY CallFacts DEF Goto
  <2>2. pc'[h] \in Rest \cup {"lock"}
    BY <1>6, <2>1, ReturnIdle DEF Client, Open, Close, Call, LockTimeout, Rest
  <2>. QED  BY <1>4, <2>2, StoreIdle
<1>. QED  BY <1>5, <1>6

LEMMA ScanMap ==
  ASSUME Workload, MapInv, NEW h \in Handles, Scan(h)
  PROVE  FileInv' /\ StoreTask(h)' /\ (Budget["cut"] > 0 => BackTask(h)')
<1>. /\ TypeInv /\ FileInv /\ KindTask(h) /\ StoreTask(h) /\ HeaderInv /\ cache \in Image
     /\ Contents = Map(cache)
  BY MapFacts
<1>1. pc[h] = "scan" /\ cache' = cache /\ clock' = clock
  BY DEF Scan, ScanInit, ScanOpen, ScanWrite, ScanDelete, ScanRepair, ScanCompact, ScanRead, At, file
<1>2. ~Compacting(h) /\ Inside(h)
  BY <1>1 DEF Compacting, Inside, Rest
<1>3. Sane(cache)
  BY <1>2, CacheSane, MapFacts DEF MapInv
<1>4. req[h].kind # "read" => view[h] = Contents
  BY <1>1 DEF StoreTask, Before, Writing, Rest
<1>5. Contents' = Contents
  BY <1>1, StillMap
<1>6. req[h] \in Requests \cup Openings \cup {NoReq}
  BY CallFacts
<1>7. CASE ScanInit(h)
  <2>1. /\ pc'[h] = "image" /\ req' = req /\ req[h].kind = "init" /\ media' = cache
        /\ hdr'.st = "ok" /\ view' = view
    BY <1>7, PlanEffect DEF ScanInit, At, Plan
  <2>2. hdr.st = "blank"
    BY <1>1, <2>1 DEF HeaderInv, Creating
  <2>3. Unused(cache)
    <3>1. Missing(cache) /\ AbsentRec.state = "ABSENT"
      BY <2>2 DEF FileInv, AbsentRec, EmptyRec
    <3>. QED  BY <3>1 DEF Missing, Unused, Used
  <2>4. FileInv'
    BY <1>1, <1>3, <2>1, FileSane
  <2>5. Unused(cache)' /\ Unused(media)'
    BY <1>1, <2>1, <2>3 DEF Unused
  <2>6. StoreTask(h)' /\ BackTask(h)'
    BY <1>4, <1>5, <2>1, <2>5 DEF StoreTask, BackTask, Before, After, LastMarked, At
  <2>. QED  BY <2>4, <2>6
<1>8. CASE ~ScanInit(h)
  <2>1. UNCHANGED <<media, hdr>>
    BY <1>8 DEF Scan, ScanOpen, ScanWrite, ScanDelete, ScanRepair, ScanCompact, ScanRead, file
  <2>2. FileInv'
    BY <1>1, <1>2, <2>1, FileKept, OthersCompact DEF Run
  <2>3. CASE pc'[h] \in Rest
    BY <2>2, <2>3, StoreIdle
  <2>4. CASE ScanOpen(h) /\ pc'[h] \notin Rest
    <3>. DEFINE bad == ScrubSlots(cache)
                l   == IF bad = {} THEN "hdr" ELSE "mark"
    <3>1. Plan(h, l, bad, BlankImage, NoSlot, LiveCount) /\ req[h].kind = "open"
      BY <2>4, ReturnIdle DEF ScanOpen, At
    <3>. HIDE DEF bad
    <3>2. pc'[h] \in {"hdr", "mark"} /\ req' = req /\ job'[h].todo \subseteq ScrubSlots(cache')
      BY <1>1, <3>1, PlanEffect DEF bad
    <3>5. view' = view
      BY <3>1 DEF Plan
    <3>3. StoreTask(h)' /\ BackTask(h)'
      BY <1>4, <1>5, <3>1, <3>2, <3>5 DEF StoreTask, BackTask, Before, After, LastMarked, At
    <3>. QED  BY <2>2, <3>3
  <2>5. CASE ScanWrite(h) /\ pc'[h] \notin Rest
    <3>. DEFINE t == Target(req[h].key)
    <3>1. /\ pc'[h] = "put" /\ req' = req /\ t \in Slots /\ job'[h].todo = {t}
          /\ job'[h].plan[t] = NewRec(req[h].key, req[h].val, clock) /\ req[h].kind = "write"
      BY <2>5, ScanWritePlans DEF ScanWrite, At
    <3>2. view' = view
      BY <2>5, ReturnIdle DEF ScanWrite, Plan
    <3>3. job'[h].plan[t].ts = clock
      BY <3>1 DEF NewRec
    <3>4. \A i \in LiveSlots(cache) : cache[i].ts <= clock
      BY <1>3 DEF Sane, Dated
    <3>. HIDE DEF t
    <3>5. \A i \in job'[h].todo : /\ job'[h].plan[i].ts <= clock'
                                  /\ \A j \in LiveSlots(cache') : cache'[j].ts <= job'[h].plan[i].ts
      BY <1>1, <3>1, <3>3, <3>4, MapFacts
    <3>6. StoreTask(h)' /\ BackTask(h)'
      BY <1>4, <1>5, <3>1, <3>2, <3>5 DEF StoreTask, BackTask, Before, After, LastMarked, At
    <3>. QED  BY <2>2, <3>6
  <2>6. CASE ScanDelete(h) /\ pc'[h] \notin Rest
    <3>1. pc'[h] = "mark" /\ req' = req /\ req[h].kind = "delete" /\ Live(cache, req[h].key)
      BY <2>6, ScanDeletePlans
    <3>2. view' = view
      BY <2>6, ReturnIdle DEF ScanDelete, Plan
    <3>3. req[h].key \in Keys
      BY <1>6, <3>1, RequestTypes
    <3>4. Visible(cache, req[h].key) # NoVal
      BY <1>3, <3>1, ValueThere DEF Sane
    <3>5. view'[h][req[h].key] # NoVal
      BY <1>4, <3>1, <3>2, <3>3, <3>4 DEF Contents
    <3>6. StoreTask(h)' /\ BackTask(h)'
      BY <1>4, <1>5, <3>1, <3>2, <3>5 DEF StoreTask, BackTask, Before, After, LastMarked, At
    <3>. QED  BY <2>2, <3>6
  <2>7. CASE ScanRepair(h)
    <3>1. req[h].kind = "repair" /\ "repair" \in Kinds
      BY <2>7 DEF ScanRepair, At, KindTask, Rest
    <3>2. Budget["cut"] = 0 /\ ~(Budget["cut"] > 0)
      BY <3>1 DEF Workload
    <3>3. RepairSlots(cache) = {}
      BY <1>3, <3>2 DEF Sane, Clean, RepairSlots
    <3>4. Plan(h, "imgsync", {}, BlankImage, NoSlot, LiveCount)
      BY <2>7, <3>3 DEF ScanRepair
    <3>5. pc'[h] = "imgsync" /\ req' = req /\ view' = view
      BY <3>4, PlanEffect DEF Plan
    <3>6. StoreTask(h)'
      BY <1>4, <1>5, <3>1, <3>5 DEF StoreTask, Before, After, LastMarked, At
    <3>. QED  BY <2>2, <3>2, <3>6
  <2>8. CASE ScanCompact(h)
    <3>0. Plan(h, "image", Slots, CompactImage(cache), NoSlot, LiveCount) /\ req[h].kind = "compact"
      BY <2>8 DEF ScanCompact, At
    <3>1. /\ pc'[h] = "image" /\ req' = req /\ view' = view
          /\ job'[h].todo = Slots /\ job'[h].plan = CompactImage(cache)
      <4>1. view' = view
        BY <3>0 DEF Plan
      <4>. QED  BY <3>0, <4>1, PlanEffect
    <3>2. Compacted(h, cache)'
      BY <1>1, <3>1 DEF Compacted
    <3>3. Sane(cache)' /\ Map(cache)' = view'[h]
      <4>1. Sane(cache)' = Sane(cache)
        BY <1>1 DEF Sane, Packed, Ordered, Dated, Clean, Used, LiveSlots
      <4>2. Map(cache)' = Map(cache)
        BY <1>1 DEF Map
      <4>. QED  BY <1>3, <1>4, <3>0, <3>1, <4>1, <4>2
    <3>4. \E o \in Image : Compacted(h, o)' /\ Sane(o)' /\ Map(o) = view'[h]
      <4>1. PICK o \in Image : o = cache
        OBVIOUS
      <4>2. Compacted(h, o)' /\ Sane(o)' /\ Map(o) = view'[h]
        BY <1>1, <3>1, <3>2, <3>3, <4>1 DEF Compacted, Sane, Packed, Ordered, Dated, Clean, LiveSlots, Map
      <4>. QED  BY <4>2
    <3>5. StoreTask(h)' /\ BackTask(h)'
      BY <1>4, <1>5, <3>0, <3>1, <3>4 DEF StoreTask, BackTask, Before, After, LastMarked, At
    <3>. QED  BY <2>2, <3>5
  <2>9. CASE ScanRead(h)
    <3>1. req[h].kind = "read" /\ (req' = req \/ pc'[h] \in Rest)
      BY <2>9, PlanEffect, ReturnIdle DEF ScanRead, At
    <3>. QED  BY <2>2, <2>3, <3>1, StoreIdle
  <2>. QED  BY <1>8, <2>3, <2>4, <2>5, <2>6, <2>7, <2>8, <2>9 DEF Scan
<1>. QED  BY <1>7, <1>8

LEMMA PutMap ==
  ASSUME Workload, MapInv, NEW h \in Handles, Put(h)
  PROVE  FileInv' /\ StoreTask(h)' /\ (Budget["cut"] > 0 => BackTask(h)')
<1>. /\ TypeInv /\ FileInv /\ KindTask(h) /\ StoreTask(h) /\ HeaderInv /\ Course(h)
     /\ cache \in Image /\ Contents = Map(cache)
  BY MapFacts
<1>. DEFINE k == req[h].key
            v == req[h].val
<1>1. PICK t \in Slots :
           /\ pc[h] = "put" /\ pc'[h] = "putsync" /\ UNCHANGED <<media, hdr, req, job, view, ret, clock>>
           /\ job[h].todo = {t}
           /\ job[h].plan[t] = NewRec(k, v, job[h].plan[t].ts)
           /\ t = Target(k) /\ job[h].old = LastCopy(cache, k)
           /\ cache'[t] = job[h].plan[t] /\ \A j \in Slots \ {t} : cache'[j] = cache[j]
           /\ LiveRec(cache[t]) <=> job[h].old = t
           /\ job[h].old # t => cache[t].state = "EMPTY" /\ t = FirstEmpty(cache)
  BY PutTarget
<1>2. req[h].kind = "write" /\ Writing(h) /\ ~Compacting(h) /\ Inside(h)
  BY <1>1 DEF KindTask, Writing, Compacting, Inside, Rest
<1>3. Sane(cache)
  BY <1>2, CacheSane, MapFacts DEF MapInv
<1>4. cache' \in Image
  BY TypeStep, MapFacts DEF Next, Run, TypeInv, FileTypeOK
<1>5. k \in Keys /\ v \in Vals
  BY <1>2, CallFacts, RequestTypes
<1>6. view[h] = Contents /\ view[h] \in [Keys -> Vals \cup {NoVal}]
  BY <1>1, <1>2, CallFacts DEF StoreTask, Before
<1>7. cache'[t].ts <= clock /\ \A j \in LiveSlots(cache) : cache[j].ts <= cache'[t].ts
  BY <1>1, <1>2 DEF StoreTask
<1>8. \/ t = FirstEmpty(cache) /\ cache[t].state = "EMPTY"
      \/ t = LastCopy(cache, k) /\ t \in Copies(cache, k)
  BY <1>1, ScanResults, NoSlotIsNone
<1>9. /\ Sane(cache') /\ Visible(cache', k) = v /\ LastCopy(cache', k) = t
      /\ \A c : c # k => Visible(cache', c) = Visible(cache, c)
  BY <1>1, <1>3, <1>4, <1>5, <1>7, <1>8, PutSane
<1>10. Contents' = Applied(h)'
  <2>1. Contents' = [c \in Keys |-> Visible(cache', c)]
    BY DEF Contents
  <2>2. Applied(h)' = [view[h] EXCEPT ![k] = v]
    BY <1>1 DEF Applied
  <2>3. view[h] = [c \in Keys |-> Visible(cache, c)]
    BY <1>6 DEF Contents
  <2>. HIDE DEF k, v
  <2>. QED  BY <1>5, <1>9, <2>1, <2>2, <2>3
<1>11. FileInv'
  BY <1>1, <1>2, <1>9, FileSane, HeaderThere DEF FileInv, Starting
<1>12. StoreTask(h)'
  BY <1>1, <1>2, <1>9, <1>10 DEF StoreTask, Before, After, LastMarked, At
<1>13. ASSUME Budget["cut"] > 0 PROVE BackTask(h)'
  <2>1. media = cache
    BY <1>1, <1>2, <1>13, SyncedBefore DEF MapInv, SyncInv, MediaInv, Unsynced, Workload
  <2>2. Map(media)' = view'[h]
    BY <1>1, <1>6, <2>1 DEF Map
  <2>. QED  BY <1>1, <1>2, <2>2 DEF BackTask, At
<1>. QED  BY <1>11, <1>12, <1>13

LEMMA PutSyncMap ==
  ASSUME Workload, MapInv, NEW h \in Handles, PutSync(h)
  PROVE  FileInv' /\ StoreTask(h)' /\ (Budget["cut"] > 0 => BackTask(h)')
<1>. /\ TypeInv /\ FileInv /\ KindTask(h) /\ StoreTask(h) /\ HeaderInv /\ Course(h)
  BY MapFacts
<1>1. PICK t \in Slots :
           /\ job[h].todo = {t} /\ pc[h] = "putsync"
           /\ cache' = cache /\ media' = cache /\ hdr' = hdr
           /\ req' = req /\ view' = view
           /\ job'[h].old = job[h].old /\ job'[h].todo = {job[h].old} \ {NoSlot, t}
           /\ pc'[h] = IF {job[h].old} \ {NoSlot, t} = {} THEN "hdr" ELSE "mark"
  BY PutSyncMoves
<1>2. req[h].kind = "write" /\ Writing(h) /\ ~Compacting(h) /\ Inside(h) /\ clock' = clock
  BY <1>1 DEF KindTask, Writing, Compacting, Inside, Rest, PutSync
<1>3. Sane(cache)
  BY <1>2, CacheSane, MapFacts DEF MapInv
<1>4. FileInv'
  BY <1>1, <1>2, <1>3, FileSane, HeaderThere DEF FileInv, Starting
<1>5. Contents' = Contents /\ LastCopy(cache, req[h].key)' = LastCopy(cache, req[h].key)
  BY <1>1, StillMap DEF LastCopy
<1>6. Contents = Applied(h) /\ LastCopy(cache, req[h].key) = t
  BY <1>1, <1>2 DEF StoreTask, After
<1>7. Contents' = Applied(h)'
  BY <1>1, <1>5, <1>6 DEF Applied
<1>8. StoreTask(h)' /\ BackTask(h)'
  BY <1>1, <1>2, <1>5, <1>6, <1>7 DEF StoreTask, BackTask, Before, After, LastMarked, At
<1>. QED  BY <1>4, <1>8

LEMMA MarkMap ==
  ASSUME Workload, MapInv, NEW h \in Handles, Mark(h)
  PROVE  FileInv' /\ StoreTask(h)' /\ (Budget["cut"] > 0 => BackTask(h)')
<1>. /\ TypeInv /\ FileInv /\ KindTask(h) /\ StoreTask(h) /\ HeaderInv /\ Course(h)
     /\ cache \in Image /\ Contents = Map(cache)
  BY MapFacts
<1>. DEFINE i == NextSlot(h)
            k == req[h].key
<1>1. /\ pc[h] = "mark" /\ pc'[h] = "marksync" /\ NextSlot(h)' = i
      /\ UNCHANGED <<media, hdr, req, job, view, clock>>
      /\ i \in job[h].todo /\ i \in Slots /\ \A y \in job[h].todo : i <= y
      /\ cache'[i].state = MarkState(h) /\ ~LiveRec(cache'[i])
      /\ \A j \in Slots \ {i} : cache'[j] = cache[j]
  BY MarkEffect
<1>2. cache'[i].good
  <2>1. cache'[i] = Marked(cache[i], MarkState(h))
    BY <1>1, OneSlotWritten DEF Mark
  <2>2. cache[i] \in Record
    BY <1>1 DEF Image
  <2>. QED  BY <2>1, <2>2 DEF Marked, Record
<1>3. MarkCourse(h) /\ req[h].kind \in {"write", "delete", "open"} /\ Writing(h) /\ Inside(h)
      /\ ~Compacting(h) /\ hdr.st = "ok"
  BY <1>1, HeaderThere DEF Course, KindTask, Writing, Inside, Compacting, Rest, Starting
<1>4. Sane(cache) /\ Sane(media)
  BY <1>3, CacheSane, MapFacts DEF MapInv, FileInv
<1>5. cache' \in Image
  BY TypeStep, MapFacts DEF Next, Run, TypeInv, FileTypeOK
<1>. HIDE DEF i
<1>6. /\ req[h].kind = "write"  => job[h].todo = {i} /\ i \in Copies(cache, k) /\ LastCopy(cache, k) # i
      /\ req[h].kind = "delete" => job[h].todo = Copies(cache, k)
      /\ req[h].kind = "open"   => job[h].todo \subseteq ScrubSlots(cache)
  BY <1>1, <1>3 DEF MarkCourse, StoreTask, At
<1>7. Used(cache[i]) /\ Used(cache'[i])
  <2>1. Used(cache[i])
    <3>1. req[h].kind # "open" => LiveRec(cache[i])
      BY <1>1, <1>3, <1>6, CopiesInSlots
    <3>2. req[h].kind = "open" => cache[i].state \in {"VALID", "DELETED"}
      BY <1>1, <1>6 DEF ScrubSlots
    <3>. QED  BY <3>1, <3>2 DEF LiveRec, Used
  <2>. QED  BY <1>1, <2>1 DEF MarkState, Used
<1>8. Budget["cut"] = 0 => req[h].kind # "open"
  BY <1>1, <1>4, <1>6 DEF ScrubSlots, Sane, Clean
<1>9. Sane(cache')
  <2>1. Budget["cut"] = 0 => cache'[i].state # "CORRUPT"
    BY <1>1, <1>8 DEF MarkState
  <2>. QED  BY <1>1, <1>2, <1>4, <1>5, <1>7, <2>1, MarkSane
<1>10. FileInv'
  BY <1>1, <1>3, <1>4, <1>9, FileSane
<1>11. Contents' = Map(cache')
  BY DEF Contents, Map
<1>12. Budget["cut"] > 0 => Map(media)' = Contents
  <2>1. Budget["cut"] > 0 => media = cache
    BY <1>1, <1>3, SyncedBefore DEF MapInv, SyncInv, MediaInv, Unsynced, Workload
  <2>. QED  BY <1>1, <2>1 DEF Map
<1>13. ASSUME req[h].kind # "open"
       PROVE  /\ \A c : c # k => Visible(cache', c) = Visible(cache, c)
              /\ LastCopy(cache, k) # i => Contents' = Contents
              /\ Copies(cache, k) = {i} => Visible(cache', k) = NoVal
  <2>1. i \in Copies(cache, k)
    BY <1>1, <1>3, <1>6, <1>13
  <2>2. /\ \A c : c # k => Visible(cache', c) = Visible(cache, c)
        /\ LastCopy(cache, k) # i => Visible(cache', k) = Visible(cache, k)
        /\ Copies(cache, k) = {i} => Visible(cache', k) = NoVal
    BY <1>1, <1>4, <1>5, <1>9, <2>1, MarkedMap
  <2>3. ASSUME LastCopy(cache, k) # i PROVE \A c \in Keys : Visible(cache', c) = Visible(cache, c)
    BY <2>2, <2>3
  <2>. QED  BY <1>11, <2>2, <2>3 DEF Map
<1>14. CASE req[h].kind = "write"
  <2>1. Contents = Applied(h) /\ Contents' = Contents /\ Applied(h)' = Applied(h)
    BY <1>1, <1>3, <1>6, <1>13, <1>14 DEF StoreTask, After, Applied
  <2>. QED  BY <1>1, <1>10, <1>12, <1>14, <2>1 DEF StoreTask, BackTask, Before, After, LastMarked, At
<1>15. CASE req[h].kind = "delete"
  <2>1. Contents = view[h] /\ view[h][k] # NoVal
    BY <1>1, <1>3, <1>15 DEF StoreTask, Before, LastMarked, At
  <2>2. CASE job[h].todo = {i}
    <3>1. k \in Keys /\ req[h].val = NoVal
      BY <1>15, DeleteGivesNothing
    <3>2. Visible(cache', k) = NoVal /\ \A c : c # k => Visible(cache', c) = Visible(cache, c)
      BY <1>6, <1>13, <1>15, <2>2
    <3>3. Contents' = [Contents EXCEPT ![k] = NoVal]
      <4>. HIDE DEF k
      <4>. QED  BY <1>11, <3>1, <3>2 DEF Map
    <3>4. Contents' = Applied(h)'
      BY <1>1, <2>1, <3>1, <3>3 DEF Applied
    <3>. QED  BY <1>1, <1>10, <1>12, <1>15, <2>1, <2>2, <3>4 DEF StoreTask, BackTask, Before, After, LastMarked, At
  <2>3. CASE job[h].todo # {i}
    <3>1. PICK j \in job[h].todo : j # i
      BY <1>1, <2>3
    <3>2. LastCopy(cache, k) # i
      <4>1. j \in Copies(cache, k) /\ i <= j /\ i \in Nat /\ j \in Nat
        BY <1>1, <1>6, <1>15, <3>1, CopiesInSlots, SlotOrder
      <4>2. j <= LastCopy(cache, k)
        BY <4>1, LastIsMax DEF Live
      <4>. QED  BY <3>1, <4>1, <4>2
    <3>3. Contents' = view'[h]
      BY <1>1, <1>13, <1>15, <2>1, <3>2
    <3>. QED  BY <1>1, <1>10, <1>12, <1>15, <2>1, <2>3, <3>3 DEF StoreTask, BackTask, Before, After, LastMarked, At
  <2>. QED  BY <2>2, <2>3
<1>16. CASE req[h].kind = "open"
  <2>1. ~LiveRec(cache[i])
    BY <1>1, <1>6, <1>16 DEF ScrubSlots, LiveRec
  <2>2. Contents' = Contents /\ Contents = view[h]
    BY <1>1, <1>3, <1>5, <1>11, <1>16, <2>1, SameMap DEF StoreTask, Before
  <2>3. job[h].todo \ {i} \subseteq ScrubSlots(cache')
    BY <1>1, <1>6, <1>16 DEF ScrubSlots
  <2>. QED  BY <1>1, <1>10, <1>12, <1>16, <2>2, <2>3 DEF StoreTask, BackTask, Before, After, LastMarked, At
<1>. QED  BY <1>3, <1>14, <1>15, <1>16

LEMMA MarkSyncMap ==
  ASSUME Workload, MapInv, NEW h \in Handles, MarkSync(h)
  PROVE  FileInv' /\ StoreTask(h)' /\ (Budget["cut"] > 0 => BackTask(h)')
<1>. /\ TypeInv /\ FileInv /\ KindTask(h) /\ StoreTask(h) /\ HeaderInv /\ Course(h) /\ Task(h)
  BY MapFacts
<1>1. /\ pc[h] = "marksync" /\ pc'[h] = AfterMark(h)
      /\ UNCHANGED <<cache, hdr, req, view, clock>> /\ media' = cache
      /\ NextSlot(h) \in job[h].todo /\ job'[h].todo = job[h].todo \ {NextSlot(h)}
      /\ job'[h].cnt = job[h].cnt + (IF req[h].kind = "delete" THEN 1 ELSE 0)
  BY MarkSyncEffect
<1>2. req[h].kind \in {"write", "delete", "open"} /\ Writing(h) /\ Inside(h) /\ ~Compacting(h)
      /\ hdr.st = "ok" /\ MarkTask(h)
  BY <1>1, HeaderThere DEF Task, KindTask, Writing, Inside, Compacting, Rest, Starting
<1>3. FileInv'
  BY <1>1, <1>2, FileSane, CacheSane, MapFacts DEF MapInv
<1>4. Contents' = Contents /\ Applied(h)' = Applied(h) /\ ScrubSlots(cache)' = ScrubSlots(cache)
  BY <1>1, StillMap DEF Applied
<1>5. job[h].cnt \in Nat
  BY CountTypes
<1>6. pc'[h] = (IF job[h].todo = {NextSlot(h)} THEN "hdr" ELSE "mark")
  BY <1>1 DEF AfterMark
<1>7. CASE req[h].kind = "write"
  <2>1. pc'[h] = "hdr" /\ Contents = Applied(h)
    BY <1>1, <1>2, <1>6, <1>7 DEF MarkTask, StoreTask, After
  <2>. QED  BY <1>1, <1>3, <1>4, <1>7, <2>1 DEF StoreTask, BackTask, Before, After, LastMarked, At
<1>8. CASE req[h].kind = "delete"
  <2>1. /\ view[h][req[h].key] # NoVal
        /\ job[h].todo = {NextSlot(h)} => Contents = Applied(h)
        /\ job[h].todo # {NextSlot(h)} => Contents = view[h]
    BY <1>1, <1>2, <1>8 DEF StoreTask, Before, After, LastMarked, At
  <2>2. job'[h].cnt > 0
    BY <1>1, <1>5, <1>8
  <2>. QED  BY <1>1, <1>3, <1>4, <1>6, <1>8, <2>1, <2>2 DEF StoreTask, BackTask, Before, After, LastMarked, At
<1>9. CASE req[h].kind = "open"
  <2>1. Contents = view[h] /\ job[h].todo \ {NextSlot(h)} \subseteq ScrubSlots(cache)
    BY <1>1, <1>2, <1>9 DEF StoreTask, Before, At
  <2>. QED  BY <1>1, <1>3, <1>4, <1>6, <1>9, <2>1 DEF StoreTask, BackTask, Before, After, LastMarked, At
<1>. QED  BY <1>2, <1>7, <1>8, <1>9

LEMMA ImageMap ==
  ASSUME Workload, MapInv, NEW h \in Handles, ImageStep(h)
  PROVE  FileInv' /\ StoreTask(h)' /\ (Budget["cut"] > 0 => BackTask(h)')
<1>. /\ TypeInv /\ FileInv /\ KindTask(h) /\ StoreTask(h) /\ HeaderInv /\ Course(h)
     /\ cache \in Image /\ media \in Image /\ Contents = Map(cache)
  BY MapFacts
<1>. DEFINE i == NextSlot(h)
<1>1. /\ pc[h] = "image" /\ pc'[h] = IF job[h].todo = {i} THEN "imgsync" ELSE "image"
      /\ UNCHANGED <<media, hdr, req, view, clock>> /\ job'[h].todo = job[h].todo \ {i}
      /\ job'[h].plan = job[h].plan
      /\ Store(i, job[h].plan[i])
  BY AdvanceEffect DEF ImageStep
<1>2. i \in job[h].todo /\ i \in Slots /\ cache'[i] = job[h].plan[i]
      /\ \A j \in Slots \ {i} : cache'[j] = cache[j]
  BY <1>1, WriteTypes, OneSlotWritten
<1>3. req[h].kind \in {"init", "compact"} /\ Writing(h) /\ Inside(h) /\ hdr.st = "ok" /\ Sane(media)
  <2>1. req[h].kind # "repair"
    BY <1>1, CallFacts DEF StoreTask, At, Writing, Rest
  <2>. QED  BY <1>1, <2>1, HeaderThere DEF KindTask, Writing, Inside, Rest, Starting, FileInv
<1>4. cache' \in Image
  BY TypeStep, MapFacts DEF Next, Run, TypeInv, FileTypeOK
<1>5. Contents' = Map(cache')
  BY DEF Contents, Map
<1>. HIDE DEF i
<1>6. CASE req[h].kind = "init"
  <2>1. Sane(cache)
    BY <1>3, <1>6, CacheSane, MapFacts DEF MapInv, Compacting
  <2>2. Unused(cache) /\ Unused(media) /\ Contents = view[h] /\ cache'[i] = EmptyRec
    BY <1>1, <1>2, <1>3, <1>6 DEF StoreTask, Before, At, Course, BlankImage
  <2>3. ~Used(EmptyRec) /\ EmptyRec.good /\ EmptyRec.state # "CORRUPT"
    BY DEF Used, EmptyRec
  <2>4. Unused(cache') /\ Unused(media)'
    BY <1>1, <1>2, <2>2, <2>3 DEF Unused
  <2>5. Sane(cache')
    BY <1>2, <2>1, <2>2, <2>3, <2>4, UnusedSane DEF Sane, Clean
  <2>6. Contents' = Contents
    <3>1. \A j \in Slots : ~LiveRec(cache[j]) /\ ~LiveRec(cache'[j])
      BY <2>2, <2>4 DEF Unused, Used, LiveRec
    <3>. QED  BY <1>4, <1>5, <3>1, SameMap
  <2>7. FileInv'
    BY <1>1, <1>3, <2>5, FileSane
  <2>8. Unused(cache)'
    BY <2>4 DEF Unused
  <2>. QED  BY <1>1, <1>6, <2>2, <2>4, <2>6, <2>7, <2>8 DEF StoreTask, BackTask, Before, After, LastMarked, At
<1>7. CASE req[h].kind = "compact"
  <2>1. ~(Budget["cut"] > 0)
    BY <1>1, <1>7 DEF KindTask, Workload, Rest
  <2>2. PICK o \in Image : Compacted(h, o) /\ Sane(o) /\ Map(o) = view[h]
    BY <1>1, <1>3, <1>7 DEF StoreTask, At
  <2>3. Compacted(h, o)'
    BY <2>2, CompactedStep
  <2>4. Sane(o)'
    BY <1>1, <2>2 DEF Sane, Packed, Ordered, Dated, Clean
  <2>5. CASE job[h].todo = {i}
    <3>1. cache' = CompactImage(o)
      <4>1. \A j \in Slots : cache'[j] = CompactImage(o)[j]
        BY <1>1, <2>3, <2>5 DEF Compacted
      <4>2. CompactImage(o) \in Image
        BY CompactKeeps
      <4>. QED  BY <1>4, <4>1, <4>2 DEF Image
    <3>2. Sane(cache') /\ Contents' = view'[h]
      BY <1>1, <1>5, <2>2, <3>1, CompactSane
    <3>3. FileInv'
      BY <1>1, <1>3, <3>2, FileSane
    <3>. QED  BY <1>1, <1>7, <2>1, <2>5, <3>2, <3>3 DEF StoreTask, BackTask, Before, After, LastMarked, At
  <2>6. CASE job[h].todo # {i}
    <3>1. Compacting(h)' /\ Sane(media)'
      <4>1. Sane(media)' = Sane(media)
        BY <1>1 DEF Sane, Packed, Ordered, Dated, Clean, LiveSlots
      <4>. QED  BY <1>1, <1>3, <1>7, <2>6, <4>1 DEF Compacting
    <3>2. FileInv'
      BY <1>1, <1>3, <3>1 DEF FileInv
    <3>3. \E p \in Image : Compacted(h, p)' /\ Sane(p)' /\ Map(p) = view'[h]
      BY <1>1, <2>2, <2>3, <2>4
    <3>4. \A p \in Image : Map(p)' = Map(p)
      BY DEF Map
    <3>5. StoreTask(h)'
      BY <1>1, <1>7, <2>6, <3>3, <3>4 DEF StoreTask, Before, After, LastMarked, At
    <3>. QED  BY <2>1, <3>2, <3>5
  <2>. QED  BY <2>5, <2>6
<1>. QED  BY <1>3, <1>6, <1>7

LEMMA EndMap ==
  ASSUME Workload, MapInv, NEW h \in Handles, ImageSync(h) \/ Header(h) \/ Reread(h)
  PROVE  FileInv' /\ StoreTask(h)' /\ BackTask(h)'
<1>. /\ TypeInv /\ FileInv /\ KindTask(h) /\ StoreTask(h) /\ HeaderInv
  BY MapFacts
<1>1. /\ pc[h] \in {"imgsync", "hdr", "reread"} /\ UNCHANGED <<cache, clock>>
      /\ media' \in {cache, media} /\ hdr'.st = hdr.st
  BY DEF ImageSync, Header, Reread, Sync, file, TypeInv, FileTypeOK
<1>2. Inside(h) /\ ~Compacting(h) /\ hdr.st = "ok"
  BY <1>1, HeaderThere DEF Inside, Compacting, Rest, Starting
<1>3. Sane(cache) /\ Sane(media)
  BY <1>2, CacheSane, MapFacts DEF MapInv, FileInv
<1>4. FileInv'
  BY <1>1, <1>2, <1>3, FileSane
<1>5. CASE ImageSync(h)
  <2>1. pc[h] = "imgsync" /\ pc'[h] = "hdr" /\ UNCHANGED <<req, view>>
    BY <1>5, CallFacts DEF ImageSync, Goto
  <2>2. req[h].kind \in {"init", "repair", "compact"} /\ Contents' = Contents /\ Contents = view[h]
    BY <1>1, <2>1, StillMap DEF KindTask, StoreTask, Writing, Before, Rest
  <2>. QED  BY <1>4, <2>1, <2>2 DEF StoreTask, BackTask, Before, After, LastMarked, At
<1>6. CASE Header(h) \/ Reread(h)
  BY <1>4, <1>6, ReturnIdle, StoreIdle DEF Header, Reread
<1>. QED  BY <1>5, <1>6

LEMMA OwnMap ==
  ASSUME Workload, MapInv, NEW h \in Handles, Client(h) \/ Run(h)
  PROVE  FileInv' /\ StoreTask(h)' /\ (Budget["cut"] > 0 => BackTask(h)')
BY OutsideMap, ScanMap, PutMap, PutSyncMap, MarkMap, MarkSyncMap, ImageMap, EndMap DEF Run

\* Only the scan of a read leads to the second look at a slot.
LEMMA OwnRead ==
  ASSUME TypeInv, NEW h \in Handles, Client(h) \/ Run(h)
  PROVE  ReadTask(h)'
<1>. SUFFICES ASSUME pc'[h] = "reread" PROVE ReadTask(h)'
  BY DEF ReadTask
<1>1. \A l : Goto(h, l) => pc'[h] = l
  BY CallFacts DEF Goto
<1>2. ~Client(h) /\ ~Lock(h) /\ ~LockTimeout(h) /\ ~Reread(h) /\ ~ImageSync(h) /\ ~Header(h)
  BY <1>1, ReturnIdle DEF Client, Open, Close, Call, Lock, LockTimeout, Reread, ImageSync, Header, Rest
<1>3. ~ScanInit(h) /\ ~ScanOpen(h) /\ ~ScanWrite(h) /\ ~ScanDelete(h) /\ ~ScanRepair(h) /\ ~ScanCompact(h)
  BY <1>1, ReturnIdle DEF ScanInit, ScanOpen, ScanWrite, ScanDelete, ScanRepair, ScanCompact, Plan, Rest
<1>4. ~Put(h) /\ ~PutSync(h) /\ ~Mark(h) /\ ~MarkSync(h) /\ ~ImageStep(h)
  BY <1>1, ReturnIdle DEF Put, PutSync, Mark, MarkSync, AfterMark, ImageStep, Rest
<1>5. ScanRead(h)
  BY <1>2, <1>3, <1>4 DEF Run, Scan
<1>. DEFINE w == Winner(cache, req[h].key)
<1>6. w # NoSlot /\ Plan(h, "reread", {}, BlankImage, w, 0) /\ cache' = cache
  BY <1>5, ReturnIdle DEF ScanRead, file, Rest
<1>. HIDE DEF w
<1>7. job'[h].old = w /\ req' = req
  BY <1>6, PlanEffect
<1>8. Winner(cache, req[h].key)' = w
  BY <1>6, <1>7 DEF Winner, BestCopy, Beats, Live, Copies, LiveSlots, w
<1>. QED  BY <1>6, <1>7, <1>8 DEF ReadTask

LEMMA ReadKept ==
  ASSUME NEW g, ReadTask(g), SameCall(g), UNCHANGED cache
  PROVE  ReadTask(g)'
<1>1. Winner(cache, req[g].key)' = Winner(cache, req[g].key)
  BY DEF Winner, BestCopy, Beats, Live, Copies, LiveSlots, SameCall
<1>. QED  BY <1>1 DEF ReadTask, SameCall

LEMMA OtherMap ==
  ASSUME Workload, MapInv, NEW h \in Handles, Client(h) \/ Run(h), NEW g \in Handles \ {h}
  PROVE  StoreTask(g)' /\ ReadTask(g)' /\ (Budget["cut"] > 0 => BackTask(g)')
<1>. TypeInv /\ LockInv /\ KeyInv /\ OneHandlePerProcess
  BY MapFacts DEF MapInv
<1>1. SameCall(g) /\ view'[g] = view[g] /\ clock' = clock
  BY StepOthers, ViewOthers DEF Client, Open, Close, Call, Run, Lock, LockTimeout, Scan, ScanInit, ScanOpen,
     ScanWrite, ScanDelete, ScanRepair, ScanCompact, ScanRead, Reread, Put, PutSync, Mark, MarkSync,
     ImageStep, ImageSync, Header
<1>2. CASE Writing(g)
  <2>1. UNCHANGED <<cache, media>>
    BY <1>2, Quiet
  <2>. QED  BY <1>1, <2>1, MapFacts, StoreKept, BackKept, ReadKept
<1>3. CASE ~Writing(g)
  <2>1. ~Writing(g)'
    BY <1>1, <1>3 DEF Writing, SameCall
  <2>2. ReadTask(g)'
    <3>1. CASE pc[g] = "reread"
      <4>1. Reading(g)
        BY <1>3, <3>1 DEF Reading, Writing, Rest
      <4>2. ~Writing(h)
        BY <4>1, ExclusionFromLocks DEF WriterExclusion
      <4>. QED  BY <1>1, <4>2, AwayCount, ReadKept, MapFacts
    <3>2. CASE pc[g] # "reread"
      BY <1>1, <3>2 DEF ReadTask, SameCall
    <3>. QED  BY <3>1, <3>2
  <2>. QED  BY <2>1, <2>2 DEF StoreTask, BackTask
<1>. QED  BY <1>2, <1>3

LEMMA KillMap ==
  ASSUME Workload, MapInv, NEW p \in Procs, Kill(p)
  PROVE  StoreInv'
<1>. TypeInv /\ FileInv
  BY MapFacts
<1>1. UNCHANGED <<cache, media, hdr, clock>>
  BY DEF Kill, file
<1>2. \A g \in Handles : ~Compacting(g)
  <2>1. budget["kill"] > 0 /\ budget["kill"] \in Nat
    BY DEF Kill, Spend, TypeInv, EnvTypeOK, Resources
  <2>2. Budget["kill"] # 0
    BY <2>1, Unspent DEF MapInv, Resources
  <2>3. "compact" \notin Kinds
    BY <2>2 DEF Workload
  <2>. QED  BY <2>3, MapFacts DEF Compacting, KindTask, Rest
<1>3. FileInv'
  BY <1>1, <1>2, FileKept
<1>4. ASSUME NEW g \in Handles
      PROVE  StoreTask(g)' /\ ReadTask(g)' /\ (Budget["cut"] > 0 => BackTask(g)')
  <2>1. CASE Ended(g)
    BY <2>1, StoreIdle DEF Ended, ReadTask, Rest
  <2>2. CASE SameCall(g) /\ view'[g] = view[g]
    BY <1>1, <2>2, MapFacts, StoreKept, BackKept, ReadKept
  <2>. QED  BY <2>1, <2>2, Elsewhere
<1>. QED  BY <1>3, <1>4 DEF StoreInv

LEMMA CutMap ==
  ASSUME Workload, MapInv, PowerCut
  PROVE  StoreInv'
<1>. TypeInv /\ FileInv /\ cache \in Image /\ media \in Image
  BY MapFacts
<1>1. Budget["cut"] > 0
  <2>1. budget["cut"] > 0 /\ budget["cut"] \in Nat
    BY DEF PowerCut, Spend, TypeInv, EnvTypeOK, Resources
  <2>2. Budget["cut"] # 0
    BY <2>1, Unspent DEF MapInv, Resources
  <2>. QED  BY <2>2, MapFacts
<1>2. SyncInv /\ "compact" \notin Kinds /\ "repair" \notin Kinds
  BY <1>1, MapFacts DEF Workload, MapInv
<1>3. \A g \in Handles : ~Compacting(g)
  BY <1>2, MapFacts DEF Compacting, KindTask, Rest
<1>4. Sane(cache) /\ Sane(media)
  BY <1>3 DEF FileInv
<1>5. \A i \in Slots : cache'[i] \in Survivors(cache[i], media[i])
  BY CutLeaves
<1>6. cache' \in Image /\ media' = cache' /\ hdr' = hdr /\ clock' = clock
  <2>1. TypeInv'
    BY TypeStep DEF Next
  <2>. QED  BY <2>1 DEF TypeInv, FileTypeOK, PowerCut
<1>7. Sane(cache')
  <2>1. CASE media = cache
    <3>1. \A i \in Slots : cache'[i] = cache[i]
      BY <1>5, <2>1 DEF Survivors
    <3>2. cache' = cache
      BY <1>6, <3>1 DEF Image
    <3>. QED  BY <1>4, <3>2
  <2>2. CASE media # cache
    <3>1. PICK h \in Handles : pc[h] \in Unsynced
      BY <1>2, <2>2 DEF SyncInv, MediaInv, FileSynced
    <3>2. KindTask(h) /\ Writing(h) /\ MediaTask(h) /\ StoreTask(h) /\ BackTask(h) /\ Course(h)
      BY <1>1, <1>2, <3>1, MapFacts, UnsyncedWrites DEF SyncInv, MediaInv
    <3>3. CASE pc[h] \in {"putsync", "marksync"}
      <4>1. \E d \in Slots : \A j \in Slots \ {d} : media[j] = cache[j]
        <5>1. CASE pc[h] = "putsync"
          <6>1. PICK t \in Slots : job[h].todo = {t}
            BY <3>2, <5>1 DEF Course, PutCourse
          <6>. QED  BY <3>2, <5>1, <6>1 DEF MediaTask
        <5>2. CASE pc[h] = "marksync"
          <6>1. NextSlot(h) \in Slots
            BY <5>2, WriteTypes
          <6>. QED  BY <3>2, <5>2, <6>1 DEF MediaTask
        <5>. QED  BY <3>3, <5>1, <5>2
      <4>. QED  BY <1>1, <1>4, <1>5, <1>6, <4>1, CutSane
    <3>4. CASE pc[h] \in {"image", "imgsync"}
      <4>1. req[h].kind = "init"
        BY <1>2, <3>2, <3>4 DEF KindTask, Rest
      <4>2. Unused(cache) /\ Unused(media)
        BY <3>2, <3>4, <4>1 DEF StoreTask, BackTask, At
      <4>3. \A i \in Slots : cache'[i].state \in {cache[i].state, media[i].state}
        BY <1>5 DEF Survivors, TornRecs, EmptyRec
      <4>4. Unused(cache')
        BY <4>2, <4>3 DEF Unused, Used
      <4>5. Budget["cut"] # 0
        BY <1>1, RobustCfgAssumption DEF Resources
      <4>. QED  BY <4>4, <4>5, UnusedSane
    <3>. QED  BY <3>1, <3>3, <3>4 DEF Unsynced
  <2>. QED  BY <2>1, <2>2
<1>8. hdr'.st # "ok" => Missing(cache') /\ Missing(media')
  <2>. SUFFICES ASSUME hdr'.st # "ok" PROVE Missing(cache')
    BY <1>6 DEF Missing
  <2>1. \A i \in Slots : cache[i] = AbsentRec /\ media[i] = AbsentRec
    BY <1>6 DEF FileInv, Missing
  <2>. QED  BY <1>5, <2>1 DEF Missing, Survivors
<1>9. FileInv'
  <2>1. Sane(cache)' = Sane(cache') /\ Sane(media)' = Sane(media')
    BY <1>6 DEF Sane, Packed, Ordered, Dated, Clean, Used, LiveSlots
  <2>. QED  BY <1>6, <1>7, <1>8, <2>1 DEF FileInv, Missing
<1>10. \A g \in Handles : pc'[g] = "closed"
  BY DEF PowerCut, Gone
<1>11. \A g \in Handles : StoreTask(g)' /\ BackTask(g)' /\ ReadTask(g)'
  BY <1>10, StoreIdle DEF ReadTask, Rest
<1>. QED  BY <1>9, <1>11 DEF StoreInv

LEMMA TimeMap ==
  ASSUME Workload, MapInv, Time
  PROVE  StoreInv'
<1>. TypeInv /\ FileInv /\ cache \in Image /\ media \in Image
  BY MapFacts
<1>1. UNCHANGED <<cache, media, hdr, pc, req, job, view>> /\ clock' = clock + 1 /\ clock \in Nat
  BY MapFacts DEF Time, Tick, StepBack, file, Workload
<1>2. \A o \in Image : Sane(o) => Sane(o)'
  BY <1>1, SaneLater
<1>3. (Sane(cache) => Sane(cache)') /\ (Sane(media) => Sane(media)')
  <2>1. PICK a \in Image, b \in Image : a = cache /\ b = media
    OBVIOUS
  <2>2. (Sane(a) => Sane(a)') /\ (Sane(b) => Sane(b)')
    BY <1>2
  <2>. QED  BY <1>1, <2>1, <2>2 DEF Sane, Packed, Ordered, Dated, Clean, Used, LiveSlots
<1>4. FileInv'
  BY <1>1, <1>3 DEF FileInv, Missing, Compacting
<1>5. ASSUME NEW g \in Handles
      PROVE  StoreTask(g)' /\ ReadTask(g)' /\ (Budget["cut"] > 0 => BackTask(g)')
  <2>1. StoreTask(g) /\ ReadTask(g) /\ SameCall(g) /\ view'[g] = view[g]
    BY <1>1, MapFacts DEF SameCall
  <2>2. ReadTask(g)' /\ (Budget["cut"] > 0 => BackTask(g)')
    BY <1>1, <2>1, MapFacts, BackKept, ReadKept
  <2>3. StoreTask(g)'
    <3>. SUFFICES ASSUME Writing(g) PROVE StoreTask(g)'
      BY <2>1 DEF StoreTask, Writing, SameCall
    <3>1. Contents' = Contents /\ (\A k : LastCopy(cache, k)' = LastCopy(cache, k))
          /\ LiveSlots(cache)' = LiveSlots(cache) /\ Unused(cache)' = Unused(cache)
          /\ ScrubSlots(cache)' = ScrubSlots(cache)
      BY <1>1, StillMap
    <3>2. NextSlot(g)' = NextSlot(g) /\ Applied(g)' = Applied(g) /\ Unused(media)' = Unused(media)
      BY <1>1 DEF NextSlot, Applied, Unused
    <3>3. Before(g)' = Before(g) /\ After(g)' = After(g)
      BY <1>1, <3>2 DEF Before, After, LastMarked, At
    <3>4. ASSUME pc[g] = "put", NEW t \in job[g].todo PROVE job[g].plan[t].ts <= clock'
      <4>1. t \in Slots /\ job[g].plan[t].ts \in Nat
        BY <3>4, CallFacts DEF Job, Image, Record
      <4>2. job[g].plan[t].ts <= clock
        BY <3>4, <2>1 DEF StoreTask
      <4>. QED  BY <1>1, <4>1, <4>2
    <3>5. ASSUME NEW o \in Image, Compacted(g, o), Sane(o) PROVE Compacted(g, o)' /\ Sane(o)'
      BY <1>1, <1>2, <3>5 DEF Compacted
    <3>. QED  BY <1>1, <2>1, <3>1, <3>2, <3>3, <3>4, <3>5 DEF StoreTask, At
  <2>. QED  BY <2>1, <2>2, <2>3
<1>. QED  BY <1>4, <1>5 DEF StoreInv

LEMMA MapInvStep ==
  ASSUME Workload, MapInv, [Next]_vars
  PROVE  MapInv'
<1>. TypeInv /\ KeyInv /\ NoFaults /\ FileInv /\ OneHandlePerProcess
  BY MapFacts DEF MapInv
<1>1. KeyInv' /\ KindInv' /\ BudgetInv' /\ CourseInv'
  BY KeyStep, KindInvStep, NothingYet, CourseInvStep DEF MapInv
<1>2. Budget["cut"] > 0 => SyncInv'
  BY MapFacts, SyncInvStep DEF MapInv, Workload
<1>3. ASSUME NEW h \in Handles, Client(h) \/ Run(h) PROVE StoreInv'
  BY <1>3, OwnMap, OwnRead, OtherMap DEF StoreInv
<1>4. ASSUME UNCHANGED vars PROVE StoreInv'
  <2>1. \A g \in Handles : SameCall(g) /\ view'[g] = view[g]
    BY <1>4 DEF vars, SameCall
  <2>2. UNCHANGED <<cache, media, hdr, clock>>
    BY <1>4 DEF vars
  <2>3. FileInv'
    BY <2>1, <2>2, FileKept DEF Compacting, SameCall
  <2>4. \A g \in Handles : StoreTask(g)' /\ ReadTask(g)' /\ (Budget["cut"] > 0 => BackTask(g)')
    BY <2>1, <2>2, MapFacts, StoreKept, BackKept, ReadKept
  <2>. QED  BY <2>3, <2>4 DEF StoreInv
<1>5. StoreInv'
  BY <1>3, <1>4, KillMap, CutMap, TimeMap, NothingFails DEF Next
<1>. QED  BY <1>1, <1>2, <1>5 DEF MapInv

LEMMA MapInvInit == ASSUME Workload, Init PROVE MapInv
<1>1. KeyInv /\ KindInv /\ BudgetInv
  BY KeyInit, KindInit, RobustCfgAssumption DEF Init, BudgetInv
<1>2. CourseInv
  BY DEF Init, CourseInv, Course, At
<1>3. Budget["cut"] > 0 => SyncInv
  BY SyncInvInit, RobustCfgAssumption DEF Workload, Resources
<1>4. \A i \in Slots : cache[i] \in {EmptyRec, AbsentRec} /\ (~StartOpen => cache[i] = AbsentRec)
  BY DEF Init
<1>5. ~Used(EmptyRec) /\ ~Used(AbsentRec) /\ EmptyRec.good /\ AbsentRec.good
      /\ EmptyRec.state = "EMPTY" /\ AbsentRec.state = "ABSENT"
  BY DEF Used, EmptyRec, AbsentRec
<1>6. Unused(cache) /\ Clean(cache)
  BY <1>4, <1>5 DEF Unused, Clean
<1>7. Sane(cache)
  BY <1>6, UnusedSane
<1>8. FileInv
  BY <1>4, <1>7 DEF Init, FileInv, Missing
<1>9. \A h \in Handles : StoreTask(h) /\ ReadTask(h) /\ BackTask(h)
  BY DEF Init, StoreTask, ReadTask, BackTask, Writing, Rest
<1>. QED  BY <1>1, <1>2, <1>3, <1>8, <1>9 DEF MapInv, StoreInv

-----------------------------------------------------------------------------
(***************************************************************************)
(* The library implements KVStore.  A call begins when it is made and      *)
(* takes effect when it gives up its lock, by returning or by being cut    *)
(* short; until then the map is what it was when the lock was taken.       *)
(***************************************************************************)
MapRead == /\ \A g \in Handles : Writing(g) => StoreNow = view[g]
           /\ (\A g \in Handles : ~Writing(g)) => StoreNow = Contents

LEMMA StoreIs == ASSUME OneHandlePerProcess, LockInv PROVE MapRead
<1>1. ASSUME NEW g \in Handles, Writing(g) PROVE StoreNow = view[g]
  <2>1. \A h \in Handles : Writing(h) => h = g
    BY <1>1, ExclusionFromLocks DEF WriterExclusion
  <2>2. (CHOOSE h \in Handles : Writing(h)) = g
    BY <1>1, <2>1
  <2>. QED  BY <1>1, <2>2 DEF StoreNow
<1>. QED  BY <1>1 DEF MapRead, StoreNow

\* What a step of a handle does to the map.
LEMMA StoreMoves ==
  ASSUME OneHandlePerProcess, Workload, MapInv, NEW h \in Handles, Client(h) \/ Run(h)
  PROVE  /\ Writing(h)  => StoreNow = view[h]
         /\ Writing(h)' => StoreNow' = view'[h]
         /\ ~Writing(h) /\ ~Writing(h)' => StoreNow' = StoreNow
         /\ Writing(h) /\ ~Writing(h)'  => StoreNow' = Contents'
         /\ ~Writing(h) /\ Writing(h)'  => StoreNow = Contents
         /\ Reading(h) => StoreNow = Contents
<1>. TypeInv /\ LockInv /\ KeyInv
  BY MapFacts DEF MapInv
<1>1. LockInv'
  BY KeyStep DEF Next, KeyInv
<1>2. MapRead /\ MapRead' /\ WriterExclusion /\ WriterExclusion'
  <2>1. MapRead /\ WriterExclusion
    BY StoreIs, ExclusionFromLocks
  <2>2. MapRead'
    BY <1>1, StoreIs, PTL
  <2>3. WriterExclusion'
    BY <1>1, ExclusionFromLocks, PTL
  <2>. QED  BY <2>1, <2>2, <2>3
<1>3. \A g \in Handles \ {h} : Writing(g)' = Writing(g) /\ view'[g] = view[g]
  BY StepOthers, ViewOthers DEF SameCall, Writing
<1>4. ASSUME ~Writing(h), ~Writing(h)' PROVE StoreNow' = StoreNow
  <2>1. CASE \E g \in Handles : Writing(g)
    <3>1. PICK g \in Handles : Writing(g)
      BY <2>1
    <3>2. g \in Handles \ {h}
      BY <1>4, <3>1
    <3>3. Writing(g)' /\ view'[g] = view[g]
      BY <1>3, <3>1, <3>2
    <3>. QED  BY <1>2, <3>1, <3>3 DEF MapRead
  <2>2. CASE \A g \in Handles : ~Writing(g)
    <3>1. \A g \in Handles : ~Writing(g)'
      BY <1>3, <1>4, <2>2
    <3>2. Contents' = Contents
      BY <1>4, AwayCount, StillMap, MapFacts
    <3>. QED  BY <1>2, <2>2, <3>1, <3>2 DEF MapRead
  <2>. QED  BY <2>1, <2>2
<1>5. ASSUME Writing(h), ~Writing(h)' PROVE StoreNow' = Contents'
  <2>1. \A g \in Handles \ {h} : ~Writing(g)
    BY <1>2, <1>5 DEF WriterExclusion
  <2>2. \A g \in Handles : ~Writing(g)'
    BY <1>3, <1>5, <2>1
  <2>. QED  BY <1>2, <2>2 DEF MapRead
<1>6. ASSUME ~Writing(h), Writing(h)' PROVE StoreNow = Contents
  <2>1. \A g \in Handles \ {h} : ~Writing(g)'
    BY <1>2, <1>6 DEF WriterExclusion
  <2>2. \A g \in Handles : ~Writing(g)
    BY <1>3, <1>6, <2>1
  <2>. QED  BY <1>2, <2>2 DEF MapRead
<1>7. ASSUME Reading(h) PROVE StoreNow = Contents
  <2>1. \A g \in Handles : ~Writing(g)
    BY <1>2, <1>7 DEF WriterExclusion, Reading, Writing
  <2>. QED  BY <1>2, <2>1 DEF MapRead
<1>8. /\ Writing(h) => StoreNow = view[h]
      /\ Writing(h)' => StoreNow' = view'[h]
  BY <1>2 DEF MapRead
<1>. QED  BY <1>4, <1>5, <1>6, <1>7, <1>8

\* The request a client waits for; an open is none of its calls.
PendOf(r) == IF r.kind \in {"init", "open"} THEN NoReq ELSE r

LEMMA PendMoves ==
  ASSUME TypeInv, NEW h \in Handles, Client(h) \/ Run(h)
  PROVE  /\ PendNow[h] = PendOf(req[h])
         /\ PendNow' = [PendNow EXCEPT ![h] = PendOf(req'[h])]
         /\ ret' = [ret EXCEPT ![h] = ret'[h]]
         /\ KV!None = NoReq /\ KV!NoResp = NoRet
<1>1. \A g \in Handles \ {h} : req'[g] = req[g] /\ ret'[g] = ret[g]
  BY StepOthers, ViewOthers DEF SameCall
<1>2. PendNow' = [PendNow EXCEPT ![h] = PendOf(req'[h])]
  BY <1>1 DEF PendNow, PendOf
<1>3. TypeInv'
  BY TypeStep DEF Next
<1>4. ret' = [ret EXCEPT ![h] = ret'[h]]
  <2>1. ret \in [Handles -> [rc : Codes, val : Vals \cup {NoVal}]]
        /\ ret' \in [Handles -> [rc : Codes, val : Vals \cup {NoVal}]]
    BY <1>3, CallFacts DEF TypeInv, CallInv, CallTypeOK
  <2>. QED  BY <1>1, <2>1
<1>. QED  BY <1>2, <1>4 DEF PendNow, PendOf, KV!None, NoReq, KV!NoResp, NoRet

LEMMA StutterMaps ==
  ASSUME TypeInv, NEW h \in Handles, Client(h) \/ Run(h),
         StoreNow' = StoreNow, ret'[h] = ret[h], PendOf(req'[h]) = PendOf(req[h])
  PROVE  UNCHANGED KV!vars
<1>1. PendNow' = PendNow /\ ret' = ret
  <2>1. /\ PendNow' = [PendNow EXCEPT ![h] = PendNow[h]]
        /\ ret' = [ret EXCEPT ![h] = ret[h]]
    BY PendMoves
  <2>2. ret \in [Handles -> [rc : Codes, val : Vals \cup {NoVal}]]
    BY CallFacts
  <2>. QED  BY <2>1, <2>2 DEF PendNow
<1>. QED  BY <1>1 DEF KV!vars

\* A call of a client that ends, with answer a.
LEMMA AnswerMaps ==
  ASSUME TypeInv, NEW h \in Handles, Client(h) \/ Run(h), KindTask(h), pc[h] \notin Rest,
         req[h].kind \notin {"init", "open"}, req'[h] = NoReq, NEW a, ret'[h] = a
  PROVE  KV!Answer(h, a) /\ PendNow[h] = req[h]
<1>1. /\ PendNow[h] = PendOf(req[h])
      /\ PendNow' = [PendNow EXCEPT ![h] = PendOf(NoReq)]
      /\ ret' = [ret EXCEPT ![h] = a] /\ KV!None = NoReq
  BY PendMoves
<1>2. PendOf(NoReq) = NoReq /\ PendOf(req[h]) = req[h]
  BY DEF PendOf, NoReq
<1>3. req[h].kind # NoReq.kind
  BY RobustCfgAssumption DEF KindTask, NoReq
<1>. QED  BY <1>1, <1>2, <1>3 DEF KV!Answer

LEMMA ReturnEffect ==
  ASSUME TypeInv, NEW h \in Handles, NEW rc, NEW v, Return(h, rc, v)
  PROVE  pc'[h] = "ready" /\ req'[h] = NoReq /\ ret'[h] = [rc |-> rc, val |-> v]
BY CallFacts DEF Return, Release, Goto

LEMMA OpenEffect ==
  ASSUME TypeInv, NEW h \in Handles, FailOpen(h) \/ Opened(h)
  PROVE  pc'[h] \in Rest /\ req'[h] = NoReq /\ ret'[h] = ret[h]
BY CallFacts DEF FailOpen, Opened, Release, Goto, Rest

\* What a call that succeeds returns, and what it makes of the map.
LEMMA OutcomeOf ==
  ASSUME NEW r
  PROVE  /\ r.kind \in {"read", "delete"} /\ StoreNow[r.key] = NoVal =>
              KV!Outcome(r) = [rc |-> "NOT_FOUND", val |-> NoVal]
         /\ r.kind = "read" /\ StoreNow[r.key] # NoVal =>
              KV!Outcome(r) = [rc |-> "OK", val |-> StoreNow[r.key]]
         /\ r.kind = "delete" /\ StoreNow[r.key] # NoVal =>
              KV!Outcome(r) = [rc |-> "OK", val |-> NoVal]
         /\ r.kind \notin {"read", "delete"} => KV!Outcome(r) = [rc |-> "OK", val |-> NoVal]
BY DEF KV!Outcome

LEMMA EffectOf ==
  ASSUME NEW r
  PROVE  /\ r.kind \in {"write", "delete"} => KV!Effect(r) = [StoreNow EXCEPT ![r.key] = r.val]
         /\ r.kind \notin {"write", "delete"} => KV!Effect(r) = StoreNow
BY DEF KV!Effect

LEMMA ClientMaps ==
  ASSUME Workload, MapInv, NEW h \in Handles, Client(h)
  PROVE  KV!Invoke(h) \/ UNCHANGED KV!vars
<1>. TypeInv /\ KindTask(h) /\ OneHandlePerProcess
  BY MapFacts
<1>1. pc[h] \in Rest /\ req[h] = NoReq /\ PendOf(req[h]) = NoReq
  BY DEF Client, Open, Close, Call, KindTask, Rest, PendOf, NoReq
<1>2. StoreNow' = StoreNow
  <2>1. \A l : Goto(h, l) => pc'[h] = l
    BY CallFacts DEF Goto
  <2>2. pc'[h] \in Rest \cup {"lock"}
    BY <2>1 DEF Client, Open, Close, Call, Rest
  <2>3. ~Writing(h) /\ ~Writing(h)'
    BY <1>1, <2>2 DEF Writing
  <2>. QED  BY <2>3, StoreMoves
<1>3. CASE Open(h)
  <2>1. req'[h].kind \in {"init", "open"} /\ ret' = ret
    BY <1>3, CallFacts DEF Open, NoReq
  <2>. QED  BY <1>1, <1>2, <2>1, StutterMaps DEF PendOf
<1>4. CASE Close(h)
  BY <1>1, <1>2, <1>4, StutterMaps DEF Close
<1>5. ASSUME NEW r \in Requests, Call(h, r) PROVE KV!Invoke(h)
  <2>1. req'[h] = r /\ ret'[h] = NoRet /\ r.kind \in Kinds
    BY <1>5, CallFacts DEF Call
  <2>2. PendOf(r) = r /\ r.kind \in {"write", "read", "delete", "repair", "compact"}
    BY <2>1, RobustCfgAssumption DEF PendOf
  <2>3. r = [kind |-> r.kind, key |-> r.key, val |-> r.val]
        /\ r.key \in Keys \cup {NoKey} /\ r.val \in Vals \cup {NoVal}
    BY DEF Requests
  <2>4. /\ PendNow[h] = KV!None /\ PendNow' = [PendNow EXCEPT ![h] = r]
        /\ ret' = [ret EXCEPT ![h] = KV!NoResp]
    BY <1>1, <1>5, <2>1, <2>2, PendMoves
  <2>. QED  BY <1>2, <2>2, <2>3, <2>4 DEF KV!Invoke
<1>. QED  BY <1>3, <1>4, <1>5 DEF Client

LEMMA LockMaps ==
  ASSUME Workload, MapInv, NEW h \in Handles, Lock(h) \/ LockTimeout(h)
  PROVE  KV!Refuse(h) \/ UNCHANGED KV!vars
<1>. TypeInv /\ KindTask(h) /\ OneHandlePerProcess /\ Run(h)
  BY MapFacts DEF Run
<1>1. pc[h] = "lock" /\ ~Writing(h)
  BY DEF Lock, LockTimeout, Writing
<1>2. CASE Lock(h)
  <2>1. pc'[h] = "scan" /\ req' = req /\ ret' = ret
        /\ view'[h] = IF req[h].kind = "read" THEN Absent ELSE Contents
    BY <1>2, CallFacts DEF Lock, Goto
  <2>2. StoreNow' = StoreNow
    BY <1>1, <2>1, StoreMoves DEF Writing, Rest
  <2>. QED  BY <2>1, <2>2, StutterMaps
<1>3. CASE LockTimeout(h)
  <2>1. pc'[h] \in Rest /\ req'[h] = NoReq
    BY <1>3, CallFacts, OpenEffect DEF LockTimeout, Goto, Rest
  <2>2. StoreNow' = StoreNow
    BY <1>1, <2>1, StoreMoves DEF Writing
  <2>3. CASE req[h].kind \in {"init", "open"}
    <3>1. ret'[h] = ret[h] /\ PendOf(req'[h]) = PendOf(req[h])
      BY <1>3, <2>1, <2>3, OpenEffect DEF LockTimeout, PendOf, NoReq
    <3>. QED  BY <2>2, <3>1, StutterMaps
  <2>4. CASE req[h].kind \notin {"init", "open"}
    <3>1. ret'[h] = [rc |-> "TIMEOUT", val |-> NoVal]
      BY <1>3, <2>4, CallFacts DEF LockTimeout
    <3>2. KV!Answer(h, [rc |-> "TIMEOUT", val |-> NoVal])
      BY <1>1, <2>1, <2>4, <3>1, AnswerMaps DEF Rest
    <3>. QED  BY <2>2, <3>2 DEF KV!Refuse
  <2>. QED  BY <2>3, <2>4
<1>. QED  BY <1>2, <1>3

\* A read returns what the map holds.
LEMMA ReadMaps ==
  ASSUME Workload, MapInv, NEW h \in Handles, ScanRead(h) \/ Reread(h)
  PROVE  KV!Apply(h) \/ UNCHANGED KV!vars
<1>. /\ TypeInv /\ KindTask(h) /\ ReadTask(h) /\ OneHandlePerProcess /\ Run(h)
     /\ cache \in Image /\ FileInv
  BY MapFacts DEF Run, Scan
<1>. DEFINE k == req[h].key
<1>1. /\ pc[h] \in {"scan", "reread"} /\ req[h].kind = "read" /\ Reading(h) /\ ~Writing(h)
      /\ Inside(h) /\ ~Compacting(h)
  BY DEF ScanRead, Reread, At, KindTask, Reading, Writing, Inside, Compacting, Rest
<1>2. k \in Keys
  BY <1>1, CallFacts, RequestTypes
<1>3. StoreNow[k] = Visible(cache, k)
  BY <1>1, <1>2, StoreMoves DEF Contents
<1>4. Live(cache, k) => Visible(cache, k) # NoVal
  <2>1. Sane(cache)
    BY <1>1, CacheSane, MapFacts DEF MapInv
  <2>. QED  BY <2>1, ValueThere DEF Sane
<1>5. ASSUME NEW rc, NEW v, Return(h, rc, v), [rc |-> rc, val |-> v] = KV!Outcome(req[h])
      PROVE  KV!Apply(h)
  <2>1. pc'[h] \in Rest /\ req'[h] = NoReq /\ ret'[h] = [rc |-> rc, val |-> v]
    BY <1>5, ReturnEffect DEF Rest
  <2>2. KV!Answer(h, KV!Outcome(req[h])) /\ PendNow[h] = req[h]
    BY <1>1, <1>5, <2>1, AnswerMaps DEF Rest
  <2>3. StoreNow' = KV!Effect(req[h])
    BY <1>1, <2>1, StoreMoves, EffectOf DEF Writing
  <2>. QED  BY <2>2, <2>3 DEF KV!Apply
<1>6. CASE ScanRead(h)
  <2>. DEFINE w == Winner(cache, k)
  <2>1. CASE w = NoSlot /\ Return(h, "NOT_FOUND", NoVal)
    <3>1. ~Live(cache, k)
      BY <2>1, ScanResults, CopiesAreSlots, NoSlotIsNone DEF LiveSlots
    <3>2. StoreNow[k] = NoVal
      BY <1>3, <3>1 DEF Visible
    <3>3. [rc |-> "NOT_FOUND", val |-> NoVal] = KV!Outcome(req[h])
      BY <1>1, <3>2, OutcomeOf
    <3>. QED  BY <1>5, <2>1, <3>3
  <2>2. CASE Plan(h, "reread", {}, BlankImage, w, 0)
    <3>1. pc'[h] = "reread" /\ req' = req
      BY <2>2, PlanEffect
    <3>2. ret' = ret
      BY <2>2 DEF Plan
    <3>3. StoreNow' = StoreNow
      BY <1>1, <3>1, StoreMoves DEF Writing
    <3>. QED  BY <3>1, <3>2, <3>3, StutterMaps
  <2>. QED  BY <1>6, <2>1, <2>2 DEF ScanRead
<1>7. CASE Reread(h)
  <2>. DEFINE w == job[h].old
  <2>1. w = Winner(cache, k) /\ w # NoSlot
    BY <1>7 DEF Reread, ReadTask
  <2>2. Live(cache, k)
    BY <2>1 DEF Winner
  <2>3. LiveRec(cache[w]) /\ Visible(cache, k) = cache[w].val
    BY <2>1, <2>2, ScanResults, CopiesInSlots DEF Visible
  <2>4. Return(h, "OK", cache[w].val)
    BY <1>7, <2>3 DEF Reread, LiveRec
  <2>5. [rc |-> "OK", val |-> cache[w].val] = KV!Outcome(req[h])
    BY <1>1, <1>3, <1>4, <2>2, <2>3, OutcomeOf
  <2>. QED  BY <1>5, <2>4, <2>5
<1>. QED  BY <1>6, <1>7

\* Until it gives up its lock a call that writes shows nothing of what it does.
LEMMA GoesOn ==
  ASSUME TypeInv, NEW h \in Handles, KindTask(h), Writing(h), Run(h), pc'[h] \notin Rest
  PROVE  Writing(h)' /\ req'[h] = req[h] /\ view'[h] = view[h] /\ ret'[h] = ret[h]
<1>1. Writing(h)' /\ req'[h] = req[h]
  BY StaysWriting
<1>2. \A l : Goto(h, l) => pc'[h] = l
  BY CallFacts DEF Goto
<1>3. ~Lock(h) /\ ~LockTimeout(h) /\ ~Reread(h) /\ ~Header(h)
  BY ReturnIdle DEF Writing, Lock, LockTimeout, Reread, Header, KindTask, Rest
<1>4. view' = view /\ ret' = ret
  <2>1. CASE Scan(h)
    <3>1. CASE ScanInit(h) \/ ScanOpen(h) \/ ScanWrite(h) \/ ScanDelete(h)
      BY <3>1, ReturnIdle DEF ScanInit, ScanOpen, ScanWrite, ScanDelete, Plan
    <3>2. CASE ScanRepair(h) \/ ScanCompact(h) \/ ScanRead(h)
      BY <3>2, ReturnIdle DEF ScanRepair, ScanCompact, ScanRead, Plan
    <3>. QED  BY <2>1, <3>1, <3>2 DEF Scan
  <2>2. CASE Put(h) \/ PutSync(h) \/ Mark(h) \/ MarkSync(h) \/ ImageStep(h) \/ ImageSync(h)
    BY <2>2, ReturnIdle DEF Put, PutSync, Mark, MarkSync, ImageStep, ImageSync
  <2>. QED  BY <1>3, <2>1, <2>2 DEF Run
<1>. QED  BY <1>1, <1>4

LEMMA WhoLeaves ==
  ASSUME TypeInv, NEW h \in Handles, KindTask(h), Course(h), Writing(h), Run(h), pc'[h] \in Rest
  PROVE  ScanOpen(h) \/ ScanWrite(h) \/ ScanDelete(h) \/ Header(h)
<1>1. \A l : Goto(h, l) => pc'[h] = l
  BY CallFacts DEF Goto
<1>2. ~Lock(h) /\ ~LockTimeout(h) /\ ~Reread(h) /\ ~ScanRead(h)
  BY DEF Writing, Lock, LockTimeout, Reread, ScanRead, At, KindTask, Rest
<1>3. ~ScanInit(h) /\ ~ScanRepair(h) /\ ~ScanCompact(h)
  BY <1>1 DEF ScanInit, ScanRepair, ScanCompact, Plan, Rest
<1>4. ~Put(h) /\ ~Mark(h) /\ ~MarkSync(h) /\ ~ImageStep(h) /\ ~ImageSync(h)
  BY <1>1 DEF Put, Mark, MarkSync, ImageStep, ImageSync, AfterMark, Rest
<1>5. ~PutSync(h)
  BY PutSyncMoves DEF Rest
<1>. QED  BY <1>2, <1>3, <1>4, <1>5 DEF Run, Scan

LEMMA BeforeOrAfter ==
  ASSUME NEW g \in Handles, KindTask(g), Writing(g), ~Compacting(g)
  PROVE  Before(g) \/ (After(g) /\ req[g].kind \in {"write", "delete"})
<1>1. req[g].kind \in {"init", "open", "write", "delete", "repair", "compact"}
  BY RobustCfgAssumption DEF KindTask, Writing
<1>. QED  BY <1>1 DEF Before, After, LastMarked, Compacting, At

\* A call that gives up before it writes anything.
LEMMA ScanEndMaps ==
  ASSUME Workload, MapInv, NEW h \in Handles, ScanOpen(h) \/ ScanWrite(h) \/ ScanDelete(h), pc'[h] \in Rest
  PROVE  KV!Apply(h) \/ KV!Refuse(h) \/ UNCHANGED KV!vars
<1>. /\ TypeInv /\ KindTask(h) /\ StoreTask(h) /\ OneHandlePerProcess /\ Run(h)
  BY MapFacts DEF Run, Scan
<1>. DEFINE k == req[h].key
<1>1. pc[h] = "scan" /\ Writing(h) /\ ~Writing(h)' /\ cache' = cache
  BY DEF ScanOpen, ScanWrite, ScanDelete, At, Writing, Rest, file
<1>2. StoreNow = Contents /\ StoreNow' = StoreNow
  <2>1. StoreNow = view[h] /\ StoreNow' = Contents'
    BY <1>1, StoreMoves
  <2>2. Contents = view[h] /\ Contents' = Contents
    BY <1>1, StillMap DEF StoreTask, Before
  <2>. QED  BY <2>1, <2>2
<1>3. \A l : Goto(h, l) => pc'[h] = l
  BY CallFacts DEF Goto
<1>4. CASE ScanOpen(h)
  <2>1. FailOpen(h) /\ req[h].kind = "open"
    BY <1>3, <1>4 DEF ScanOpen, At, Plan, Rest
  <2>2. ret'[h] = ret[h] /\ PendOf(req'[h]) = PendOf(req[h])
    BY <2>1, OpenEffect DEF PendOf, NoReq
  <2>. QED  BY <1>2, <2>2, StutterMaps
<1>5. CASE ScanWrite(h)
  <2>1. Return(h, "FULL", NoVal) /\ req[h].kind = "write"
    BY <1>3, <1>5 DEF ScanWrite, At, Plan, Rest
  <2>2. KV!Answer(h, [rc |-> "FULL", val |-> NoVal]) /\ PendNow[h] = req[h]
    BY <1>1, <2>1, AnswerMaps, ReturnEffect DEF Rest
  <2>. QED  BY <1>2, <2>1, <2>2 DEF KV!Refuse
<1>6. CASE ScanDelete(h)
  <2>1. Return(h, "NOT_FOUND", NoVal) /\ req[h].kind = "delete" /\ ~Live(cache, k)
    BY <1>3, <1>6 DEF ScanDelete, At, Plan, Live, Rest
  <2>2. k \in Keys /\ req[h].val = NoVal
    BY <2>1, DeleteGivesNothing
  <2>3. StoreNow[k] = NoVal
    BY <1>2, <2>1, <2>2 DEF Contents, Visible
  <2>4. KV!Outcome(req[h]) = [rc |-> "NOT_FOUND", val |-> NoVal]
    BY <2>1, <2>3, OutcomeOf
  <2>5. KV!Effect(req[h]) = StoreNow
    <3>1. KV!Effect(req[h]) = [StoreNow EXCEPT ![k] = NoVal]
      BY <2>1, <2>2, EffectOf
    <3>. HIDE DEF k
    <3>. QED  BY <1>2, <2>3, <3>1 DEF Contents
  <2>6. KV!Answer(h, KV!Outcome(req[h])) /\ PendNow[h] = req[h]
    BY <1>1, <2>1, <2>4, AnswerMaps, ReturnEffect DEF Rest
  <2>. QED  BY <1>2, <2>5, <2>6 DEF KV!Apply
<1>. QED  BY <1>4, <1>5, <1>6

LEMMA HeaderMaps ==
  ASSUME Workload, MapInv, NEW h \in Handles, Header(h)
  PROVE  KV!Apply(h) \/ UNCHANGED KV!vars
<1>. /\ TypeInv /\ KindTask(h) /\ StoreTask(h) /\ OneHandlePerProcess /\ Run(h)
  BY MapFacts DEF Run
<1>1. pc[h] = "hdr" /\ Finish(h) /\ cache' = cache /\ pc'[h] \in Rest
  BY ReturnIdle DEF Header
<1>2. /\ Writing(h) /\ ~Writing(h)' /\ ~Compacting(h)
      /\ req[h].kind \in {"init", "open", "write", "delete", "repair", "compact"}
  BY <1>1, RobustCfgAssumption DEF Writing, KindTask, Compacting, Rest
<1>3. StoreNow = view[h] /\ StoreNow' = Contents
  BY <1>1, <1>2, StoreMoves, StillMap
<1>4. CASE req[h].kind \in {"init", "open"}
  <2>1. Opened(h)
    BY <1>1, <1>4 DEF Finish
  <2>2. ret'[h] = ret[h] /\ PendOf(req'[h]) = PendOf(req[h])
    BY <1>4, <2>1, OpenEffect DEF PendOf, NoReq
  <2>3. StoreNow' = StoreNow
    BY <1>2, <1>3, <1>4 DEF StoreTask, Before
  <2>. QED  BY <2>2, <2>3, StutterMaps
<1>5. CASE req[h].kind \in {"write", "delete", "repair", "compact"}
  <2>1. Return(h, "OK", NoVal)
    BY <1>1, <1>2, <1>5 DEF Finish, StoreTask, At
  <2>2. req[h].kind = "delete" => StoreNow[req[h].key] # NoVal
    BY <1>1, <1>2, <1>3 DEF StoreTask
  <2>3. KV!Outcome(req[h]) = [rc |-> "OK", val |-> NoVal]
    BY <1>5, <2>2, OutcomeOf
  <2>4. KV!Answer(h, KV!Outcome(req[h])) /\ PendNow[h] = req[h]
    BY <1>1, <1>5, <2>1, <2>3, AnswerMaps, ReturnEffect DEF Rest
  <2>5. KV!Effect(req[h]) = Contents
    <3>1. CASE req[h].kind \in {"write", "delete"}
      BY <1>1, <1>2, <1>3, <3>1, EffectOf DEF StoreTask, After, LastMarked, Applied, At
    <3>2. CASE req[h].kind \in {"repair", "compact"}
      BY <1>1, <1>2, <1>3, <3>2, EffectOf DEF StoreTask, Before
    <3>. QED  BY <1>5, <3>1, <3>2
  <2>. QED  BY <1>3, <2>4, <2>5 DEF KV!Apply
<1>. QED  BY <1>2, <1>4, <1>5

LEMMA WriteMaps ==
  ASSUME Workload, MapInv, NEW h \in Handles, Writing(h), Run(h)
  PROVE  KV!Apply(h) \/ KV!Refuse(h) \/ UNCHANGED KV!vars
<1>. TypeInv /\ KindTask(h) /\ Course(h) /\ OneHandlePerProcess
  <2>1. CourseInv /\ NoErrorYet
    BY MapFacts DEF MapInv
  <2>. QED  BY <2>1, MapFacts DEF CourseInv
<1>1. CASE pc'[h] \notin Rest
  <2>1. Writing(h)' /\ req'[h] = req[h] /\ view'[h] = view[h] /\ ret'[h] = ret[h]
    BY <1>1, GoesOn
  <2>2. StoreNow' = StoreNow
    BY <2>1, StoreMoves
  <2>. QED  BY <2>1, <2>2, StutterMaps
<1>2. CASE pc'[h] \in Rest
  BY <1>2, WhoLeaves, ScanEndMaps, HeaderMaps
<1>. QED  BY <1>1, <1>2

\* Every step of a handle is one of the abstract store, or none.
LEMMA OwnMaps ==
  ASSUME Workload, MapInv, NEW h \in Handles, Client(h) \/ Run(h)
  PROVE  KV!Invoke(h) \/ KV!Apply(h) \/ KV!Refuse(h) \/ UNCHANGED KV!vars
<1>1. CASE Run(h) /\ ~Writing(h)
  <2>1. ~Scan(h) \/ ScanRead(h)
    BY <1>1, MapFacts DEF Scan, ScanInit, ScanOpen, ScanWrite, ScanDelete, ScanRepair, ScanCompact, At, Writing, Rest
  <2>2. ~Put(h) /\ ~PutSync(h) /\ ~Mark(h) /\ ~MarkSync(h) /\ ~ImageStep(h) /\ ~ImageSync(h) /\ ~Header(h)
    BY <1>1, MapFacts DEF Put, PutSync, Mark, MarkSync, ImageStep, ImageSync, Header, KindTask, Writing, Rest
  <2>. QED  BY <1>1, <2>1, <2>2, LockMaps, ReadMaps DEF Run
<1>. QED  BY <1>1, ClientMaps, WriteMaps

LEMMA KillMaps ==
  ASSUME OneHandlePerProcess, Workload, MapInv, NEW p \in Procs, Kill(p)
  PROVE  KV!Crash({h \in Handles : ProcOf[h] = p})
<1>. TypeInv /\ LockInv /\ KeyInv
  BY MapFacts DEF MapInv
<1>. DEFINE H == {h \in Handles : ProcOf[h] = p}
<1>1. Gone(H, {p}) /\ cache' = cache
  BY DEF Kill, file
<1>2. /\ \A h \in H : pc'[h] = "closed" /\ req'[h] = NoReq
      /\ \A h \in Handles \ H : SameCall(h) /\ view'[h] = view[h]
      /\ ret' = [h \in Handles |-> IF h \in H THEN NoRet ELSE ret[h]]
  BY <1>1 DEF Gone, SameCall
<1>3. MapRead /\ MapRead' /\ WriterExclusion
  <2>1. LockInv'
    BY KeyStep DEF Next, KeyInv
  <2>2. MapRead'
    BY <2>1, StoreIs, PTL
  <2>. QED  BY <2>2, StoreIs, ExclusionFromLocks
<1>4. KV!None = NoReq /\ KV!NoResp = NoRet
  BY DEF KV!None, NoReq, KV!NoResp, NoRet
<1>5. PendNow' = [h \in Handles |-> IF h \in H THEN KV!None ELSE PendNow[h]]
  <2>1. \A h \in H : PendNow'[h] = NoReq
    BY <1>2 DEF PendNow, NoReq
  <2>2. \A h \in Handles \ H : PendNow'[h] = PendNow[h]
    BY <1>2 DEF PendNow, SameCall
  <2>. QED  BY <1>4, <2>1, <2>2 DEF PendNow
<1>6. Contents' = Contents
  BY <1>1, StillMap
<1>. HIDE DEF H
<1>7. H \subseteq Handles
  BY DEF H
<1>8. \A h \in Handles : Writing(h)' <=> Writing(h) /\ h \notin H
  <2>1. \A h \in H : ~Writing(h)'
    BY <1>2 DEF Writing, Rest
  <2>2. \A h \in Handles \ H : Writing(h)' = Writing(h)
    BY <1>2 DEF Writing, SameCall
  <2>. QED  BY <1>7, <2>1, <2>2
<1>9. StoreNow' \in {StoreNow} \cup UNION {KV!Leaves(h) : h \in H}
  <2>1. CASE \A h \in Handles : ~Writing(h)
    BY <1>3, <1>6, <1>8, <2>1 DEF MapRead
  <2>2. ASSUME NEW w \in Handles, Writing(w), w \notin H
        PROVE  StoreNow' = StoreNow
    BY <1>2, <1>3, <1>8, <2>2 DEF MapRead
  <2>3. ASSUME NEW w \in H, Writing(w)
        PROVE  StoreNow' \in KV!Leaves(w)
    <3>1. \A h \in Handles : ~Writing(h)'
      BY <1>3, <1>7, <1>8, <2>3 DEF WriterExclusion
    <3>2. StoreNow' = Contents /\ StoreNow = view[w]
      BY <1>3, <1>6, <1>7, <2>3, <3>1 DEF MapRead
    <3>3. ~Compacting(w)
      <4>1. budget["kill"] > 0 /\ budget["kill"] \in Nat
        BY DEF Kill, Spend, TypeInv, EnvTypeOK, Resources
      <4>2. Budget["kill"] # 0
        BY <4>1, Unspent DEF MapInv, Resources
      <4>3. "compact" \notin Kinds
        BY <4>2 DEF Workload
      <4>. QED  BY <1>7, <4>3, MapFacts DEF Compacting, KindTask, Rest
    <3>4. StoreTask(w) /\ (Before(w) \/ (After(w) /\ req[w].kind \in {"write", "delete"}))
      BY <1>7, <2>3, <3>3, BeforeOrAfter, MapFacts
    <3>5. CASE Before(w)
      BY <2>3, <3>2, <3>4, <3>5 DEF StoreTask, KV!Leaves
    <3>6. CASE After(w) /\ req[w].kind \in {"write", "delete"}
      <4>1. PendNow[w] = req[w]
        BY <1>7, <3>6 DEF PendNow
      <4>2. KV!Effect(PendNow[w]) = Applied(w)
        BY <3>2, <3>6, <4>1, EffectOf DEF Applied
      <4>. QED  BY <2>3, <3>2, <3>4, <3>6, <4>2 DEF StoreTask, KV!Leaves
    <3>. QED  BY <3>4, <3>5, <3>6
  <2>. QED  BY <2>1, <2>2, <2>3
<1>. QED  BY <1>2, <1>4, <1>5, <1>9 DEF KV!Crash, H

\* A power cut leaves the map as it was, or with the effect of the call that was
\* writing, or with another value where that call wrote over the only record.
LEMMA CutLeavesMap ==
  ASSUME Workload, MapInv, PowerCut, NEW w \in Handles, Writing(w), StoreNow = view[w]
  PROVE  Contents' \in KV!Leaves(w)
<1>. /\ TypeInv /\ KindTask(w) /\ StoreTask(w) /\ cache \in Image /\ media \in Image
     /\ Contents = Map(cache) /\ OneHandlePerProcess /\ KeyInv /\ FileInv
  BY MapFacts DEF MapInv
<1>1. Budget["cut"] > 0
  <2>1. budget["cut"] > 0 /\ budget["cut"] \in Nat
    BY DEF PowerCut, Spend, TypeInv, EnvTypeOK, Resources
  <2>2. Budget["cut"] # 0
    BY <2>1, Unspent DEF MapInv, Resources
  <2>. QED  BY <2>2, MapFacts
<1>2. SyncInv /\ "compact" \notin Kinds /\ "repair" \notin Kinds /\ BackTask(w)
  BY <1>1, MapFacts DEF Workload, MapInv
<1>3. MediaTask(w) /\ Course(w) /\ FileSynced /\ KindInv
  BY <1>2 DEF SyncInv, CourseInv, MediaInv
<1>4. ~Compacting(w)
  BY <1>2 DEF Compacting, KindTask, Rest
<1>5. cache' \in Image
  <2>1. TypeInv'
    BY TypeStep DEF Next
  <2>. QED  BY <2>1 DEF TypeInv, FileTypeOK
<1>6. Contents' = Map(cache')
  BY DEF Contents, Map
<1>7. \A i \in Slots : /\ cache'[i] \in Survivors(cache[i], media[i])
                       /\ LiveRec(cache'[i]) => cache'[i] \in {cache[i], media[i]}
                       /\ media[i] = cache[i] => cache'[i] = cache[i]
  BY CutLeaves DEF Survivors
<1>8. Before(w) \/ (After(w) /\ req[w].kind \in {"write", "delete"})
  BY <1>4, BeforeOrAfter
\* The two outcomes every call may have.
<1>9. /\ view[w] \in KV!Leaves(w)
      /\ req[w].kind \in {"write", "delete"} => Applied(w) \in KV!Leaves(w)
      /\ Contents \in KV!Leaves(w)
  <2>1. view[w] \in KV!Leaves(w)
    BY DEF KV!Leaves
  <2>2. ASSUME req[w].kind \in {"write", "delete"} PROVE Applied(w) \in KV!Leaves(w)
    <3>1. PendNow[w] = req[w]
      BY <2>2 DEF PendNow
    <3>2. KV!Effect(PendNow[w]) = Applied(w)
      BY <2>2, <3>1, EffectOf DEF Applied
    <3>. QED  BY <3>2 DEF KV!Leaves
  <2>. QED  BY <1>8, <2>1, <2>2 DEF StoreTask
<1>10. CASE pc[w] \notin Unsynced
  <2>1. media = cache
    BY <1>3, <1>10, SyncedBefore
  <2>2. cache' = cache
    BY <1>5, <1>7, <2>1 DEF Image
  <2>. QED  BY <1>6, <1>9, <2>2
<1>11. CASE pc[w] \in {"image", "imgsync"}
  <2>1. req[w].kind = "init"
    BY <1>2, <1>11 DEF KindTask, Rest
  <2>2. Unused(cache) /\ Unused(media)
    BY <1>2, <1>11, <2>1 DEF StoreTask, BackTask, At
  <2>3. \A i \in Slots : ~LiveRec(cache[i]) /\ ~LiveRec(cache'[i])
    <3>1. \A i \in Slots : ~LiveRec(cache[i]) /\ ~LiveRec(media[i])
      BY <2>2 DEF Unused, Used, LiveRec
    <3>. QED  BY <1>7, <3>1
  <2>. QED  BY <1>5, <1>6, <1>9, <2>3, SameMap
<1>12. CASE pc[w] = "marksync"
  <2>. DEFINE d == NextSlot(w)
  <2>1. d \in Slots /\ ~LiveRec(cache[d]) /\ \A j \in Slots \ {d} : media[j] = cache[j]
    BY <1>2, <1>3, <1>12, WriteTypes DEF MediaTask, BackTask
  <2>2. Map(media) \in KV!Leaves(w)
    <3>1. req[w].kind \in {"write", "delete", "open"}
      BY <1>12 DEF KindTask
    <3>. QED  BY <1>2, <1>9, <1>12, <3>1 DEF BackTask, At
  <2>. HIDE DEF d
  <2>3. CASE cache'[d] = media[d]
    <3>1. cache' = media
      BY <1>5, <1>7, <2>1, <2>3 DEF Image
    <3>. QED  BY <1>6, <2>2, <3>1
  <2>4. CASE cache'[d] # media[d]
    <3>1. \A i \in Slots : cache'[i] = cache[i] \/ (~LiveRec(cache'[i]) /\ ~LiveRec(cache[i]))
      BY <1>7, <2>1, <2>4
    <3>2. Map(cache') = Map(cache)
      BY <1>5, <3>1, SameMap
    <3>. QED  BY <1>6, <1>9, <3>2
  <2>. QED  BY <2>3, <2>4
<1>13. CASE pc[w] = "putsync"
  <2>. DEFINE k == req[w].key
  <2>1. PICK d \in Slots : /\ job[w].todo = {d} /\ cache[d] = job[w].plan[d]
                           /\ job[w].plan[d] = NewRec(k, req[w].val, job[w].plan[d].ts)
    BY <1>3, <1>13 DEF Course, PutCourse
  <2>2. /\ req[w].kind = "write" /\ Map(media) = view[w] /\ Contents = Applied(w)
        /\ cache[d].key = k
    BY <1>2, <1>13, <2>1 DEF KindTask, BackTask, StoreTask, After, NewRec
  <2>3. \A j \in Slots \ {d} : media[j] = cache[j]
    BY <1>3, <1>13, <2>1 DEF MediaTask
  <2>4. media[d] = cache[d] \/ (LiveRec(media[d]) => job[w].old = d /\ media[d].key = k)
    BY <1>3, <1>13 DEF MediaTask
  <2>. HIDE DEF k
  <2>5. CASE cache'[d] = cache[d]
    <3>1. cache' = cache
      BY <1>5, <1>7, <2>3, <2>5 DEF Image
    <3>. QED  BY <1>6, <1>9, <3>1
  <2>6. CASE cache'[d] = media[d]
    <3>1. cache' = media
      BY <1>5, <1>7, <2>3, <2>6 DEF Image
    <3>. QED  BY <1>6, <1>9, <2>2, <3>1
  <2>7. CASE cache'[d] \notin {cache[d], media[d]} /\ ~LiveRec(media[d])
    <3>1. \A i \in Slots : cache'[i] = media[i] \/ (~LiveRec(cache'[i]) /\ ~LiveRec(media[i]))
      BY <1>7, <2>3, <2>7
    <3>2. Map(cache') = Map(media)
      BY <1>5, <3>1, SameMap
    <3>. QED  BY <1>6, <1>9, <2>2, <3>2
  <2>8. CASE cache'[d] \notin {cache[d], media[d]} /\ LiveRec(media[d])
    <3>1. job[w].old = d /\ media[d].key = k /\ ~LiveRec(cache'[d])
      BY <1>7, <2>4, <2>8
    <3>2. k \in Keys
      BY <2>2, CallFacts, RequestTypes DEF k
    <3>3. \A c \in Keys \ {k} : Visible(cache', c) = Visible(media, c)
      <4>. SUFFICES ASSUME NEW c \in Keys \ {k} PROVE Visible(cache', c) = Visible(media, c)
        OBVIOUS
      <4>1. \A i \in Slots : \/ cache'[i] = media[i]
                             \/ /\ ~(LiveRec(cache'[i]) /\ cache'[i].key = c)
                                /\ ~(LiveRec(media[i]) /\ media[i].key = c)
        BY <1>7, <2>3, <3>1
      <4>. QED  BY <1>5, <4>1, SameCopies
    <3>. DEFINE v == Visible(cache', k)
    <3>4. v \in Vals \cup {NoVal}
      <4>1. Live(cache', k) => cache'[Winner(cache', k)] \in Record
        BY <1>5, ScanResults, CopiesAreSlots DEF Image, LiveSlots
      <4>. QED  BY <4>1 DEF Visible, Record
    <3>5. Contents' = [view[w] EXCEPT ![k] = v]
      BY <1>6, <2>2, <3>2, <3>3 DEF Map
    <3>6. w \in Exposed
      BY <1>1, <1>13, <2>1, <3>1 DEF Exposed, InPlace, k
    <3>7. PendNow[w] = req[w]
      BY <2>2 DEF PendNow
    <3>. HIDE DEF v
    <3>8. Contents' \in KV!Torn(w)
      BY <2>2, <3>4, <3>5, <3>6, <3>7 DEF KV!Torn, k
    <3>. QED  BY <3>8 DEF KV!Leaves
  <2>. QED  BY <2>5, <2>6, <2>7, <2>8
<1>. QED  BY <1>10, <1>11, <1>12, <1>13 DEF Unsynced

LEMMA CutMaps ==
  ASSUME Workload, MapInv, PowerCut
  PROVE  KV!Crash(Handles)
<1>. TypeInv /\ LockInv /\ OneHandlePerProcess /\ cache \in Image
  BY MapFacts
<1>1. /\ \A h \in Handles : pc'[h] = "closed" /\ req'[h] = NoReq
      /\ ret' = [h \in Handles |-> NoRet]
  BY DEF PowerCut, Gone
<1>2. KV!None = NoReq /\ KV!NoResp = NoRet
  BY DEF KV!None, NoReq, KV!NoResp, NoRet
<1>3. PendNow' = [h \in Handles |-> KV!None]
  BY <1>1, <1>2 DEF PendNow, NoReq
<1>4. MapRead /\ StoreNow' = Contents'
  <2>1. \A h \in Handles : ~Writing(h)'
    BY <1>1 DEF Writing, Rest
  <2>. QED  BY <2>1, StoreIs DEF StoreNow
<1>5. CASE \E w \in Handles : Writing(w)
  <2>1. PICK w \in Handles : Writing(w)
    BY <1>5
  <2>2. StoreNow' \in KV!Leaves(w)
    BY <1>4, <2>1, CutLeavesMap DEF MapRead
  <2>. QED  BY <1>1, <1>2, <1>3, <2>2 DEF KV!Crash
<1>6. CASE \A w \in Handles : ~Writing(w)
  <2>1. media = cache
    <3>1. budget["cut"] > 0 /\ budget["cut"] \in Nat
      BY DEF PowerCut, Spend, TypeInv, EnvTypeOK, Resources
    <3>2. Budget["cut"] # 0
      BY <3>1, Unspent DEF MapInv, Resources
    <3>3. SyncInv
      BY <3>2, MapFacts DEF MapInv
    <3>4. FileSynced /\ \A h \in Handles : KindTask(h)
      BY <3>3, MapFacts DEF SyncInv, MediaInv
    <3>. QED  BY <1>6, <3>4, UnsyncedWrites DEF FileSynced
  <2>2. \A i \in Slots : cache'[i] = cache[i]
    BY <2>1, CutLeaves DEF Survivors
  <2>3. cache' = cache
    <3>1. TypeInv'
      BY TypeStep DEF Next
    <3>. QED  BY <2>2, <3>1 DEF TypeInv, FileTypeOK, Image
  <2>4. StoreNow' = StoreNow
    BY <1>4, <1>6, <2>3, StillMap DEF MapRead
  <2>. QED  BY <1>1, <1>2, <1>3, <2>4 DEF KV!Crash
<1>. QED  BY <1>5, <1>6

LEMMA NextMaps ==
  ASSUME OneHandlePerProcess, Workload, MapInv, [Next]_vars
  PROVE  [KV!Next]_(KV!vars)
<1>. TypeInv /\ NoFaults
  BY MapFacts
<1>1. ASSUME NEW h \in Handles, Client(h) \/ Run(h) PROVE KV!Next \/ UNCHANGED KV!vars
  BY <1>1, OwnMaps DEF KV!Next
<1>2. ASSUME NEW p \in Procs, Kill(p) PROVE KV!Next
  BY <1>2, KillMaps DEF KV!Next
<1>3. CASE PowerCut
  BY <1>3, CutMaps DEF KV!Next
<1>4. CASE Time \/ UNCHANGED vars
  <2>1. UNCHANGED <<cache, pc, req, view, ret>>
    BY <1>4 DEF Time, vars, file
  <2>2. StoreNow' = StoreNow /\ PendNow' = PendNow
    BY <2>1, StillMap DEF StoreNow, PendNow, Writing
  <2>. QED  BY <2>1, <2>2 DEF KV!vars
<1>. QED  BY <1>1, <1>2, <1>3, <1>4, NothingFails DEF Next

LEMMA InitMaps == ASSUME Workload, Init PROVE KV!Init
<1>1. cache \in Image /\ \A i \in Slots : ~LiveRec(cache[i])
  BY MapInvInit, MapFacts DEF Init, LiveRec, EmptyRec, AbsentRec
<1>2. \A k \in Keys : Visible(cache, k) = NoVal
  BY <1>1, CopiesInSlots DEF Visible, Live
<1>3. \A h \in Handles : ~Writing(h)
  BY DEF Init, Writing, Rest
<1>4. StoreNow = [k \in Keys |-> NoVal]
  BY <1>2, <1>3 DEF StoreNow, Contents
<1>5. PendNow = [h \in Handles |-> KV!None] /\ ret = [h \in Handles |-> KV!NoResp]
  BY DEF Init, PendNow, NoReq, KV!None, NoRet, KV!NoResp
<1>. QED  BY <1>4, <1>5 DEF KV!Init

\* The library is a linearizable map from keys to values, with any number of processes,
\* keys, values and slots, for the workloads above: each call takes effect when it lets
\* go of the lock, and one that was killed or cut short happened wholly or not at all, or
\* tore the record it was writing over (robust_cfg.h:5, robust_cfg.c:503, 514, 523).
THEOREM LibraryIsAStore ==
  ASSUME OneHandlePerProcess, Workload
  PROVE  Spec => ImplementsKVStore
<1>1. Init => MapInv /\ KV!Init
  BY MapInvInit, InitMaps
<1>2. MapInv /\ [Next]_vars => MapInv'
  BY MapInvStep
<1>3. MapInv /\ [Next]_vars => [KV!Next]_(KV!vars)
  BY NextMaps
<1>. QED  BY <1>1, <1>2, <1>3, PTL DEF Spec, ImplementsKVStore, KV!Spec
===============================================================================
