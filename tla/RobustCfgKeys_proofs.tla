-------------------------- MODULE RobustCfgKeys_proofs --------------------------
(***************************************************************************)
(* No key is lost by the calls of the robust-config library, whatever is   *)
(* killed and whichever I/O operation fails, for every number of slots,    *)
(* keys, values and processes.  Power cuts are left out.                   *)
(*                                                                         *)
(* The invariant says of each call that writes what the slots it has still *)
(* to write hold; the lock keeps the other calls from changing that.       *)
(***************************************************************************)
EXTENDS RobustCfg_proofs

-----------------------------------------------------------------------------
(* What a call that is writing relies on. *)

Holds(i, k) == LiveRec(cache[i]) /\ cache[i].key = k

\* The slot of the new record is EMPTY, or the last copy of the key if the file
\* is full; the slot to be marked holds the key.
PutTask(h) ==
  /\ req[h].kind = "write"
  /\ job[h].old # NoSlot => cache[job[h].old].key = req[h].key
  /\ \E t \in Slots :
       /\ job[h].todo = {t}
       /\ LiveRec(job[h].plan[t]) /\ job[h].plan[t].key = req[h].key
       /\ pc[h] = "put" => \/ cache[t].state = "EMPTY"
                           \/ job[h].old = t /\ cache[t].key = req[h].key

\* A write marks a copy when there is another one; an open marks bad slots; a
\* delete marks copies of its key.
MarkTask(h) ==
  \/ req[h].kind = "delete" /\ \A i \in job[h].todo : cache[i].key = req[h].key
  \/ req[h].kind = "open" /\ \A i \in job[h].todo : ~LiveRec(cache[i])
  \/ /\ req[h].kind = "write"
     /\ \E i, j \in Slots : /\ i # j
                            /\ job[h].todo = {i} /\ cache[i].key = req[h].key
                            /\ Holds(j, req[h].key)

\* init and repair write over slots that hold nothing.
ImageTask(h) ==
  \/ req[h].kind \in {"init", "repair"} /\ \A i \in job[h].todo : ~LiveRec(cache[i])
  \/ req[h].kind = "compact"

Task(h) ==
  /\ pc[h] \in {"put", "putsync"}   => PutTask(h)
  /\ pc[h] \in {"mark", "marksync"} => MarkTask(h)
  /\ pc[h] = "image" => ImageTask(h)

(* The file is empty until its header is there, and only one opener writes that. *)
Starting(h) == pc[h] \in {"lock", "scan"} /\ req[h].kind \in {"init", "open"}
Creating(h) == pc[h] \in {"lock", "scan"} /\ req[h].kind = "init"
Blank == \A i \in Slots : ~LiveRec(cache[i]) /\ ~LiveRec(media[i])
HeaderInv ==
  /\ hdr.st # "ok" => Blank
  /\ \A h \in Handles : pc[h] # "closed" /\ ~Starting(h) => hdr.st = "ok"
  /\ \A h \in Handles : Creating(h) => hdr.st = "blank"
  /\ \A g, h \in Handles : Creating(g) /\ Creating(h) => g = h

NoCuts == budget["cut"] = 0

KeyInv == TypeInv /\ LockInv /\ HeaderInv /\ \A h \in Handles : Task(h)

Busy == {"put", "putsync", "mark", "marksync", "image"}

-----------------------------------------------------------------------------
(* A step of one handle leaves the calls of the others alone. *)

SameCall(g) == pc'[g] = pc[g] /\ req'[g] = req[g] /\ job'[g] = job[g]

LEMMA StepOthers ==
  ASSUME TypeInv, NEW h \in Handles, Client(h) \/ Run(h) \/ Fail(h), NEW g \in Handles \ {h}
  PROVE  SameCall(g)
<1>1. /\ pc \in [Handles -> Locations]
      /\ req \in [Handles -> Requests \cup Openings \cup {NoReq}]
      /\ job \in [Handles -> Job]
  BY DEF TypeInv, CallInv, CallTypeOK
<1>2. ASSUME NEW l, Goto(h, l), UNCHANGED <<req, job>> PROVE SameCall(g)
  BY <1>1, <1>2 DEF Goto, SameCall
<1>3. ASSUME NEW l, Goto(h, l), UNCHANGED req, NEW j, job' = [job EXCEPT ![h] = j] PROVE SameCall(g)
  BY <1>1, <1>3 DEF Goto, SameCall
<1>4. ASSUME NEW l, Goto(h, l), UNCHANGED job, NEW r, req' = [req EXCEPT ![h] = r] PROVE SameCall(g)
  BY <1>1, <1>4 DEF Goto, SameCall
<1>5. ASSUME NEW l, Goto(h, l), Release(h) PROVE SameCall(g)
  BY <1>1, <1>5 DEF Goto, Release, SameCall
<1>6. \A rc, v : Return(h, rc, v) => SameCall(g)
  BY <1>5 DEF Return
<1>7. FailOpen(h) \/ Opened(h) => SameCall(g)
  BY <1>5 DEF FailOpen, Opened
<1>8. \A l, S, img, o, n : Plan(h, l, S, img, o, n) => SameCall(g)
  BY <1>3 DEF Plan
<1>9. \A l, n : Goto(h, l) /\ Advance(h, n) /\ UNCHANGED req => SameCall(g)
  BY <1>1 DEF Goto, Advance, SameCall
<1>10. Finish(h) => SameCall(g)
  BY <1>6, <1>7 DEF Finish
<1>11. CASE Client(h)
  BY <1>11, <1>2, <1>4 DEF Client, Open, Close, Call
<1>12. CASE Lock(h) \/ LockTimeout(h)
  BY <1>12, <1>2, <1>4, <1>7 DEF Lock, LockTimeout
<1>13. CASE Scan(h) \/ Reread(h)
  BY <1>13, <1>6, <1>7, <1>8
     DEF Scan, ScanInit, ScanOpen, ScanWrite, ScanDelete, ScanRepair, ScanCompact, ScanRead, Reread
<1>14. CASE Put(h) \/ Mark(h) \/ ImageSync(h)
  BY <1>14, <1>2 DEF Put, Mark, ImageSync
<1>15. CASE PutSync(h)
  <2>1. CASE Goto(h, IF OldSlots(h) = {} THEN "hdr" ELSE "mark")
             /\ job' = [job EXCEPT ![h].todo = OldSlots(h)] /\ UNCHANGED req
    BY <1>1, <2>1 DEF Goto, SameCall
  <2>. QED  BY <1>15, <1>6, <2>1 DEF PutSync
<1>16. CASE MarkSync(h) \/ ImageStep(h)
  BY <1>16, <1>9 DEF MarkSync, ImageStep
<1>17. CASE Header(h)
  BY <1>17, <1>10 DEF Header
<1>18. CASE Fail(h)
  BY <1>18, <1>2, <1>6, <1>7, <1>9, <1>10
     DEF Fail, PutError, MarkError, ImageError, HeaderError
<1>. QED  BY <1>11, <1>12, <1>13, <1>14, <1>15, <1>16, <1>17, <1>18 DEF Run

\* While the file and a call stay the same, so does what the call relies on.
LEMMA TaskKept ==
  ASSUME NEW g, Task(g), SameCall(g), UNCHANGED cache
  PROVE  Task(g)'
BY DEF Task, SameCall, PutTask, MarkTask, ImageTask, Holds, LiveRec

LEMMA TaskIdle ==
  ASSUME NEW g, pc'[g] \notin Busy
  PROVE  Task(g)'
BY DEF Task, Busy

\* A call that writes records has the file to itself.
LEMMA AloneInFile ==
  ASSUME OneHandlePerProcess, KeyInv, NEW h \in Handles, pc[h] \in Busy,
         NEW g \in Handles \ {h}
  PROVE  pc[g] \notin Busy
<1>1. req[h].kind # "read"
  BY DEF KeyInv, Task, PutTask, MarkTask, ImageTask, Busy
<1>2. Writing(h)
  BY <1>1 DEF Writing, Busy, Rest
<1>. QED  BY <1>2, ExclusionFromLocks DEF KeyInv, WriterExclusion, Writing, Reading, Busy, Rest

\* So a step of a handle has to be shown to keep its own call in order only.
LEMMA TaskStep ==
  ASSUME OneHandlePerProcess, KeyInv, NEW h \in Handles, Client(h) \/ Run(h) \/ Fail(h),
         Task(h)', cache' = cache \/ pc[h] \in Busy
  PROVE  \A g \in Handles : Task(g)'
<1>. SUFFICES ASSUME NEW g \in Handles \ {h} PROVE Task(g)'
  OBVIOUS
<1>1. SameCall(g)
  BY StepOthers DEF KeyInv
<1>2. CASE cache' = cache
  BY <1>1, <1>2, TaskKept DEF KeyInv
<1>3. CASE pc[h] \in Busy
  BY <1>1, <1>3, AloneInFile, TaskIdle DEF SameCall
<1>. QED  BY <1>2, <1>3

-----------------------------------------------------------------------------
(* Each step of a call prepares the next. *)

LEMMA LeaveTask ==
  ASSUME TypeInv, NEW h \in Handles, NEW l, Goto(h, l), l \notin Busy
  PROVE  Task(h)' /\ pc'[h] = l
<1>1. pc'[h] = l
  BY DEF Goto, TypeInv, CallInv, CallTypeOK
<1>. QED  BY <1>1, TaskIdle

LEMMA ReturnTask ==
  ASSUME TypeInv, NEW h \in Handles,
         (\E rc, v : Return(h, rc, v)) \/ FailOpen(h) \/ Opened(h)
  PROVE  Task(h)' /\ pc'[h] \in Rest
BY LeaveTask DEF Return, FailOpen, Opened, Rest, Busy

LEMMA FinishTask ==
  ASSUME TypeInv, NEW h \in Handles, Finish(h) PROVE Task(h)' /\ pc'[h] \in Rest
BY ReturnTask DEF Finish

LEMMA CallTask ==
  ASSUME KeyInv, NEW h \in Handles,
         Client(h) \/ Lock(h) \/ LockTimeout(h) \/ Reread(h) \/ ImageSync(h) \/ Header(h)
  PROVE  Task(h)' /\ cache' = cache
<1>. TypeInv
  BY DEF KeyInv
<1>1. CASE Client(h)
  BY <1>1, LeaveTask DEF Client, Open, Close, Call, Busy, file
<1>2. CASE Lock(h) \/ LockTimeout(h) \/ ImageSync(h)
  BY <1>2, LeaveTask, ReturnTask DEF Lock, LockTimeout, ImageSync, Busy, file
<1>3. CASE Reread(h) \/ Header(h)
  BY <1>3, ReturnTask, FinishTask DEF Reread, Header, file
<1>. QED  BY <1>1, <1>2, <1>3

LEMMA PlanEffect ==
  ASSUME TypeInv, NEW h \in Handles, NEW l, NEW S, NEW img, NEW o, NEW n, Plan(h, l, S, img, o, n)
  PROVE  /\ pc'[h] = l /\ req' = req
         /\ job'[h].todo = S /\ job'[h].plan = img /\ job'[h].old = o
BY DEF Plan, Goto, TypeInv, CallInv, CallTypeOK

\* The write scan picks an EMPTY slot or the last copy, and notes the last copy.
LEMMA ScanWriteTask == ASSUME KeyInv, NEW h \in Handles, ScanWrite(h) PROVE Task(h)'
<1>. DEFINE k == req[h].key
            t == Target(k)
            o == LastCopy(cache, k)
            rec == NewRec(k, req[h].val, clock)
            img == [BlankImage EXCEPT ![t] = rec]
<1>. TypeInv /\ cache \in Image /\ cache' = cache
  BY DEF KeyInv, TypeInv, FileTypeOK, ScanWrite, file
<1>1. CASE Return(h, "FULL", NoVal)
  BY <1>1, ReturnTask
<1>2. CASE t # NoSlot /\ Plan(h, "put", {t}, img, o, 0)
  <2>1. /\ pc'[h] = "put" /\ req' = req
        /\ job'[h].todo = {t} /\ job'[h].plan = img /\ job'[h].old = o
    BY <1>2, PlanEffect
  <2>2. o # NoSlot => o \in Copies(cache, k)
    BY ScanResults
  <2>3. \A i \in Copies(cache, k) : i \in Slots /\ cache[i].key = k
    BY DEF Copies, LiveSlots
  <2>4. \/ t \in Slots /\ cache[t].state = "EMPTY"
        \/ o = t /\ t \in Slots
    BY <1>2, <2>2, <2>3, ScanResults DEF Target
  <2>5. t \in Slots /\ img[t] = rec
    BY <2>4 DEF BlankImage
  <2>6. LiveRec(rec) /\ rec.key = k
    BY DEF NewRec, LiveRec
  <2>7. req[h].kind = "write"
    BY DEF ScanWrite, At
  <2>. HIDE DEF t, o, img, rec
  <2>8. /\ job'[h].old # NoSlot => cache'[job'[h].old].key = req'[h].key
        /\ \/ cache'[t].state = "EMPTY"
           \/ job'[h].old = t /\ cache'[t].key = req'[h].key
    BY <1>2, <2>1, <2>2, <2>3, <2>4 DEF k
  <2>9. PutTask(h)'
    BY <2>1, <2>5, <2>6, <2>7, <2>8 DEF PutTask, LiveRec, k
  <2>. QED  BY <2>1, <2>9 DEF Task
<1>. QED  BY <1>1, <1>2 DEF ScanWrite

LEMMA ScanTask == ASSUME KeyInv, NEW h \in Handles, Scan(h) PROVE Task(h)' /\ cache' = cache
<1>. TypeInv /\ cache \in Image
  BY DEF KeyInv, TypeInv, FileTypeOK
<1>0. cache' = cache
  BY DEF Scan, ScanInit, ScanOpen, ScanWrite, ScanDelete, ScanRepair, ScanCompact, ScanRead, file
<1>1. CASE ScanInit(h)
  <2>1. pc'[h] = "image" /\ req' = req /\ job'[h].todo = Slots /\ req[h].kind = "init"
    BY <1>1, PlanEffect DEF ScanInit, At
  <2>2. hdr.st = "blank"
    BY <1>1 DEF ScanInit, At, KeyInv, HeaderInv, Creating
  <2>3. \A i \in Slots : ~LiveRec(cache[i])
    BY <2>2 DEF KeyInv, HeaderInv, Blank
  <2>. QED  BY <1>0, <2>1, <2>3 DEF Task, ImageTask, LiveRec
<1>2. CASE ScanOpen(h)
  <2>1. CASE FailOpen(h)
    BY <1>0, <2>1, ReturnTask
  <2>. DEFINE bad == ScrubSlots(cache)
              l == IF bad = {} THEN "hdr" ELSE "mark"
  <2>2. CASE Plan(h, l, bad, BlankImage, NoSlot, LiveCount)
    <3>1. pc'[h] = l /\ req' = req /\ job'[h].todo = bad
      BY <2>2, PlanEffect
    <3>2. req[h].kind = "open"
      BY <1>2 DEF ScanOpen, At
    <3>3. \A i \in bad : ~LiveRec(cache[i])
      BY DEF ScrubSlots, LiveRec
    <3>4. MarkTask(h)'
      BY <1>0, <3>1, <3>2, <3>3 DEF MarkTask, LiveRec
    <3>. QED  BY <1>0, <3>1, <3>4 DEF Task
  <2>. QED  BY <1>2, <2>1, <2>2 DEF ScanOpen
<1>3. CASE ScanWrite(h)
  BY <1>0, <1>3, ScanWriteTask
<1>4. CASE ScanDelete(h)
  <2>. DEFINE c == Copies(cache, req[h].key)
  <2>1. CASE Return(h, "NOT_FOUND", NoVal)
    BY <1>0, <2>1, ReturnTask
  <2>2. CASE Plan(h, "mark", c, BlankImage, NoSlot, 0)
    <3>1. pc'[h] = "mark" /\ req' = req /\ job'[h].todo = c
      BY <2>2, PlanEffect
    <3>2. req[h].kind = "delete" /\ \A i \in c : cache[i].key = req[h].key
      BY <1>4 DEF ScanDelete, At, Copies
    <3>. QED  BY <1>0, <3>1, <3>2 DEF Task, MarkTask
  <2>. QED  BY <1>4, <2>1, <2>2 DEF ScanDelete
<1>5. CASE ScanRepair(h)
  <2>. DEFINE bad == RepairSlots(cache)
              l == IF bad = {} THEN "imgsync" ELSE "image"
  <2>1. pc'[h] = l /\ req' = req /\ job'[h].todo = bad /\ req[h].kind = "repair"
    BY <1>5, PlanEffect DEF ScanRepair, At
  <2>2. \A i \in bad : ~LiveRec(cache[i])
    BY DEF RepairSlots, LiveRec
  <2>3. ImageTask(h)'
    BY <1>0, <2>1, <2>2 DEF ImageTask, LiveRec
  <2>. QED  BY <1>0, <2>1, <2>3 DEF Task
<1>6. CASE ScanCompact(h)
  <2>1. pc'[h] = "image" /\ req' = req /\ req[h].kind = "compact"
    BY <1>6, PlanEffect DEF ScanCompact, At
  <2>. QED  BY <1>0, <2>1 DEF Task, ImageTask
<1>7. CASE ScanRead(h)
  <2>. DEFINE w == Winner(cache, req[h].key)
  <2>1. CASE Return(h, "NOT_FOUND", NoVal)
    BY <1>0, <2>1, ReturnTask
  <2>2. CASE Plan(h, "reread", {}, BlankImage, w, 0)
    BY <1>0, <2>2, PlanEffect, TaskIdle DEF Busy
  <2>. QED  BY <1>7, <2>1, <2>2 DEF ScanRead
<1>. QED  BY <1>1, <1>2, <1>3, <1>4, <1>5, <1>6, <1>7 DEF Scan

\* What a write of one slot does to the file, whether it succeeds or not.
LEMMA OneSlotWritten ==
  ASSUME cache \in Image, NEW i \in Slots, NEW r, Store(i, r)
  PROVE  cache'[i] = r /\ \A j \in Slots \ {i} : cache'[j] = cache[j]
BY DEF Store, Image

LEMMA PutTaskStep == ASSUME KeyInv, NEW h \in Handles, Put(h) PROVE Task(h)'
<1>. DEFINE i == NextSlot(h)
<1>. TypeInv
  BY DEF KeyInv
<1>1. pc[h] = "put" /\ pc'[h] = "putsync" /\ req' = req /\ job' = job /\ Store(i, job[h].plan[i])
  BY DEF Put, Goto, TypeInv, CallInv, CallTypeOK
<1>2. i \in job[h].todo /\ i \in Slots /\ cache \in Image /\ job[h].old \in Slots \cup {NoSlot}
  BY <1>1, WriteTypes DEF Job
<1>3. PutTask(h)
  BY <1>1 DEF KeyInv, Task
<1>4. /\ job[h].todo = {i} /\ LiveRec(job[h].plan[i]) /\ job[h].plan[i].key = req[h].key
      /\ req[h].kind = "write"
      /\ job[h].old # NoSlot => cache[job[h].old].key = req[h].key
  BY <1>2, <1>3 DEF PutTask
<1>5. cache'[i] = job[h].plan[i] /\ \A j \in Slots \ {i} : cache'[j] = cache[j]
  BY <1>1, <1>2, OneSlotWritten
<1>6. job[h].old # NoSlot => cache'[job[h].old].key = req[h].key
  BY <1>2, <1>4, <1>5
<1>. HIDE DEF i
<1>7. PutTask(h)'
  BY <1>1, <1>2, <1>4, <1>6 DEF PutTask, LiveRec
<1>. QED  BY <1>1, <1>7 DEF Task

\* When the new record has been read back, the old copy is not the only one.
LEMMA PutSyncTask == ASSUME KeyInv, NEW h \in Handles, PutSync(h) PROVE Task(h)'
<1>. DEFINE i == NextSlot(h)
<1>. TypeInv
  BY DEF KeyInv
<1>1. CASE Return(h, "CORRUPT", NoVal)
  BY <1>1, ReturnTask
<1>2. CASE /\ cache[i] = job[h].plan[i]
           /\ Goto(h, IF OldSlots(h) = {} THEN "hdr" ELSE "mark")
           /\ job' = [job EXCEPT ![h].todo = OldSlots(h)]
           /\ UNCHANGED req
  <2>1. pc[h] = "putsync" /\ cache' = cache
    BY DEF PutSync
  <2>2. i \in job[h].todo /\ i \in Slots /\ job[h] \in Job
    BY <2>1, WriteTypes
  <2>3. PutTask(h)
    BY <2>1 DEF KeyInv, Task
  <2>4. Holds(i, req[h].key) /\ req[h].kind = "write"
        /\ (job[h].old # NoSlot => cache[job[h].old].key = req[h].key)
    BY <1>2, <2>2, <2>3 DEF PutTask, Holds
  <2>5. job'[h].todo = OldSlots(h)
    BY <1>2, <2>2 DEF TypeInv, CallInv, CallTypeOK, Job
  <2>6. pc'[h] = IF OldSlots(h) = {} THEN "hdr" ELSE "mark"
    BY <1>2 DEF Goto, TypeInv, CallInv, CallTypeOK
  <2>7. CASE OldSlots(h) = {}
    BY <2>6, <2>7, TaskIdle DEF Busy
  <2>8. CASE OldSlots(h) # {}
    <3>1. /\ OldSlots(h) = {job[h].old} /\ job[h].old # NoSlot /\ job[h].old # i
          /\ job[h].old \in Slots
      BY <2>2, <2>8 DEF OldSlots, Job
    <3>. HIDE DEF i
    <3>2. MarkTask(h)'
      BY <1>2, <2>1, <2>2, <2>4, <2>5, <3>1 DEF MarkTask, Holds, LiveRec
    <3>. QED  BY <2>6, <2>8, <3>2 DEF Task
  <2>. QED  BY <2>7, <2>8
<1>. QED  BY <1>1, <1>2 DEF PutSync

\* Marking keeps the key of a record, and what open marks is not live afterwards.
LEMMA MarkTaskStep == ASSUME KeyInv, NEW h \in Handles, Mark(h) PROVE Task(h)'
<1>. DEFINE i == NextSlot(h)
            r == Marked(cache[i], MarkState(h))
<1>. TypeInv
  BY DEF KeyInv
<1>1. pc[h] = "mark" /\ pc'[h] = "marksync" /\ req' = req /\ job' = job /\ Store(i, r)
  BY DEF Mark, Goto, TypeInv, CallInv, CallTypeOK
<1>2. i \in job[h].todo /\ i \in Slots /\ cache \in Image /\ job[h].todo \in SUBSET Slots
  BY <1>1, WriteTypes DEF Job
<1>3. MarkTask(h)
  BY <1>1 DEF KeyInv, Task
<1>4. cache'[i] = r /\ \A j \in Slots \ {i} : cache'[j] = cache[j]
  BY <1>1, <1>2, OneSlotWritten
<1>5. r.key = cache[i].key /\ r.state = MarkState(h)
  BY <1>2 DEF Marked, Image, Record
<1>6. req[h].kind = "open" => ~LiveRec(r)
  BY <1>5 DEF MarkState, LiveRec
<1>. HIDE DEF i, r
<1>7. \A j \in job[h].todo : cache'[j].key = cache[j].key
  BY <1>2, <1>4, <1>5
<1>8. CASE req[h].kind = "delete" /\ \A j \in job[h].todo : cache[j].key = req[h].key
  BY <1>1, <1>7, <1>8 DEF Task, MarkTask
<1>9. CASE req[h].kind = "open" /\ \A j \in job[h].todo : ~LiveRec(cache[j])
  <2>1. \A j \in job[h].todo : ~LiveRec(cache'[j])
    BY <1>2, <1>4, <1>6, <1>9
  <2>2. MarkTask(h)'
    BY <1>1, <1>9, <2>1 DEF MarkTask, LiveRec
  <2>. QED  BY <1>1, <2>2 DEF Task
<1>10. ASSUME req[h].kind = "write", NEW m \in Slots, NEW j \in Slots, m # j,
              job[h].todo = {m}, cache[m].key = req[h].key, Holds(j, req[h].key)
       PROVE  Task(h)'
  <2>1. i = m /\ cache'[j] = cache[j]
    BY <1>2, <1>4, <1>10
  <2>2. MarkTask(h)'
    BY <1>1, <1>7, <1>10, <2>1 DEF MarkTask, Holds, LiveRec
  <2>. QED  BY <1>1, <2>2 DEF Task
<1>. QED  BY <1>3, <1>8, <1>9, <1>10 DEF MarkTask

\* A loop that has done one slot goes on with the others, which are as they were.
LEMMA LoopTask ==
  ASSUME KeyInv, NEW h \in Handles, pc[h] \in {"mark", "marksync", "image"}, NEW l,
         pc'[h] = l, req' = req, job'[h].todo = job[h].todo \ {NextSlot(h)},
         l \in Busy => /\ job[h].todo # {NextSlot(h)}
                       /\ l = IF pc[h] = "image" THEN "image" ELSE "mark",
         \A j \in Slots \ {NextSlot(h)} : cache'[j] = cache[j]
  PROVE  Task(h)'
<1>1. CASE l \notin Busy
  BY <1>1, TaskIdle
<1>2. CASE l \in Busy
  <2>1. job[h].todo \in SUBSET Slots /\ NextSlot(h) \in job[h].todo
    BY WriteTypes DEF KeyInv, Job
  <2>2. \A j \in job'[h].todo : j \in job[h].todo /\ cache'[j] = cache[j]
    BY <2>1
  <2>3. CASE pc[h] = "image"
    <3>1. ImageTask(h)
      BY <2>3 DEF KeyInv, Task
    <3>2. ImageTask(h)'
      BY <2>2, <3>1 DEF ImageTask, LiveRec
    <3>. QED  BY <1>2, <2>3, <3>2 DEF Task
  <2>4. CASE pc[h] # "image"
    <3>1. MarkTask(h)
      BY <2>4 DEF KeyInv, Task
    <3>2. req[h].kind # "write"
      BY <1>2, <2>1, <3>1 DEF MarkTask
    <3>3. MarkTask(h)'
      BY <2>2, <3>1, <3>2 DEF MarkTask, LiveRec
    <3>. QED  BY <1>2, <2>4, <3>3 DEF Task
  <2>. QED  BY <2>3, <2>4
<1>. QED  BY <1>1, <1>2

LEMMA AdvanceEffect ==
  ASSUME TypeInv, NEW h \in Handles, NEW l, Goto(h, l), NEW n, Advance(h, n)
  PROVE  pc'[h] = l /\ job'[h].todo = job[h].todo \ {NextSlot(h)} /\ job'[h].plan = job[h].plan
<1>1. job \in [Handles -> Job] /\ pc \in [Handles -> Locations]
  BY DEF TypeInv, CallInv, CallTypeOK
<1>. QED  BY <1>1 DEF Advance, Goto, Job

LEMMA LoopSteps ==
  ASSUME KeyInv, NEW h \in Handles, MarkSync(h) \/ ImageStep(h) \/ MarkError(h) \/ ImageError(h)
  PROVE  Task(h)'
<1>. DEFINE i == NextSlot(h)
<1>. TypeInv
  BY DEF KeyInv
<1>1. CASE ImageError(h) /\ (FailOpen(h) \/ pc[h] = "imgsync")
  BY <1>1, ReturnTask, LeaveTask DEF ImageError, Busy
<1>. SUFFICES ASSUME ~(ImageError(h) /\ (FailOpen(h) \/ pc[h] = "imgsync")) PROVE Task(h)'
  BY <1>1
<1>2. pc[h] \in {"mark", "marksync", "image"} /\ req' = req
  BY DEF MarkSync, ImageStep, MarkError, ImageError
<1>3. i \in Slots /\ cache \in Image
  BY <1>2, WriteTypes
<1>4. \A j \in Slots \ {i} : cache'[j] = cache[j]
  <2>1. \A r : BadWrite(i, r) => \E left : Store(i, left)
    BY DEF BadWrite
  <2>2. cache' = cache \/ \E r : Store(i, r)
    BY <2>1 DEF MarkSync, ImageStep, MarkError, ImageError
  <2>. QED  BY <1>3, <2>2, OneSlotWritten
<1>5. CASE MarkSync(h) \/ MarkError(h)
  <2>1. pc[h] # "image" /\ Goto(h, AfterMark(h)) /\ \E n : Advance(h, n)
    BY <1>5 DEF MarkSync, MarkError
  <2>2. pc'[h] = AfterMark(h) /\ job'[h].todo = job[h].todo \ {i}
    BY <2>1, AdvanceEffect
  <2>3. AfterMark(h) \in Busy => job[h].todo # {i} /\ AfterMark(h) = "mark"
    BY DEF AfterMark, Busy
  <2>. QED  BY <1>2, <1>4, <2>1, <2>2, <2>3, LoopTask
<1>6. CASE ImageStep(h) \/ ImageError(h)
  <2>. DEFINE l == IF job[h].todo = {i} THEN "imgsync" ELSE "image"
  <2>1. pc[h] = "image" /\ Goto(h, l) /\ Advance(h, 0)
    BY <1>6 DEF ImageStep, ImageError
  <2>2. pc'[h] = l /\ job'[h].todo = job[h].todo \ {i}
    BY <2>1, AdvanceEffect
  <2>3. l \in Busy => job[h].todo # {i} /\ l = "image"
    BY DEF Busy
  <2>. QED  BY <1>2, <1>4, <2>1, <2>2, <2>3, LoopTask
<1>. QED  BY <1>5, <1>6

LEMMA OwnTask ==
  ASSUME KeyInv, NEW h \in Handles, Client(h) \/ Run(h) \/ Fail(h)
  PROVE  Task(h)' /\ (cache' = cache \/ pc[h] \in Busy)
<1>. TypeInv
  BY DEF KeyInv
<1>1. CASE PutError(h) \/ HeaderError(h)
  BY <1>1, ReturnTask, FinishTask DEF PutError, HeaderError, Busy
<1>2. CASE Put(h) \/ PutSync(h) \/ Mark(h)
  BY <1>2, PutTaskStep, PutSyncTask, MarkTaskStep DEF Put, PutSync, Mark, Busy
<1>3. CASE MarkSync(h) \/ ImageStep(h) \/ MarkError(h) \/ ImageError(h)
  BY <1>3, LoopSteps DEF MarkSync, ImageStep, MarkError, ImageError, Busy
<1>. QED  BY <1>1, <1>2, <1>3, CallTask, ScanTask DEF Run, Fail

-----------------------------------------------------------------------------
(* The header. *)

\* How a step that does not make the file, or its header, bears on HeaderInv.
Plain(h) ==
  /\ hdr'.st = hdr.st
  /\ UNCHANGED <<cache, media>> \/ hdr.st = "ok"
  /\ \/ pc'[h] = "closed"
     \/ hdr.st = "ok" /\ ~Creating(h)'
     \/ pc[h] = "lock" /\ pc'[h] = "scan" /\ req'[h] = req[h]

LEMMA PlainKeeps ==
  ASSUME HeaderInv, NEW h \in Handles, Plain(h), \A g \in Handles \ {h} : SameCall(g)
  PROVE  HeaderInv'
<1>1. \A g \in Handles \ {h} : /\ Creating(g)' = Creating(g) /\ Starting(g)' = Starting(g)
                               /\ pc'[g] = pc[g]
  BY DEF SameCall, Creating, Starting
<1>2. hdr'.st # "ok" => Blank'
  BY DEF Plain, HeaderInv, Blank, LiveRec
<1>3. pc'[h] # "closed" /\ ~Starting(h)' => hdr'.st = "ok"
  BY DEF Plain, HeaderInv, Starting
<1>4. Creating(h)' => Creating(h)
  BY DEF Plain, Creating
<1>5. \A g \in Handles : Creating(g)' => Creating(g)
  BY <1>1, <1>4
<1>6. (\A g \in Handles : Creating(g) => hdr.st = "blank")' /\ (\A g1, g2 \in Handles : Creating(g1) /\ Creating(g2) => g1 = g2)'
  BY <1>5 DEF HeaderInv, Plain
<1>7. \A g \in Handles : pc'[g] # "closed" /\ ~Starting(g)' => hdr'.st = "ok"
  BY <1>1, <1>3 DEF HeaderInv, Plain
<1>. QED  BY <1>2, <1>6, <1>7 DEF HeaderInv

LEMMA FailPlain ==
  ASSUME TypeInv, NEW h \in Handles, hdr' = hdr \/ hdr'.st = hdr.st,
         UNCHANGED <<cache, media>> \/ hdr.st = "ok", FailOpen(h)
  PROVE  Plain(h)
<1>1. pc'[h] = "closed"
  BY DEF FailOpen, Goto, TypeInv, CallInv, CallTypeOK
<1>. QED  BY <1>1 DEF Plain

LEMMA ReturnPlain ==
  ASSUME TypeInv, NEW h \in Handles, hdr' = hdr \/ hdr'.st = hdr.st, hdr.st = "ok",
         Opened(h) \/ \E rc, v : Return(h, rc, v)
  PROVE  Plain(h)
<1>1. pc'[h] = "ready"
  BY DEF Opened, Return, Goto, TypeInv, CallInv, CallTypeOK
<1>. QED  BY <1>1 DEF Plain, Creating

LEMMA MovePlain ==
  ASSUME TypeInv, NEW h \in Handles, hdr'.st = hdr.st, hdr.st = "ok", NEW l, Goto(h, l),
         l \notin {"lock", "scan"}
  PROVE  Plain(h)
<1>1. pc'[h] = l
  BY DEF Goto, TypeInv, CallInv, CallTypeOK
<1>. QED  BY <1>1 DEF Plain, Creating

\* Only an open works on a file whose header is not there.
LEMMA HeaderThere ==
  ASSUME HeaderInv, NEW h \in Handles, pc[h] # "closed", ~Starting(h)
  PROVE  hdr.st = "ok"
BY DEF HeaderInv

LEMMA ClientHeader == ASSUME KeyInv, NEW h \in Handles, Client(h) PROVE HeaderInv'
<1>. TypeInv /\ HeaderInv
  BY DEF KeyInv
<1>0. \A g \in Handles \ {h} : SameCall(g)
  BY StepOthers
<1>1. CASE Open(h)
  <2>1. pc[h] = "closed" /\ pc'[h] = "lock" /\ UNCHANGED <<cache, media>>
    BY <1>1 DEF Open, Goto, TypeInv, CallInv, CallTypeOK
  <2>2. CASE hdr.st = "none"
    <3>1. hdr'.st = "blank"
      BY <1>1, <2>2 DEF Open, TypeInv, FileTypeOK
    <3>2. req'[h].kind = "init"
      BY <1>1, <2>2 DEF Open, NoReq, TypeInv, CallInv, CallTypeOK
    <3>3. \A g \in Handles \ {h} : ~Creating(g) /\ (pc[g] # "closed" => Starting(g))
      BY <2>2 DEF HeaderInv
    <3>4. \A g \in Handles \ {h} : ~Creating(g)' /\ (pc'[g] # "closed" => Starting(g)')
      BY <1>0, <3>3 DEF SameCall, Creating, Starting
    <3>5. Blank'
      BY <2>1, <2>2 DEF HeaderInv, Blank, LiveRec
    <3>6. Starting(h)'
      BY <2>1, <3>2 DEF Starting
    <3>. QED  BY <3>1, <3>4, <3>5, <3>6 DEF HeaderInv
  <2>3. CASE hdr.st # "none"
    <3>1. req'[h].kind = "open" /\ hdr' = hdr
      BY <1>1, <2>3 DEF Open, NoReq, TypeInv, CallInv, CallTypeOK
    <3>2. ~Creating(h)' /\ Starting(h)'
      BY <2>1, <3>1 DEF Creating, Starting
    <3>3. \A g \in Handles \ {h} : /\ Creating(g)' = Creating(g) /\ Starting(g)' = Starting(g)
                                   /\ pc'[g] = pc[g]
      BY <1>0 DEF SameCall, Creating, Starting
    <3>. QED  BY <2>1, <3>1, <3>2, <3>3 DEF HeaderInv, Blank, LiveRec
  <2>. QED  BY <2>2, <2>3
<1>2. ASSUME NEW r \in Requests, Call(h, r) PROVE HeaderInv'
  <2>1. pc[h] = "ready" /\ pc'[h] = "lock" /\ req'[h] = r /\ UNCHANGED <<cache, media, hdr>>
    BY <1>2 DEF Call, Goto, TypeInv, CallInv, CallTypeOK, file
  <2>2. r.kind # "init"
    BY <1>2, RobustCfgAssumption DEF Call
  <2>3. hdr.st = "ok"
    BY <2>1, HeaderThere DEF Starting
  <2>4. ~Creating(h)'
    BY <2>1, <2>2 DEF Creating
  <2>5. Plain(h)
    BY <2>1, <2>3, <2>4 DEF Plain
  <2>. QED  BY <1>0, <2>5, PlainKeeps
<1>3. CASE Close(h)
  <2>1. pc'[h] = "closed" /\ UNCHANGED <<cache, media, hdr>>
    BY <1>3 DEF Close, Goto, TypeInv, CallInv, CallTypeOK, file
  <2>2. Plain(h)
    BY <2>1 DEF Plain
  <2>. QED  BY <1>0, <2>2, PlainKeeps
<1>. QED  BY <1>1, <1>2, <1>3 DEF Client

\* init_new_file writes the header, or fails to: the file is still empty.
LEMMA CreateHeader ==
  ASSUME KeyInv, NEW h \in Handles, Client(h) \/ Run(h) \/ Fail(h),
         At(h, "scan", {"init"}), ~Creating(h)', cache' = cache,
         Sync \/ BadSync,
         \/ hdr'.st = "ok"
         \/ hdr' = hdr /\ pc'[h] = "closed"
  PROVE  HeaderInv'
<1>1. \A g \in Handles \ {h} : SameCall(g)
  BY StepOthers DEF KeyInv
<1>2. Creating(h) /\ hdr.st = "blank"
  BY DEF At, Creating, KeyInv, HeaderInv
<1>3. \A g \in Handles \ {h} : ~Creating(g)
  BY <1>2 DEF KeyInv, HeaderInv
<1>4. \A g \in Handles : ~Creating(g)'
  BY <1>1, <1>3 DEF SameCall, Creating
<1>5. CASE hdr'.st = "ok"
  BY <1>4, <1>5 DEF HeaderInv
<1>6. CASE hdr' = hdr /\ pc'[h] = "closed"
  <2>1. \A g \in Handles : pc'[g] # "closed" => Starting(g)'
    BY <1>1, <1>2, <1>6 DEF KeyInv, HeaderInv, SameCall, Starting
  <2>2. Blank
    BY <1>2 DEF KeyInv, HeaderInv
  <2>3. Blank'
    BY <2>2 DEF Sync, BadSync, Blank, LiveRec
  <2>. QED  BY <1>4, <2>1, <2>3 DEF HeaderInv
<1>. QED  BY <1>5, <1>6

LEMMA RunPlain ==
  ASSUME KeyInv, NEW h \in Handles, Run(h) \/ Fail(h), ~At(h, "scan", {"init"}) \/ Lock(h) \/ LockTimeout(h)
  PROVE  Plain(h)
<1>. TypeInv /\ HeaderInv
  BY DEF KeyInv
<1>1. hdr \in [st : {"none", "blank", "ok"}, cnt : Nat]
  BY DEF TypeInv, FileTypeOK
<1>2. CASE Lock(h)
  <2>1. pc[h] = "lock" /\ pc'[h] = "scan" /\ UNCHANGED <<cache, media, hdr, req>>
    BY <1>2 DEF Lock, Goto, TypeInv, CallInv, CallTypeOK, file
  <2>. QED  BY <2>1 DEF Plain
<1>3. CASE LockTimeout(h)
  <2>1. CASE FailOpen(h)
    BY <1>3, <2>1, FailPlain DEF LockTimeout, file
  <2>2. CASE req[h].kind \notin {"init", "open"} /\ Goto(h, "ready")
    <3>1. hdr.st = "ok"
      BY <1>3, <2>2, HeaderThere DEF LockTimeout, Starting
    <3>. QED  BY <1>3, <2>2, <3>1, MovePlain DEF LockTimeout, file
  <2>. QED  BY <1>3, <2>1, <2>2 DEF LockTimeout
<1>4. CASE ScanOpen(h)
  <2>1. UNCHANGED <<cache, media, hdr>>
    BY <1>4 DEF ScanOpen, file
  <2>2. CASE FailOpen(h)
    BY <2>1, <2>2, FailPlain
  <2>3. CASE hdr.st = "ok" /\ ~FailOpen(h)
    <3>1. \E l \in {"hdr", "mark"} : Goto(h, l)
      BY <1>4, <2>3 DEF ScanOpen, Plan
    <3>. QED  BY <2>1, <2>3, <3>1, MovePlain
  <2>. QED  BY <1>4, <2>2, <2>3 DEF ScanOpen
<1>5. CASE ScanWrite(h) \/ ScanDelete(h) \/ ScanRepair(h) \/ ScanCompact(h) \/ ScanRead(h)
  <2>1. UNCHANGED <<cache, media, hdr>> /\ hdr.st = "ok"
    BY <1>5, HeaderThere
       DEF ScanWrite, ScanDelete, ScanRepair, ScanCompact, ScanRead, file, At, Starting
  <2>2. CASE \E rc, v : Return(h, rc, v)
    BY <2>1, <2>2, ReturnPlain
  <2>3. CASE ~\E rc, v : Return(h, rc, v)
    <3>1. \E l \in {"put", "mark", "image", "imgsync", "reread"} : Goto(h, l)
      BY <1>5, <2>3 DEF ScanWrite, ScanDelete, ScanRepair, ScanCompact, ScanRead, Plan
    <3>. QED  BY <2>1, <3>1, MovePlain
  <2>. QED  BY <2>2, <2>3
<1>6. ASSUME pc[h] \notin {"closed", "lock", "scan"} PROVE Plain(h)
  <2>1. hdr.st = "ok"
    BY <1>6, HeaderThere DEF Starting
  <2>2. hdr'.st = hdr.st
    <3>1. hdr' = hdr \/ \E n : hdr' = [hdr EXCEPT !.cnt = n]
      BY <1>6 DEF Run, Fail, Lock, LockTimeout, Scan, ScanInit, ScanOpen, ScanWrite, ScanDelete,
                  ScanRepair, ScanCompact, ScanRead, At, Reread, Put, PutSync, Mark, MarkSync,
                  ImageStep, ImageSync, Header, PutError, MarkError, ImageError, HeaderError, file
    <3>. QED  BY <1>1, <3>1
  <2>3. \/ FailOpen(h) \/ Opened(h) \/ \E rc, v : Return(h, rc, v)
        \/ \E l \in Locations \ {"lock", "scan"} : Goto(h, l)
    BY <1>6 DEF Run, Fail, Lock, LockTimeout, Scan, ScanInit, ScanOpen, ScanWrite, ScanDelete,
                ScanRepair, ScanCompact, ScanRead, At, Reread, Put, PutSync, Mark, MarkSync,
                ImageStep, ImageSync, Header, PutError, MarkError, ImageError, HeaderError,
                Finish, AfterMark, Locations
  <2>. QED  BY <2>1, <2>2, <2>3, FailPlain, ReturnPlain, MovePlain
<1>7. pc[h] # "closed" /\ (pc[h] = "lock" => Lock(h) \/ LockTimeout(h))
  BY DEF Run, Fail, Lock, LockTimeout, Scan, ScanInit, ScanOpen, ScanWrite, ScanDelete,
         ScanRepair, ScanCompact, ScanRead, At, Reread, Put, PutSync, Mark, MarkSync,
         ImageStep, ImageSync, Header, PutError, MarkError, ImageError, HeaderError
<1>8. pc[h] = "scan" => ScanOpen(h) \/ ScanWrite(h) \/ ScanDelete(h) \/ ScanRepair(h)
                        \/ ScanCompact(h) \/ ScanRead(h)
  BY DEF Run, Fail, Lock, LockTimeout, Scan, ScanInit, At, Reread, Put, PutSync, Mark, MarkSync,
         ImageStep, ImageSync, Header, PutError, MarkError, ImageError, HeaderError
<1>. QED  BY <1>2, <1>3, <1>4, <1>5, <1>6, <1>7, <1>8

LEMMA RunHeader == ASSUME KeyInv, NEW h \in Handles, Run(h) \/ Fail(h) PROVE HeaderInv'
<1>. TypeInv /\ HeaderInv
  BY DEF KeyInv
<1>1. CASE ~At(h, "scan", {"init"}) \/ Lock(h) \/ LockTimeout(h)
  <2>1. \A g \in Handles \ {h} : SameCall(g)
    BY StepOthers
  <2>. QED  BY <1>1, <2>1, RunPlain, PlainKeeps
<1>2. CASE At(h, "scan", {"init"}) /\ ~Lock(h) /\ ~LockTimeout(h)
  <2>1. ScanInit(h) \/ HeaderError(h)
    BY <1>2 DEF Run, Fail, Scan, ScanOpen, ScanWrite, ScanDelete,
         ScanRepair, ScanCompact, ScanRead, At, Reread, Put, PutSync, Mark, MarkSync,
         ImageStep, ImageSync, Header, PutError, MarkError, ImageError
  <2>2. CASE ScanInit(h)
    <3>1. pc'[h] = "image" /\ hdr'.st = "ok" /\ cache' = cache /\ Sync
      BY <2>2, PlanEffect DEF ScanInit, Sync
    <3>. QED  BY <1>2, <3>1, CreateHeader DEF Creating
  <2>3. CASE HeaderError(h)
    <3>1. FailOpen(h) /\ cache' = cache /\ BadSync
          /\ hdr' \in {hdr, [st |-> "ok", cnt |-> 0]}
      BY <1>2, <2>3 DEF HeaderError, At
    <3>2. pc'[h] = "closed"
      BY <3>1 DEF FailOpen, Goto, TypeInv, CallInv, CallTypeOK
    <3>. QED  BY <1>2, <3>1, <3>2, CreateHeader DEF Creating
  <2>. QED  BY <2>1, <2>2, <2>3
<1>. QED  BY <1>1, <1>2

-----------------------------------------------------------------------------
(* The invariant. *)

LEMMA KeyInit == Init => KeyInv
<1>. SUFFICES ASSUME Init PROVE KeyInv
  OBVIOUS
<1>1. TypeInv /\ LockInv
  BY InitType, LockInvInit
<1>2. Blank
  BY DEF Init, Blank, LiveRec, EmptyRec, AbsentRec
<1>3. HeaderInv
  BY <1>2 DEF Init, HeaderInv, Starting, Creating
<1>4. \A h \in Handles : Task(h)
  BY DEF Init, Task
<1>. QED  BY <1>1, <1>3, <1>4 DEF KeyInv

\* A killed process leaves the file and the calls of the others as they are.
LEMMA KillKeeps ==
  ASSUME KeyInv, NEW p \in Procs, Kill(p)
  PROVE  HeaderInv' /\ \A h \in Handles : Task(h)'
<1>. DEFINE H == {h \in Handles : ProcOf[h] = p}
<1>1. UNCHANGED <<cache, media, hdr>> /\ Gone(H, {p})
  BY DEF Kill, file
<1>2. \A h \in H : pc'[h] = "closed"
  BY <1>1 DEF Gone
<1>3. \A h \in Handles \ H : SameCall(h)
  BY <1>1 DEF Gone, SameCall
<1>. HIDE DEF H
<1>4. \A h \in Handles : Task(h)'
  <2>. SUFFICES ASSUME NEW h \in Handles PROVE Task(h)'
    OBVIOUS
  <2>1. CASE h \in H
    BY <1>2, <2>1, TaskIdle DEF Busy
  <2>2. CASE h \notin H
    BY <1>1, <1>3, <2>2, TaskKept DEF KeyInv
  <2>. QED  BY <2>1, <2>2
<1>5. \A h \in Handles : pc'[h] = "closed" \/ SameCall(h)
  BY <1>2, <1>3
<1>6. \A h \in Handles : Creating(h)' => Creating(h)
  BY <1>5 DEF Creating, SameCall
<1>7. \A h \in Handles : pc'[h] # "closed" /\ ~Starting(h)' => pc[h] # "closed" /\ ~Starting(h)
  BY <1>5 DEF Starting, SameCall
<1>8. HeaderInv'
  BY <1>1, <1>6, <1>7 DEF KeyInv, HeaderInv, Blank, LiveRec
<1>. QED  BY <1>4, <1>8

LEMMA StillKeeps ==
  ASSUME KeyInv, Time \/ UNCHANGED vars
  PROVE  HeaderInv' /\ \A h \in Handles : Task(h)'
<1>1. UNCHANGED <<cache, media, hdr, pc, req, job>>
  BY DEF Time, vars, file
<1>2. \A h \in Handles : Task(h)'
  BY <1>1, TaskKept DEF KeyInv, SameCall
<1>3. \A h \in Handles : Creating(h)' = Creating(h) /\ Starting(h)' = Starting(h)
  BY <1>1 DEF Creating, Starting
<1>. QED  BY <1>1, <1>2, <1>3 DEF KeyInv, HeaderInv, Blank, LiveRec

\* A power cut closes every handle; what it leaves of a slot is live only if the
\* slot was, in the page cache or on the media.
LEMMA CutLeaves ==
  ASSUME PowerCut, NEW i \in Slots
  PROVE  /\ cache'[i] \in Survivors(cache[i], media[i]) /\ media' = cache'
         /\ LiveRec(cache'[i]) => cache'[i] \in {cache[i], media[i]}
<1>1. PICK img \in PowerCutImages(cache, media) : cache' = img /\ media' = img
  BY DEF PowerCut
<1>2. img[i] \in Survivors(cache[i], media[i])
  BY <1>1 DEF PowerCutImages
<1>3. \A r \in TornRecs(media[i], cache[i]) : ~LiveRec(r)
  BY DEF TornRecs, LiveRec, EmptyRec
<1>. QED  BY <1>1, <1>2, <1>3 DEF Survivors

LEMMA CutKeeps ==
  ASSUME KeyInv, PowerCut
  PROVE  HeaderInv' /\ \A h \in Handles : Task(h)'
<1>1. hdr' = hdr /\ \A h \in Handles : pc'[h] = "closed"
  BY DEF PowerCut, Gone
<1>2. Blank => Blank'
  BY CutLeaves DEF Blank, LiveRec
<1>3. \A h \in Handles : Task(h)'
  BY <1>1, TaskIdle DEF Busy
<1>4. \A h \in Handles : ~Creating(h)'
  BY <1>1 DEF Creating
<1>. QED  BY <1>1, <1>2, <1>3, <1>4 DEF KeyInv, HeaderInv

LEMMA BudgetOnlyFalls ==
  ASSUME TypeInv, [Next]_vars, NEW r \in Resources, budget[r] = 0
  PROVE  budget'[r] = 0
<1>1. budget \in [Resources -> Nat]
  BY DEF TypeInv, EnvTypeOK
<1>2. ASSUME NEW q \in Resources, Spend(q) PROVE budget'[r] = 0
  BY <1>1, <1>2 DEF Spend
<1>3. ASSUME NEW h \in Handles, Client(h) \/ Run(h) \/ Fail(h) PROVE budget'[r] = 0
  <2>1. CASE Client(h)
    BY <1>2, <2>1 DEF Client, Open, Close, Call, Resources
  <2>2. CASE Run(h)
    <3>1. UNCHANGED budget
      BY <2>2 DEF Run, Lock, LockTimeout, Scan, ScanInit, ScanOpen, ScanWrite, ScanDelete,
                  ScanRepair, ScanCompact, ScanRead, Reread, Put, PutSync, Mark, MarkSync,
                  ImageStep, ImageSync, Header
    <3>. QED  BY <3>1
  <2>3. CASE Fail(h)
    BY <1>2, <2>3 DEF Fail, PutError, MarkError, ImageError, HeaderError, Resources
  <2>. QED  BY <1>3, <2>1, <2>2, <2>3
<1>4. CASE (\E p \in Procs : Kill(p)) \/ PowerCut
  BY <1>2, <1>4 DEF Kill, PowerCut, Resources
<1>5. CASE Time \/ UNCHANGED vars
  BY <1>5 DEF Time, vars
<1>. QED  BY <1>3, <1>4, <1>5 DEF Next

LEMMA NoPowerCut == ASSUME TypeInv, NoCuts PROVE ~PowerCut
BY DEF TypeInv, EnvTypeOK, NoCuts, PowerCut, Spend, Resources

LEMMA KeyStep == ASSUME OneHandlePerProcess, KeyInv, [Next]_vars PROVE KeyInv'
<1>. TypeInv /\ LockInv
  BY DEF KeyInv
<1>1. TypeInv' /\ LockInv'
  BY TypeStep, LockInvStep DEF TypeInv
<1>2. HeaderInv' /\ \A h \in Handles : Task(h)'
  <2>1. ASSUME NEW h \in Handles, Client(h) \/ Run(h) \/ Fail(h)
        PROVE  HeaderInv' /\ \A g \in Handles : Task(g)'
    BY <2>1, ClientHeader, RunHeader, OwnTask, TaskStep
  <2>. QED  BY <2>1, KillKeeps, CutKeeps, StillKeeps DEF Next
<1>. QED  BY <1>1, <1>2 DEF KeyInv

-----------------------------------------------------------------------------
(* What a step can do to a key. *)

\* The slot that is written held the only copy of a key that goes away.
LEMMA OnlyCopy ==
  ASSUME cache \in Image, NEW i \in Slots, NEW r, Store(i, r), NEW k,
         Live(cache, k), ~Live(cache', k)
  PROVE  /\ Holds(i, k)
         /\ ~(LiveRec(r) /\ r.key = k)
         /\ \A j \in Slots \ {i} : ~Holds(j, k)
<1>1. cache'[i] = r /\ \A j \in Slots \ {i} : cache'[j] = cache[j]
  BY OneSlotWritten
<1>2. \A j \in Slots : ~(LiveRec(cache'[j]) /\ cache'[j].key = k)
  BY DEF Live, Copies, LiveSlots
<1>3. \E j \in Slots : Holds(j, k)
  BY DEF Live, Copies, LiveSlots, Holds
<1>4. \A j \in Slots \ {i} : ~Holds(j, k)
  BY <1>1, <1>2 DEF Holds
<1>. QED  BY <1>1, <1>2, <1>3, <1>4

\* What a call that writes may take away, by where it is.
LEMMA AtRisk ==
  ASSUME KeyInv, NEW h \in Handles, pc[h] \in {"put", "mark", "image"}, NEW r,
         Store(NextSlot(h), r), NEW k, Live(cache, k), ~Live(cache', k)
  PROVE  Deleting(h, k) \/ InPlace(h, k) \/ Compacting(h)
<1>. DEFINE i == NextSlot(h)
<1>1. i \in job[h].todo /\ i \in Slots /\ cache \in Image
  BY WriteTypes DEF KeyInv
<1>2. Holds(i, k) /\ \A j \in Slots \ {i} : ~Holds(j, k)
  BY <1>1, OnlyCopy
<1>. HIDE DEF i
<1>3. CASE pc[h] = "put"
  <2>1. PutTask(h)
    BY <1>3 DEF KeyInv, Task
  <2>2. cache[i].state # "EMPTY"
    BY <1>2 DEF Holds, LiveRec
  <2>3. job[h].old = i /\ cache[i].key = req[h].key
    BY <1>1, <1>3, <2>1, <2>2 DEF PutTask
  <2>. QED  BY <1>1, <1>2, <1>3, <2>3 DEF InPlace, Holds
<1>4. CASE pc[h] = "mark"
  <2>1. MarkTask(h)
    BY <1>4 DEF KeyInv, Task
  <2>2. req[h].kind = "delete" /\ cache[i].key = req[h].key
    BY <1>1, <1>2, <2>1 DEF MarkTask, Holds
  <2>. QED  BY <1>2, <1>4, <2>2 DEF Deleting, Holds
<1>5. CASE pc[h] = "image"
  <2>1. ImageTask(h)
    BY <1>5 DEF KeyInv, Task
  <2>2. req[h].kind = "compact"
    BY <1>1, <1>2, <2>1 DEF ImageTask, Holds
  <2>. QED  BY <1>5, <2>2 DEF Compacting
<1>. QED  BY <1>3, <1>4, <1>5

LEMMA WhoWrites ==
  ASSUME TypeInv, NoCuts, [Next]_vars, cache' # cache
  PROVE  \E h \in Handles : /\ pc[h] \in {"put", "mark", "image"}
                            /\ \E r : Store(NextSlot(h), r)
                            /\ Put(h) \/ Mark(h) \/ ImageStep(h) \/ Fail(h)
<1>1. ~PowerCut
  BY NoPowerCut
<1>2. PICK h \in Handles : Client(h) \/ Run(h) \/ Fail(h)
  BY <1>1 DEF Next, Kill, Time, vars, file
<1>3. Put(h) \/ Mark(h) \/ ImageStep(h) \/ PutError(h) \/ MarkError(h) \/ ImageError(h)
  BY <1>2 DEF Client, Open, Close, Call, Run, Fail, Lock, LockTimeout, Scan, ScanInit, ScanOpen,
              ScanWrite, ScanDelete, ScanRepair, ScanCompact, ScanRead, Reread, PutSync, MarkSync,
              ImageSync, Header, HeaderError, file
<1>4. CASE Put(h) \/ Mark(h) \/ ImageStep(h)
  BY <1>4 DEF Put, Mark, ImageStep
<1>5. CASE PutError(h) \/ MarkError(h) \/ ImageError(h)
  <2>1. Fail(h)
    BY <1>5 DEF Fail
  <2>2. pc[h] \in {"put", "mark", "image"} /\ \E r : BadWrite(NextSlot(h), r)
    BY <1>5 DEF PutError, MarkError, ImageError
  <2>3. \E r : Store(NextSlot(h), r)
    BY <2>2 DEF BadWrite
  <2>. QED  BY <2>1, <2>2, <2>3
<1>. QED  BY <1>3, <1>4, <1>5

\* Whatever is killed and whichever write or sync fails, the only calls that put
\* the last copy of a key at risk are a delete of it, a write of it in place, and
\* compact (robust_cfg.c:514, 519, 735).
THEOREM CopiesAreKept ==
  ASSUME OneHandlePerProcess, Budget["cut"] = 0
  PROVE  Spec => SafetyNet
<1>1. Init => KeyInv /\ NoCuts
  BY KeyInit DEF Init, NoCuts
<1>2. KeyInv /\ NoCuts /\ [Next]_vars => (KeyInv /\ NoCuts)'
  BY KeyStep, BudgetOnlyFalls DEF KeyInv, NoCuts, Resources
<1>3. KeyInv /\ NoCuts /\ [Next]_vars =>
        [\A k \in Keys : Live(cache, k) =>
           \/ Live(cache', k)
           \/ \E h \in Handles : Deleting(h, k) \/ InPlace(h, k) \/ Compacting(h)]_cache
  <2>. SUFFICES ASSUME KeyInv, NoCuts, [Next]_vars, cache' # cache, NEW k \in Keys,
                       Live(cache, k), ~Live(cache', k)
                PROVE  \E h \in Handles : Deleting(h, k) \/ InPlace(h, k) \/ Compacting(h)
    OBVIOUS
  <2>1. PICK h \in Handles : /\ pc[h] \in {"put", "mark", "image"}
                             /\ \E r : Store(NextSlot(h), r)
    BY WhoWrites DEF KeyInv
  <2>. QED  BY <2>1, AtRisk
<1>. QED  BY <1>1, <1>2, <1>3, PTL DEF Spec, SafetyNet

-----------------------------------------------------------------------------
(* What has happened so far shows in the budget. *)
BudgetInv == \A r \in Resources : budget[r] <= Budget[r]

LEMMA BudgetFalls ==
  ASSUME TypeInv, [Next]_vars
  PROVE  /\ \A r \in Resources : budget'[r] <= budget[r]
         /\ (\E p \in Procs : Kill(p)) => budget'["kill"] < budget["kill"]
         /\ PowerCut => budget'["cut"] < budget["cut"]
         /\ (\E h \in Handles : Fail(h)) => budget'["fault"] < budget["fault"]
<1>1. budget \in [Resources -> Nat]
  BY DEF TypeInv, EnvTypeOK
<1>2. \A q \in Resources : Spend(q) => /\ budget'[q] < budget[q]
                                       /\ \A r \in Resources : budget'[r] <= budget[r]
  BY <1>1 DEF Spend
<1>3. UNCHANGED budget => \A r \in Resources : budget'[r] <= budget[r]
  BY <1>1
<1>4. (\E h \in Handles : Fail(h)) => Spend("fault")
  BY DEF Fail, PutError, MarkError, ImageError, HeaderError
<1>5. (\E p \in Procs : Kill(p)) => Spend("kill")
  BY DEF Kill
<1>6. PowerCut => Spend("cut")
  BY DEF PowerCut
<1>7. ASSUME NEW h \in Handles, Client(h) \/ Run(h) PROVE UNCHANGED budget \/ Spend("call")
  BY <1>7 DEF Client, Open, Close, Call, Run, Lock, LockTimeout, Scan, ScanInit, ScanOpen, ScanWrite,
           ScanDelete, ScanRepair, ScanCompact, ScanRead, Reread, Put, PutSync, Mark, MarkSync,
           ImageStep, ImageSync, Header
<1>8. Time \/ UNCHANGED vars => UNCHANGED budget
  BY DEF Time, vars
<1>9. UNCHANGED budget \/ Spend("call") \/ Spend("kill") \/ Spend("cut") \/ Spend("fault")
  BY <1>4, <1>5, <1>6, <1>7, <1>8 DEF Next
<1>10. \A r \in Resources : budget'[r] <= budget[r]
  BY <1>2, <1>3, <1>9 DEF Resources
<1>. QED  BY <1>2, <1>4, <1>5, <1>6, <1>10 DEF Resources

LEMMA NothingYet ==
  ASSUME TypeInv, BudgetInv, [Next]_vars
  PROVE  /\ BudgetInv'
         /\ NoErrorYet' => NoErrorYet /\ \A h \in Handles : ~Fail(h)
         /\ NoCrashYet' => NoCrashYet /\ NoErrorYet /\ ~PowerCut /\ (\A p \in Procs : ~Kill(p))
                           /\ \A h \in Handles : ~Fail(h)
<1>1. budget \in [Resources -> Nat] /\ budget' \in [Resources -> Nat] /\ Budget \in [Resources -> Nat]
  BY TypeStep, RobustCfgAssumption DEF TypeInv, EnvTypeOK
<1>2. \A r \in Resources : budget'[r] <= budget[r] /\ budget[r] <= Budget[r]
  BY BudgetFalls DEF BudgetInv
<1>3. BudgetInv'
  BY <1>1, <1>2 DEF BudgetInv
<1>4. \A r \in Resources : budget'[r] = Budget[r] => budget[r] = Budget[r] /\ ~(budget'[r] < budget[r])
  BY <1>1, <1>2
<1>. QED  BY <1>3, <1>4, BudgetFalls DEF NoErrorYet, NoCrashYet, Resources

-----------------------------------------------------------------------------
(***************************************************************************)
(* Until an I/O operation fails the calls the safety net leaves out are    *)
(* safe too.                                                               *)
(* compact computes its image from the file it scanned, o: the slots it has *)
(* still to write hold what the scan saw, the others what it wrote.  It     *)
(* writes upwards and moves records down, so a record is overwritten only   *)
(* after it has been written to its new slot.                               *)
(***************************************************************************)
CompactTask(h) ==
  pc[h] = "image" /\ req[h].kind = "compact" =>
    \E o \in Image : /\ job[h].plan = CompactImage(o)
                     /\ \A i \in job[h].todo : cache[i] = o[i]
                     /\ \A i \in Slots \ job[h].todo : cache[i] = job[h].plan[i]

SurviveInv == /\ KeyInv /\ NoCuts /\ BudgetInv
              /\ NoErrorYet => \A h \in Handles : CompactTask(h)

NoFaults == budget["fault"] = 0

LEMMA NothingFails == ASSUME TypeInv, NoFaults, NEW h \in Handles PROVE ~Fail(h)
BY DEF TypeInv, EnvTypeOK, NoFaults, Spend, Resources, Fail, PutError, MarkError, ImageError, HeaderError

LEMMA CompactKept ==
  ASSUME NEW g, CompactTask(g), SameCall(g), UNCHANGED cache
  PROVE  CompactTask(g)'
BY DEF CompactTask, SameCall

LEMMA CompactIdle ==
  ASSUME NEW g, pc'[g] # "image" \/ req'[g].kind # "compact"
  PROVE  CompactTask(g)'
BY DEF CompactTask

\* The steps after which a call has an image to write.
LEMMA ImageEntry ==
  ASSUME TypeInv, NEW h \in Handles, Client(h) \/ Run(h), pc'[h] = "image"
  PROVE  ScanInit(h) \/ ScanRepair(h) \/ ScanCompact(h) \/ ImageStep(h)
<1>1. \A l : Goto(h, l) => l = "image"
  BY DEF Goto, TypeInv, CallInv, CallTypeOK
<1>2. \A rc, v : ~Return(h, rc, v)
  BY <1>1 DEF Return
<1>3. ~FailOpen(h) /\ ~Opened(h)
  BY <1>1 DEF FailOpen, Opened
<1>4. ~Client(h)
  BY <1>1 DEF Client, Open, Close, Call
<1>5. ~Lock(h) /\ ~LockTimeout(h)
  BY <1>1, <1>3 DEF Lock, LockTimeout
<1>6. ~ScanOpen(h) /\ ~ScanWrite(h) /\ ~ScanDelete(h) /\ ~ScanRead(h)
  BY <1>1, <1>2, <1>3 DEF ScanOpen, ScanWrite, ScanDelete, ScanRead, Plan
<1>7. ~Reread(h) /\ ~Put(h) /\ ~PutSync(h) /\ ~Mark(h) /\ ~MarkSync(h) /\ ~ImageSync(h)
  BY <1>1, <1>2 DEF Reread, Put, PutSync, Mark, MarkSync, AfterMark, ImageSync
<1>8. ~Header(h)
  BY <1>2, <1>3 DEF Header, Finish
<1>. QED  BY <1>4, <1>5, <1>6, <1>7, <1>8 DEF Run, Scan

LEMMA CompactScanned ==
  ASSUME TypeInv, NEW h \in Handles, ScanCompact(h)
  PROVE  CompactTask(h)'
<1>1. /\ job'[h].todo = Slots /\ job'[h].plan = CompactImage(cache) /\ cache' = cache
  BY PlanEffect DEF ScanCompact, file
<1>2. cache \in Image
  BY DEF TypeInv, FileTypeOK
<1>. QED  BY <1>1, <1>2 DEF CompactTask

LEMMA CompactWritten ==
  ASSUME TypeInv, NEW h \in Handles, CompactTask(h), ImageStep(h)
  PROVE  CompactTask(h)'
<1>. DEFINE i == NextSlot(h)
<1>1. pc[h] = "image" /\ req' = req /\ Store(i, job[h].plan[i])
  BY DEF ImageStep
<1>2. i \in job[h].todo /\ i \in Slots /\ cache \in Image /\ job[h].todo \in SUBSET Slots
  BY <1>1, WriteTypes DEF Job
<1>3. job'[h].todo = job[h].todo \ {i} /\ job'[h].plan = job[h].plan
  BY AdvanceEffect DEF ImageStep
<1>4. cache'[i] = job[h].plan[i] /\ \A j \in Slots \ {i} : cache'[j] = cache[j]
  BY <1>1, <1>2, OneSlotWritten
<1>. HIDE DEF i
<1>5. CASE req[h].kind # "compact"
  BY <1>1, <1>5, CompactIdle
<1>6. CASE req[h].kind = "compact"
  <2>1. PICK o \in Image : /\ job[h].plan = CompactImage(o)
                           /\ \A j \in job[h].todo : cache[j] = o[j]
                           /\ \A j \in Slots \ job[h].todo : cache[j] = job[h].plan[j]
    BY <1>1, <1>6 DEF CompactTask
  <2>2. \A j \in job'[h].todo : cache'[j] = o[j]
    BY <1>2, <1>3, <1>4, <2>1
  <2>3. \A j \in Slots \ job'[h].todo : cache'[j] = job'[h].plan[j]
    BY <1>2, <1>3, <1>4, <2>1
  <2>. QED  BY <1>3, <2>1, <2>2, <2>3 DEF CompactTask
<1>. QED  BY <1>5, <1>6

LEMMA SurviveInit ==
  ASSUME Budget["cut"] = 0, Init
  PROVE  SurviveInv
<1>1. BudgetInv
  BY RobustCfgAssumption DEF Init, BudgetInv
<1>. QED  BY <1>1, KeyInit DEF SurviveInv, NoCuts, CompactTask, Init

LEMMA SurviveStep ==
  ASSUME OneHandlePerProcess, SurviveInv, [Next]_vars
  PROVE  SurviveInv'
<1>. KeyInv /\ TypeInv /\ BudgetInv /\ NoCuts
  BY DEF SurviveInv, KeyInv
<1>1. KeyInv' /\ NoCuts' /\ BudgetInv'
  BY KeyStep, BudgetOnlyFalls, NothingYet DEF NoCuts, Resources
<1>. SUFFICES ASSUME NoErrorYet', NEW g \in Handles PROVE CompactTask(g)'
  BY <1>1 DEF SurviveInv
<1>2. CompactTask(g) /\ \A h \in Handles : ~Fail(h)
  BY NothingYet DEF SurviveInv
<1>3. ASSUME NEW h \in Handles, Client(h) \/ Run(h) PROVE CompactTask(g)'
  <2>1. CASE g = h /\ pc'[h] # "image"
    BY <2>1, CompactIdle
  <2>2. CASE g = h /\ pc'[h] = "image"
    <3>1. ScanInit(h) \/ ScanRepair(h) \/ ScanCompact(h) \/ ImageStep(h)
      BY <1>3, <2>2, ImageEntry
    <3>2. CASE ScanInit(h) \/ ScanRepair(h)
      BY <2>2, <3>2, CompactIdle DEF ScanInit, ScanRepair, Plan, At
    <3>. QED  BY <1>2, <2>2, <3>1, <3>2, CompactScanned, CompactWritten
  <2>3. CASE g # h
    <3>1. SameCall(g)
      BY <1>3, <2>3, StepOthers
    <3>2. CASE cache' = cache
      BY <1>2, <3>1, <3>2, CompactKept
    <3>3. CASE pc[h] \in Busy
      BY <2>3, <3>1, <3>3, AloneInFile, CompactIdle DEF SameCall, Busy
    <3>4. cache' # cache => pc[h] \in Busy
      BY <1>3 DEF Client, Open, Close, Call, Run, Lock, LockTimeout, Scan, ScanInit, ScanOpen,
           ScanWrite, ScanDelete, ScanRepair, ScanCompact, ScanRead, Reread, Put, PutSync, Mark,
           MarkSync, ImageStep, ImageSync, Header, file, Busy
    <3>. QED  BY <3>2, <3>3, <3>4
  <2>. QED  BY <2>1, <2>2, <2>3
<1>4. ASSUME NEW p \in Procs, Kill(p) PROVE CompactTask(g)'
  <2>1. cache' = cache /\ (pc'[g] = "closed" \/ SameCall(g))
    BY <1>4 DEF Kill, Gone, SameCall, file
  <2>. QED  BY <1>2, <2>1, CompactKept, CompactIdle
<1>5. CASE Time \/ UNCHANGED vars
  <2>1. cache' = cache /\ SameCall(g)
    BY <1>5 DEF Time, vars, file, SameCall
  <2>. QED  BY <1>2, <2>1, CompactKept
<1>. QED  BY <1>2, <1>3, <1>4, <1>5, NoPowerCut DEF Next

\* The record compact writes over has its copy elsewhere, or is written again.
LEMMA CompactLosesNothing ==
  ASSUME TypeInv, NEW h \in Handles, CompactTask(h), ImageStep(h), Compacting(h),
         NEW k, Live(cache, k)
  PROVE  Live(cache', k)
<1>. DEFINE i == NextSlot(h)
<1>. SUFFICES ASSUME ~Live(cache', k) PROVE FALSE
  OBVIOUS
<1>1. pc[h] = "image" /\ Store(i, job[h].plan[i])
  BY DEF ImageStep
<1>2. i \in Slots /\ cache \in Image
  BY <1>1, WriteTypes
<1>3. \A j \in job[h].todo : i <= j
  BY NextSlotType DEF TypeInv, CallInv, JobShape, Compacting
<1>4. i \in job[h].todo
  BY <1>1, WriteTypes
<1>5. /\ Holds(i, k) /\ \A j \in Slots \ {i} : ~Holds(j, k)
      /\ ~(LiveRec(job[h].plan[i]) /\ job[h].plan[i].key = k)
  BY <1>1, <1>2, OnlyCopy
<1>. HIDE DEF i
<1>6. PICK o \in Image : /\ job[h].plan = CompactImage(o)
                         /\ \A j \in job[h].todo : cache[j] = o[j]
                         /\ \A j \in Slots \ job[h].todo : cache[j] = job[h].plan[j]
  BY DEF CompactTask, Compacting
<1>7. i \in LiveSlots(o) /\ LiveRec(o[i]) /\ o[i].key = k
  BY <1>2, <1>4, <1>5, <1>6 DEF Holds, LiveSlots
<1>8. PICK m \in Slots : m <= i /\ job[h].plan[m] = o[i]
  BY <1>6, <1>7, CompactKeeps
<1>9. m # i
  BY <1>5, <1>7, <1>8
<1>10. m \notin job[h].todo
  BY <1>2, <1>3, <1>8, <1>9, FormatAssumption DEF Slots
<1>11. Holds(m, k)
  BY <1>6, <1>7, <1>8, <1>10 DEF Holds
<1>. QED  BY <1>5, <1>9, <1>11

\* Without power cuts, and until an I/O operation fails, a key is lost only by a
\* delete of it: not by a write in place, and not by compact, even when the process
\* is killed in the middle of one (robust_cfg.c:514, 519, 735; test_fault_inject.c:210).
THEOREM KeysAreKept ==
  ASSUME OneHandlePerProcess, Budget["cut"] = 0
  PROVE  Spec => KeysSurvive
<1>1. Init => SurviveInv
  BY SurviveInit
<1>2. SurviveInv /\ [Next]_vars => SurviveInv'
  BY SurviveStep
<1>3. SurviveInv /\ [Next]_vars =>
        [NoErrorYet' => \A k \in Keys : Live(cache, k) =>
           Live(cache', k) \/ \E h \in Handles : Deleting(h, k)]_cache
  <2>. SUFFICES ASSUME SurviveInv, [Next]_vars, cache' # cache, NoErrorYet', NEW k \in Keys,
                       Live(cache, k), ~Live(cache', k)
                PROVE  \E h \in Handles : Deleting(h, k)
    OBVIOUS
  <2>. KeyInv /\ TypeInv /\ BudgetInv /\ NoCuts
    BY DEF SurviveInv, KeyInv
  <2>0. (\A h \in Handles : CompactTask(h)) /\ \A h \in Handles : ~Fail(h)
    BY NothingYet DEF SurviveInv
  <2>1. PICK h \in Handles : /\ pc[h] \in {"put", "mark", "image"}
                             /\ \E r : Store(NextSlot(h), r)
                             /\ Put(h) \/ Mark(h) \/ ImageStep(h)
    BY <2>0, WhoWrites
  <2>2. Deleting(h, k) \/ InPlace(h, k) \/ Compacting(h)
    BY <2>1, AtRisk
  <2>3. CASE pc[h] = "put"
    <3>. DEFINE i == NextSlot(h)
    <3>1. Store(i, job[h].plan[i]) /\ i \in job[h].todo /\ i \in Slots /\ cache \in Image
      BY <2>1, <2>3, WriteTypes DEF Put, Mark, ImageStep
    <3>. HIDE DEF i
    <3>2. LiveRec(job[h].plan[i]) /\ job[h].plan[i].key = req[h].key
      BY <2>3, <3>1 DEF KeyInv, Task, PutTask
    <3>3. ~(LiveRec(job[h].plan[i]) /\ job[h].plan[i].key = k)
      BY <3>1, OnlyCopy
    <3>4. ~InPlace(h, k) /\ ~Compacting(h)
      BY <2>3, <3>2, <3>3 DEF InPlace, Compacting
    <3>. QED  BY <2>2, <3>4
  <2>4. CASE pc[h] = "mark"
    BY <2>2, <2>4 DEF InPlace, Compacting
  <2>5. CASE pc[h] = "image"
    <3>1. ImageStep(h) /\ CompactTask(h)
      BY <2>0, <2>1, <2>5 DEF Put, Mark
    <3>. QED  BY <2>2, <2>5, <3>1, CompactLosesNothing DEF InPlace
  <2>. QED  BY <2>1, <2>3, <2>4, <2>5
<1>. QED  BY <1>1, <1>2, <1>3, PTL DEF Spec, KeysSurvive
=============================================================================
