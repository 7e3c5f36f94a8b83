--------------------------- MODULE RobustCfg_proofs ---------------------------
(***************************************************************************)
(* Theorems about the robust-config library, for every number of slots,    *)
(* keys, values, handles and processes, and every Budget.                  *)
(***************************************************************************)
EXTENDS RobustCfgProps, FiniteSetTheorems, TLAPS

-----------------------------------------------------------------------------
(* What the computations of RobustCfgFormat return, on every image of the file. *)

\* The number of slots is finite, and so is every set of slots.
LEMMA SlotsFinite ==
  /\ IsFiniteSet(Slots)
  /\ \A S \in SUBSET Slots : IsFiniteSet(S) /\ Cardinality(S) \in Nat
<1>1. IsFiniteSet(Slots)
  BY FS_Interval, FormatAssumption DEF Slots
<1>2. ASSUME NEW S \in SUBSET Slots
      PROVE  IsFiniteSet(S) /\ Cardinality(S) \in Nat
  BY <1>1, FS_Subset, FS_CardinalityType
<1>. QED  BY <1>1, <1>2

\* A non-empty set of slots has a least and a greatest element: what the
\* ascending loops and the "last match" of robust_cfg.c find.
LEMMA Extremes ==
  ASSUME NEW S \in SUBSET Slots, S # {}
  PROVE  /\ \E x \in S : \A y \in S : x <= y
         /\ \E x \in S : \A y \in S : x >= y
<1>. DEFINE Good(T) == /\ \E x \in T : \A y \in T : x <= y
                       /\ \E x \in T : \A y \in T : x >= y
            Bad == {T \in SUBSET Slots : T # {} /\ ~Good(T)}
<1>1. FiniteSubsetsOf(Slots) = SUBSET Slots
  BY SlotsFinite, FS_FiniteSubsetsOfFinite
<1>2. SUFFICES ASSUME Bad # {} PROVE FALSE
  OBVIOUS
<1>3. PICK T \in Bad : \A U \in Bad : <<U, T>> \notin StrictSubsetOrdering(Slots)
  <2>1. Bad \subseteq FiniteSubsetsOf(Slots)
    BY <1>1
  <2>2. IsWellFoundedOn(StrictSubsetOrdering(Slots), FiniteSubsetsOf(Slots))
    BY FS_StrictSubsetOrderingWellFounded
  <2>. QED  BY <1>2, <2>1, <2>2, WFMin
<1>4. PICK x \in T : TRUE
  OBVIOUS
<1>5. T \subseteq Int
  BY FormatAssumption DEF Slots
<1>6. T \ {x} # {}
  <2>. SUFFICES ASSUME T = {x} PROVE FALSE
    OBVIOUS
  <2>1. Good(T)
    BY <1>5
  <2>. QED  BY <2>1
<1>7. Good(T \ {x})
  <2>1. T \ {x} \notin Bad
    BY <1>3, <1>4 DEF StrictSubsetOrdering
  <2>. QED  BY <1>6, <2>1
<1>8. \E a \in T : \A y \in T : a <= y
  <2>1. PICK a \in T \ {x} : \A y \in T \ {x} : a <= y
    BY <1>7
  <2>2. CASE a <= x
    BY <2>1, <2>2
  <2>3. CASE ~(a <= x)
    <3>1. \A y \in T : x <= y
      BY <1>5, <2>1, <2>3
    <3>. QED  BY <3>1
  <2>. QED  BY <2>2, <2>3
<1>9. \E a \in T : \A y \in T : a >= y
  <2>1. PICK a \in T \ {x} : \A y \in T \ {x} : a >= y
    BY <1>7
  <2>2. CASE a >= x
    BY <2>1, <2>2
  <2>3. CASE ~(a >= x)
    <3>1. \A y \in T : x >= y
      BY <1>5, <2>1, <2>3
    <3>. QED  BY <3>1
  <2>. QED  BY <2>2, <2>3
<1>. QED  BY <1>8, <1>9

LEMMA MinMaxSlot ==
  ASSUME NEW S \in SUBSET Slots, S # {}
  PROVE  /\ Min(S) \in S /\ \A y \in S : Min(S) <= y
         /\ Max(S) \in S /\ \A y \in S : Max(S) >= y
BY Extremes DEF Min, Max

\* Among the copies of a key one is preferred to all: robust_cfg_read's choice
\* is well defined, ties included.
LEMMA BestExists ==
  ASSUME NEW img \in Image, NEW S \in SUBSET Slots, S # {}
  PROVE  \E i \in S : \A j \in S : Beats(img, i, j)
<1>. DEFINE Good(T) == \E i \in T : \A j \in T : Beats(img, i, j)
            Bad == {T \in SUBSET Slots : T # {} /\ ~Good(T)}
<1>1. FiniteSubsetsOf(Slots) = SUBSET Slots
  BY SlotsFinite, FS_FiniteSubsetsOfFinite
<1>2. SUFFICES ASSUME Bad # {} PROVE FALSE
  OBVIOUS
<1>3. PICK T \in Bad : \A U \in Bad : <<U, T>> \notin StrictSubsetOrdering(Slots)
  <2>1. Bad \subseteq FiniteSubsetsOf(Slots)
    BY <1>1
  <2>2. IsWellFoundedOn(StrictSubsetOrdering(Slots), FiniteSubsetsOf(Slots))
    BY FS_StrictSubsetOrderingWellFounded
  <2>. QED  BY <1>2, <2>1, <2>2, WFMin
<1>4. PICK x \in T : TRUE
  OBVIOUS
<1>5. \A i \in Slots : i \in Int /\ img[i].ts \in Nat
  BY FormatAssumption DEF Slots, Image, Record
<1>6. T \ {x} # {}
  <2>. SUFFICES ASSUME T = {x} PROVE FALSE
    OBVIOUS
  <2>1. Beats(img, x, x)
    BY <1>5 DEF Beats
  <2>. QED  BY <2>1
<1>7. PICK a \in T \ {x} : \A j \in T \ {x} : Beats(img, a, j)
  <2>1. T \ {x} \notin Bad
    BY <1>3, <1>4 DEF StrictSubsetOrdering
  <2>. QED  BY <1>6, <2>1
<1>8. CASE Beats(img, a, x)
  <2>1. \A j \in T : Beats(img, a, j)
    BY <1>7, <1>8
  <2>. QED  BY <2>1
<1>9. CASE ~Beats(img, a, x)
  <2>1. \A j \in T : Beats(img, x, j)
    BY <1>5, <1>7, <1>9 DEF Beats
  <2>. QED  BY <2>1
<1>. QED  BY <1>8, <1>9

LEMMA CopiesAreSlots ==
  ASSUME NEW img, NEW k
  PROVE  Copies(img, k) \subseteq LiveSlots(img) /\ LiveSlots(img) \subseteq Slots
BY DEF Copies, LiveSlots

\* The slots the scans of write and read settle on.
LEMMA ScanResults ==
  ASSUME NEW img \in Image, NEW k
  PROVE  /\ FirstEmpty(img) # NoSlot => FirstEmpty(img) \in Slots /\ img[FirstEmpty(img)].state = "EMPTY"
         /\ LastCopy(img, k) # NoSlot => LastCopy(img, k) \in Copies(img, k)
         /\ Winner(img, k) # NoSlot => Winner(img, k) \in Copies(img, k)
         /\ Live(img, k) <=> Winner(img, k) # NoSlot
         /\ Live(img, k) <=> LastCopy(img, k) # NoSlot
<1>1. NoSlot \notin Slots
  BY FormatAssumption DEF Slots, NoSlot
<1>2. FirstEmpty(img) # NoSlot => FirstEmpty(img) \in Slots /\ img[FirstEmpty(img)].state = "EMPTY"
  <2>. DEFINE E == {i \in Slots : img[i].state = "EMPTY"}
  <2>1. E # {} => Min(E) \in E
    BY MinMaxSlot
  <2>. QED  BY <2>1 DEF FirstEmpty
<1>3. Live(img, k) => LastCopy(img, k) \in Copies(img, k)
  BY MinMaxSlot, CopiesAreSlots DEF Live, LastCopy
<1>4. Live(img, k) => Winner(img, k) \in Copies(img, k)
  BY BestExists, CopiesAreSlots DEF Live, Winner, BestCopy
<1>. QED  BY <1>1, <1>2, <1>3, <1>4, CopiesAreSlots DEF LastCopy, Winner

LEMMA VisibleType ==
  ASSUME NEW img \in Image, NEW k
  PROVE  Visible(img, k) \in Vals \cup {NoVal}
<1>1. CASE Live(img, k)
  <2>1. Winner(img, k) \in Slots
    BY <1>1, ScanResults, CopiesAreSlots
  <2>2. img[Winner(img, k)] \in Record
    BY <2>1 DEF Image
  <2>. QED  BY <1>1, <2>2 DEF Visible, Record
<1>2. CASE ~Live(img, k)
  BY <1>2 DEF Visible
<1>. QED  BY <1>1, <1>2

\* compact moves a live record down or leaves it where it is: the record that
\* starts in slot s ends in a slot that is written no later than s.
LEMMA RankBounds ==
  ASSUME NEW img, NEW s \in LiveSlots(img)
  PROVE  Rank(img, s) \in Nat /\ Rank(img, s) <= s
<1>. DEFINE Below == {r \in LiveSlots(img) : r < s}
<1>1. s \in Nat /\ LiveSlots(img) \subseteq Nat
  BY FormatAssumption DEF LiveSlots, Slots
<1>2. Below \in SUBSET (0 .. s - 1)
  BY <1>1
<1>3. IsFiniteSet(0 .. s - 1) /\ Cardinality(0 .. s - 1) = s
  <2>. DEFINE b == s - 1
  <2>1. 0 \in Int /\ b \in Int
    BY <1>1
  <2>2. IsFiniteSet(0 .. b) /\ Cardinality(0 .. b) = IF 0 > b THEN 0 ELSE b - 0 + 1
    BY <2>1, FS_Interval
  <2>. QED  BY <1>1, <2>2
<1>4. IsFiniteSet(Below) /\ Cardinality(Below) <= s
  BY <1>2, <1>3, FS_Subset
<1>5. Cardinality(Below) \in Nat
  BY <1>4, FS_CardinalityType
<1>. QED  BY <1>4, <1>5 DEF Rank

LEMMA RankStrict ==
  ASSUME NEW img, NEW s \in LiveSlots(img), NEW t \in LiveSlots(img), s < t
  PROVE  Rank(img, s) < Rank(img, t)
<1>. DEFINE Below(x) == {r \in LiveSlots(img) : r < x}
<1>1. LiveSlots(img) \subseteq Nat /\ LiveSlots(img) \subseteq Slots
  BY FormatAssumption DEF LiveSlots, Slots
<1>2. Below(s) \in SUBSET Slots /\ Below(t) \in SUBSET Slots
  BY <1>1
<1>3. /\ IsFiniteSet(Below(s)) /\ Cardinality(Below(s)) \in Nat
      /\ IsFiniteSet(Below(t)) /\ Cardinality(Below(t)) \in Nat
  BY <1>2, SlotsFinite
<1>4. Below(s) \cup {s} \in SUBSET Below(t)
  BY <1>1
<1>5. s \notin Below(s)
  BY <1>1
<1>6. Cardinality(Below(s) \cup {s}) = Cardinality(Below(s)) + 1
  BY <1>3, <1>5, FS_AddElement
<1>7. Cardinality(Below(s) \cup {s}) <= Cardinality(Below(t))
  BY <1>3, <1>4, FS_Subset
<1>. QED  BY <1>3, <1>6, <1>7 DEF Rank

LEMMA CompactKeeps ==
  ASSUME NEW img \in Image
  PROVE  /\ CompactImage(img) \in Image
         /\ \A s \in LiveSlots(img) : \E i \in Slots : i <= s /\ CompactImage(img)[i] = img[s]
<1>1. LiveSlots(img) \subseteq Nat /\ LiveSlots(img) \subseteq Slots
  BY FormatAssumption DEF LiveSlots, Slots
<1>2. EmptyRec \in Record
  BY DEF EmptyRec, Record, SlotState
<1>3. CompactImage(img) \in Image
  BY <1>1, <1>2 DEF CompactImage, Image
<1>4. ASSUME NEW s \in LiveSlots(img)
      PROVE  \E i \in Slots : i <= s /\ CompactImage(img)[i] = img[s]
  <2>1. Rank(img, s) \in Nat /\ Rank(img, s) <= s
    BY RankBounds
  <2>2. Rank(img, s) \in Slots
    BY <1>1, <2>1, FormatAssumption DEF Slots
  <2>3. \A t \in LiveSlots(img) : Rank(img, t) = Rank(img, s) => t = s
    <3>. SUFFICES ASSUME NEW t \in LiveSlots(img), Rank(img, t) = Rank(img, s), t # s
                  PROVE  FALSE
      OBVIOUS
    <3>1. s < t \/ t < s
      BY <1>1
    <3>2. Rank(img, s) \in Nat /\ Rank(img, t) \in Nat
      BY RankBounds
    <3>. QED  BY <3>1, <3>2, RankStrict
  <2>4. CompactImage(img)[Rank(img, s)] = img[s]
    BY <2>2, <2>3 DEF CompactImage
  <2>. QED  BY <2>1, <2>2, <2>4
<1>. QED  BY <1>3, <1>4

-----------------------------------------------------------------------------
(* Type correctness. *)

CallInv == CallTypeOK /\ JobShape
TypeInv == FileTypeOK /\ CallInv /\ EnvTypeOK

\* The records and images the calls write are well-formed.
LEMMA RecordTypes ==
  /\ EmptyRec \in Record /\ AbsentRec \in Record
  /\ BlankImage \in Image
  /\ NoJob \in Job
  /\ \A k \in Keys, v \in Vals, t \in Nat : NewRec(k, v, t) \in Record
  /\ \A r \in Record, s \in SlotState : Marked(r, s) \in Record
  /\ \A r1, r2 \in Record : TornRecs(r1, r2) \subseteq Record
<1>1. EmptyRec \in Record /\ AbsentRec \in Record
  BY DEF EmptyRec, AbsentRec, Record, SlotState
<1>2. BlankImage \in Image
  BY <1>1 DEF BlankImage, Image
<1>3. NoJob \in Job
  BY <1>2 DEF NoJob, Job
<1>4. \A k \in Keys, v \in Vals, t \in Nat : NewRec(k, v, t) \in Record
  BY DEF NewRec, Record, SlotState
<1>5. \A r \in Record, s \in SlotState : Marked(r, s) \in Record
  BY DEF Marked, Record
<1>6. ASSUME NEW r1 \in Record, NEW r2 \in Record, NEW r \in TornRecs(r1, r2)
      PROVE  r \in Record
  <2>1. PICK s \in {r1.state, r2.state} : r = [EmptyRec EXCEPT !.state = s, !.good = FALSE]
    BY <1>6 DEF TornRecs
  <2>2. s \in SlotState
    BY <2>1 DEF Record
  <2>. QED  BY <1>1, <2>1, <2>2 DEF Record
<1>. QED  BY <1>1, <1>2, <1>3, <1>4, <1>5, <1>6

LEMMA RequestTypes ==
  ASSUME NEW r \in Requests \cup Openings \cup {NoReq}
  PROVE  /\ r.kind = "write" => r.key \in Keys /\ r.val \in Vals
         /\ r.kind \in {"read", "delete"} => r.key \in Keys
         /\ r.kind \in {"none", "init", "open", "write", "read", "delete", "repair", "compact"}
BY DEF Requests, Openings, NoReq

LEMMA ContentsType ==
  ASSUME cache \in Image
  PROVE  Contents \in [Keys -> Vals \cup {NoVal}] /\ Absent \in [Keys -> Vals \cup {NoVal}]
<1>1. Absent \in [Keys -> Vals \cup {NoVal}]
  BY DEF Absent
<1>2. \A k \in Keys : Visible(cache, k) \in Vals \cup {NoVal}
  BY VisibleType
<1>. QED  BY <1>1, <1>2 DEF Contents

LEMMA InitType == Init => TypeInv
<1>. SUFFICES ASSUME Init PROVE TypeInv
  OBVIOUS
<1>1. Absent \in [Keys -> Vals \cup {NoVal}]
  BY DEF Absent
<1>2. ProcOf \in [Handles -> Procs] /\ Budget \in [Resources -> Nat] /\ StartOpen \in BOOLEAN
  BY RobustCfgAssumption
<1>3. cache \in Image /\ media \in Image
  BY RecordTypes DEF Init, Image
<1>4. FileTypeOK /\ EnvTypeOK
  BY <1>2, <1>3 DEF Init, FileTypeOK, EnvTypeOK
<1>5. CallTypeOK
  BY <1>1, RecordTypes DEF Init, CallTypeOK, NoRet, Codes, Locations
<1>6. JobShape
  BY DEF Init, JobShape
<1>. QED  BY <1>4, <1>5, <1>6 DEF TypeInv, CallInv

(* The ways a step leaves a handle keep the calls well-formed. *)

LEMMA ReleaseType ==
  ASSUME CallInv, NEW h \in Handles, NEW l \in Rest, Release(h), Goto(h, l),
         ret' \in [Handles -> [rc : Codes, val : Vals \cup {NoVal}]]
  PROVE  CallInv'
<1>1. flock' \in [Procs -> {"none", "rd", "wr"}]
  BY DEF CallInv, CallTypeOK, Release
<1>2. pc' \in [Handles -> Locations]
  BY DEF CallInv, CallTypeOK, Goto, Locations, Rest
<1>3. req' \in [Handles -> Requests \cup Openings \cup {NoReq}]
  BY DEF CallInv, CallTypeOK, Release
<1>4. job' \in [Handles -> Job]
  BY RecordTypes DEF CallInv, CallTypeOK, Release
<1>5. view' \in [Handles -> [Keys -> Vals \cup {NoVal}]]
  <2>1. Absent \in [Keys -> Vals \cup {NoVal}]
    BY DEF Absent
  <2>. QED  BY <2>1 DEF CallInv, CallTypeOK, Release
<1>6. JobShape'
  BY DEF CallInv, CallTypeOK, JobShape, Release, Goto, Rest
<1>. QED  BY <1>1, <1>2, <1>3, <1>4, <1>5, <1>6 DEF CallInv, CallTypeOK

LEMMA ReturnType ==
  ASSUME CallInv, NEW h \in Handles, NEW rc \in Codes, NEW v \in Vals \cup {NoVal},
         Return(h, rc, v)
  PROVE  CallInv'
<1>1. ret' \in [Handles -> [rc : Codes, val : Vals \cup {NoVal}]]
  BY DEF CallInv, CallTypeOK, Return
<1>. QED  BY <1>1, ReleaseType DEF Return, Rest

LEMMA OpeningType ==
  ASSUME CallInv, NEW h \in Handles, FailOpen(h) \/ Opened(h)
  PROVE  CallInv'
<1>1. ret' \in [Handles -> [rc : Codes, val : Vals \cup {NoVal}]]
  BY DEF CallInv, CallTypeOK, FailOpen, Opened
<1>. QED  BY <1>1, ReleaseType DEF FailOpen, Opened, Rest

LEMMA PlanTypes ==
  ASSUME CallInv, NEW h \in Handles, NEW l \in Locations, NEW S \in SUBSET Slots,
         NEW img \in Image, NEW o \in Slots \cup {NoSlot}, NEW n \in Nat,
         l \in {"put", "putsync", "mark", "marksync", "image"} => S # {},
         l = "reread" => o \in Slots,
         Plan(h, l, S, img, o, n)
  PROVE  CallInv'
<1>1. [todo |-> S, plan |-> img, old |-> o, cnt |-> n] \in Job
  BY DEF Job
<1>2. CallTypeOK'
  BY <1>1 DEF CallInv, CallTypeOK, Plan, Goto
<1>3. JobShape'
  BY DEF CallInv, CallTypeOK, JobShape, Plan, Goto
<1>. QED  BY <1>2, <1>3 DEF CallInv

\* A call moves on and keeps what it was told to do.
LEMMA MoveType ==
  ASSUME CallInv, NEW h \in Handles, NEW l \in Locations, NEW j \in Job,
         l \in {"put", "putsync", "mark", "marksync", "image"} => j.todo # {},
         l = "reread" => j.old \in Slots,
         Goto(h, l), job' = [job EXCEPT ![h] = j], UNCHANGED <<flock, req, ret, view>>
  PROVE  CallInv'
<1>1. CallTypeOK'
  BY DEF CallInv, CallTypeOK, Goto
<1>2. JobShape'
  BY DEF CallInv, CallTypeOK, JobShape, Goto
<1>. QED  BY <1>1, <1>2 DEF CallInv

\* The slot a loop works on is one of those it has left, and the loop goes on
\* exactly as long as there are others.
LEMMA NextSlotType ==
  ASSUME CallInv, NEW h \in Handles, job[h].todo # {}
  PROVE  /\ NextSlot(h) \in job[h].todo
         /\ NextSlot(h) \in Slots
         /\ \A y \in job[h].todo : NextSlot(h) <= y
         /\ job[h] \in Job
         /\ job[h].todo # {NextSlot(h)} => job[h].todo \ {NextSlot(h)} # {}
<1>1. job[h] \in Job /\ job[h].todo \in SUBSET Slots
  BY DEF CallInv, CallTypeOK, Job
<1>2. NextSlot(h) \in job[h].todo /\ \A y \in job[h].todo : NextSlot(h) <= y
  BY <1>1, MinMaxSlot DEF NextSlot
<1>. QED  BY <1>1, <1>2

LEMMA AdvanceType ==
  ASSUME CallInv, NEW h \in Handles, job[h].todo # {}, NEW n \in Nat, NEW l \in Locations,
         l \in {"put", "putsync", "mark", "marksync", "image"} => job[h].todo # {NextSlot(h)},
         l # "reread",
         Goto(h, l), Advance(h, n), UNCHANGED <<flock, req, ret, view>>
  PROVE  CallInv'
<1>. DEFINE j == [job[h] EXCEPT !.todo = @ \ {NextSlot(h)}, !.cnt = @ + n]
<1>1. NextSlot(h) \in job[h].todo /\ job[h] \in Job
  BY NextSlotType
<1>2. j \in Job /\ j.todo = job[h].todo \ {NextSlot(h)}
  <2>1. /\ job[h].todo \ {NextSlot(h)} \in SUBSET Slots
        /\ job[h].cnt + n \in Nat
    BY <1>1 DEF Job
  <2>. QED  BY <1>1, <2>1 DEF Job
<1>3. job' = [job EXCEPT ![h] = j]
  BY <1>1 DEF Advance, CallInv, CallTypeOK, Job
<1>4. l \in {"put", "putsync", "mark", "marksync", "image"} => j.todo # {}
  BY <1>1, <1>2
<1>. HIDE DEF j
<1>. QED  BY <1>2, <1>3, <1>4, MoveType

LEMMA StoreType ==
  ASSUME cache \in Image, NEW i \in Slots, NEW r \in Record, Store(i, r)
  PROVE  cache' \in Image
BY DEF Store, Image

LEMMA BadWriteType ==
  ASSUME cache \in Image, NEW i \in Slots, NEW r \in Record, BadWrite(i, r)
  PROVE  cache' \in Image
<1>1. PICK left \in {cache[i]} \cup TornRecs(cache[i], r) : Store(i, left)
  BY DEF BadWrite
<1>2. cache[i] \in Record
  BY DEF Image
<1>3. left \in Record
  BY <1>1, <1>2, RecordTypes
<1>. QED  BY <1>1, <1>3, StoreType

LEMMA BadSyncType ==
  ASSUME cache \in Image, media \in Image, BadSync
  PROVE  media' \in Image
BY DEF BadSync, Image

LEMMA SpendType ==
  ASSUME EnvTypeOK, NEW r \in Resources, Spend(r), UNCHANGED clock
  PROVE  EnvTypeOK'
BY DEF EnvTypeOK, Spend

LEMMA ClientType ==
  ASSUME TypeInv, NEW h \in Handles, Client(h)
  PROVE  TypeInv'
<1>. FileTypeOK /\ CallInv /\ EnvTypeOK
  BY DEF TypeInv
<1>1. CASE Open(h)
  <2>1. FileTypeOK' /\ EnvTypeOK'
    BY <1>1 DEF Open, FileTypeOK, EnvTypeOK
  <2>2. \A c \in {"init", "open"} : [NoReq EXCEPT !.kind = c] \in Openings
    BY DEF Openings
  <2>3. CallTypeOK'
    BY <1>1, <2>2 DEF Open, Goto, CallInv, CallTypeOK, Locations
  <2>4. JobShape'
    BY <1>1 DEF Open, Goto, CallInv, CallTypeOK, JobShape
  <2>. QED  BY <2>1, <2>3, <2>4 DEF TypeInv, CallInv
<1>2. CASE Close(h)
  <2>1. FileTypeOK' /\ EnvTypeOK'
    BY <1>2 DEF Close, file, FileTypeOK, EnvTypeOK
  <2>2. CallTypeOK'
    BY <1>2 DEF Close, Goto, CallInv, CallTypeOK, Locations
  <2>3. JobShape'
    BY <1>2 DEF Close, Goto, CallInv, CallTypeOK, JobShape
  <2>. QED  BY <2>1, <2>2, <2>3 DEF TypeInv, CallInv
<1>3. ASSUME NEW r \in Requests, Call(h, r)
      PROVE  TypeInv'
  <2>1. FileTypeOK'
    BY <1>3 DEF Call, file, FileTypeOK
  <2>2. EnvTypeOK'
    BY <1>3, SpendType DEF Call, Resources
  <2>3. CallTypeOK'
    BY <1>3 DEF Call, Goto, CallInv, CallTypeOK, Locations, NoRet, Codes
  <2>4. JobShape'
    BY <1>3 DEF Call, Goto, CallInv, CallTypeOK, JobShape
  <2>. QED  BY <2>1, <2>2, <2>3, <2>4 DEF TypeInv, CallInv
<1>. QED  BY <1>1, <1>2, <1>3 DEF Client

LEMMA LockType ==
  ASSUME TypeInv, NEW h \in Handles, Lock(h) \/ LockTimeout(h)
  PROVE  TypeInv'
<1>. FileTypeOK /\ CallInv /\ EnvTypeOK
  BY DEF TypeInv
<1>1. FileTypeOK' /\ EnvTypeOK'
  BY DEF Lock, LockTimeout, file, FileTypeOK, EnvTypeOK
<1>2. CASE Lock(h)
  <2>1. Contents \in [Keys -> Vals \cup {NoVal}] /\ Absent \in [Keys -> Vals \cup {NoVal}]
    BY ContentsType DEF FileTypeOK
  <2>2. view' \in [Handles -> [Keys -> Vals \cup {NoVal}]]
    BY <1>2, <2>1 DEF Lock, CallInv, CallTypeOK
  <2>3. flock' \in [Procs -> {"none", "rd", "wr"}]
    BY <1>2 DEF Lock, CallInv, CallTypeOK
  <2>4. pc' \in [Handles -> Locations] /\ UNCHANGED <<req, job, ret>>
    BY <1>2 DEF Lock, Goto, CallInv, CallTypeOK, Locations
  <2>5. JobShape'
    BY <1>2 DEF Lock, Goto, CallInv, CallTypeOK, JobShape
  <2>. QED  BY <1>1, <2>2, <2>3, <2>4, <2>5 DEF TypeInv, CallInv, CallTypeOK
<1>3. CASE LockTimeout(h)
  <2>1. CASE FailOpen(h)
    BY <2>1, <1>1, OpeningType DEF TypeInv
  <2>2. CASE ~FailOpen(h)
    <3>1. /\ Goto(h, "ready")
          /\ ret' = [ret EXCEPT ![h] = [rc |-> "TIMEOUT", val |-> NoVal]]
          /\ req' = [req EXCEPT ![h] = NoReq]
          /\ UNCHANGED <<flock, job, view>>
      BY <1>3, <2>2 DEF LockTimeout
    <3>2. CallTypeOK'
      BY <3>1 DEF Goto, CallInv, CallTypeOK, Locations, Codes
    <3>3. JobShape'
      BY <3>1 DEF Goto, CallInv, CallTypeOK, JobShape
    <3>. QED  BY <1>1, <3>2, <3>3 DEF TypeInv, CallInv
  <2>. QED  BY <2>1, <2>2
<1>. QED  BY <1>2, <1>3

LEMMA ScanType ==
  ASSUME TypeInv, NEW h \in Handles, Scan(h)
  PROVE  TypeInv'
<1>. FileTypeOK /\ CallInv /\ EnvTypeOK
  BY DEF TypeInv
<1>a. cache \in Image
  BY DEF FileTypeOK
<1>b. req[h] \in Requests \cup Openings \cup {NoReq} /\ clock \in Nat
  BY DEF CallInv, CallTypeOK, EnvTypeOK
<1>c. EnvTypeOK'
  BY DEF Scan, ScanInit, ScanOpen, ScanWrite, ScanDelete, ScanRepair, ScanCompact, ScanRead,
         EnvTypeOK
<1>d. FileTypeOK'
  <2>1. CASE ScanInit(h)
    BY <2>1 DEF ScanInit, FileTypeOK
  <2>2. CASE UNCHANGED file
    BY <2>2 DEF file, FileTypeOK
  <2>. QED  BY <2>1, <2>2 DEF Scan, ScanOpen, ScanWrite, ScanDelete, ScanRepair, ScanCompact, ScanRead
<1>e. LiveCount \in Nat /\ LiveCount = Cardinality(LiveSlots(cache))
  BY SlotsFinite DEF LiveCount, LiveSlots
<1>f. Slots # {} /\ Slots \in SUBSET Slots
  BY FormatAssumption DEF Slots
<1>1. CASE ScanInit(h)
  <2>1. Plan(h, "image", Slots, BlankImage, NoSlot, 0)
    BY <1>1 DEF ScanInit
  <2>. QED  BY <2>1, <1>c, <1>d, <1>f, PlanTypes, RecordTypes DEF TypeInv, Locations
<1>2. CASE ScanOpen(h)
  <2>1. CASE FailOpen(h)
    BY <2>1, <1>c, <1>d, OpeningType DEF TypeInv
  <2>2. CASE ~FailOpen(h)
    <3>. DEFINE bad == ScrubSlots(cache)
                l == IF bad = {} THEN "hdr" ELSE "mark"
    <3>1. Plan(h, l, bad, BlankImage, NoSlot, LiveCount)
      BY <1>2, <2>2 DEF ScanOpen
    <3>2. /\ bad \in SUBSET Slots /\ l \in Locations /\ l # "reread"
          /\ l \in {"put", "putsync", "mark", "marksync", "image"} => bad # {}
      BY DEF ScrubSlots, Locations
    <3>. HIDE DEF bad, l
    <3>. QED  BY <3>1, <3>2, <1>c, <1>d, <1>e, PlanTypes, RecordTypes DEF TypeInv
  <2>. QED  BY <2>1, <2>2
<1>3. CASE ScanWrite(h)
  <2>. DEFINE k == req[h].key
              t == Target(k)
              img == [BlankImage EXCEPT ![t] = NewRec(k, req[h].val, clock)]
              o == LastCopy(cache, k)
  <2>1. k \in Keys /\ req[h].val \in Vals
    BY <1>3, <1>b, RequestTypes DEF ScanWrite, At
  <2>2. (t # NoSlot => t \in Slots) /\ o \in Slots \cup {NoSlot}
    BY <1>a, ScanResults, CopiesAreSlots DEF Target
  <2>3. CASE Return(h, "FULL", NoVal)
    BY <2>3, <1>c, <1>d, ReturnType DEF TypeInv, Codes
  <2>4. CASE t # NoSlot /\ Plan(h, "put", {t}, img, o, 0)
    <3>1. img \in Image
      BY <2>1, <1>b, RecordTypes DEF Image
    <3>2. {t} \in SUBSET Slots /\ {t} # {}
      BY <2>2, <2>4
    <3>. HIDE DEF img, t, o
    <3>. QED  BY <2>2, <2>4, <3>1, <3>2, <1>c, <1>d, PlanTypes DEF TypeInv, Locations
  <2>. QED  BY <1>3, <2>3, <2>4 DEF ScanWrite
<1>4. CASE ScanDelete(h)
  <2>. DEFINE c == Copies(cache, req[h].key)
  <2>1. CASE Return(h, "NOT_FOUND", NoVal)
    BY <2>1, <1>c, <1>d, ReturnType DEF TypeInv, Codes
  <2>2. CASE c # {} /\ Plan(h, "mark", c, BlankImage, NoSlot, 0)
    <3>1. c \in SUBSET Slots
      BY CopiesAreSlots
    <3>. HIDE DEF c
    <3>. QED  BY <2>2, <3>1, <1>c, <1>d, PlanTypes, RecordTypes DEF TypeInv, Locations
  <2>. QED  BY <1>4, <2>1, <2>2 DEF ScanDelete
<1>5. CASE ScanRepair(h)
  <2>. DEFINE bad == RepairSlots(cache)
              l == IF bad = {} THEN "imgsync" ELSE "image"
  <2>1. Plan(h, l, bad, BlankImage, NoSlot, LiveCount)
    BY <1>5 DEF ScanRepair
  <2>2. /\ bad \in SUBSET Slots /\ l \in Locations /\ l # "reread"
        /\ l \in {"put", "putsync", "mark", "marksync", "image"} => bad # {}
    BY DEF RepairSlots, Locations
  <2>. HIDE DEF bad, l
  <2>. QED  BY <2>1, <2>2, <1>c, <1>d, <1>e, PlanTypes, RecordTypes DEF TypeInv
<1>6. CASE ScanCompact(h)
  <2>1. CompactImage(cache) \in Image
    BY <1>a, CompactKeeps
  <2>2. Plan(h, "image", Slots, CompactImage(cache), NoSlot, LiveCount)
    BY <1>6 DEF ScanCompact
  <2>. QED  BY <2>1, <2>2, <1>c, <1>d, <1>e, <1>f, PlanTypes DEF TypeInv, Locations
<1>7. CASE ScanRead(h)
  <2>. DEFINE w == Winner(cache, req[h].key)
  <2>1. CASE Return(h, "NOT_FOUND", NoVal)
    BY <2>1, <1>c, <1>d, ReturnType DEF TypeInv, Codes
  <2>2. CASE w # NoSlot /\ Plan(h, "reread", {}, BlankImage, w, 0)
    <3>1. w \in Slots
      BY <2>2, <1>a, ScanResults, CopiesAreSlots
    <3>2. {} \in SUBSET Slots
      OBVIOUS
    <3>. HIDE DEF w
    <3>. QED  BY <2>2, <3>1, <3>2, <1>c, <1>d, PlanTypes, RecordTypes DEF TypeInv, Locations
  <2>. QED  BY <1>7, <2>1, <2>2 DEF ScanRead
<1>. QED  BY <1>1, <1>2, <1>3, <1>4, <1>5, <1>6, <1>7 DEF Scan

LEMMA ReadType ==
  ASSUME TypeInv, NEW h \in Handles, Reread(h)
  PROVE  TypeInv'
<1>. FileTypeOK /\ CallInv /\ EnvTypeOK
  BY DEF TypeInv
<1>1. FileTypeOK' /\ EnvTypeOK'
  BY DEF Reread, file, FileTypeOK, EnvTypeOK
<1>2. job[h].old \in Slots
  BY DEF Reread, CallInv, JobShape
<1>3. cache[job[h].old] \in Record
  BY <1>2 DEF FileTypeOK, Image
<1>4. cache[job[h].old].val \in Vals \cup {NoVal}
  BY <1>3 DEF Record
<1>5. CASE Return(h, "OK", cache[job[h].old].val)
  BY <1>1, <1>4, <1>5, ReturnType DEF TypeInv, Codes
<1>6. CASE Return(h, "CORRUPT", NoVal)
  BY <1>1, <1>6, ReturnType DEF TypeInv, Codes
<1>. QED  BY <1>5, <1>6 DEF Reread

\* What a handle is about to write is a record, into a slot.
LEMMA WriteTypes ==
  ASSUME TypeInv, NEW h \in Handles, pc[h] \in {"put", "putsync", "mark", "marksync", "image"}
  PROVE  /\ job[h].todo # {} /\ NextSlot(h) \in job[h].todo /\ NextSlot(h) \in Slots
         /\ job[h] \in Job
         /\ job[h].plan[NextSlot(h)] \in Record
         /\ Marked(cache[NextSlot(h)], MarkState(h)) \in Record
         /\ cache \in Image /\ media \in Image
<1>1. CallInv /\ FileTypeOK /\ job[h].todo # {}
  BY DEF TypeInv, CallInv, JobShape
<1>2. NextSlot(h) \in job[h].todo /\ NextSlot(h) \in Slots /\ job[h] \in Job
  BY <1>1, NextSlotType
<1>3. job[h].plan[NextSlot(h)] \in Record
  BY <1>2 DEF Job, Image
<1>4. cache[NextSlot(h)] \in Record
  BY <1>1, <1>2 DEF FileTypeOK, Image
<1>5. Marked(cache[NextSlot(h)], MarkState(h)) \in Record
  BY <1>4, RecordTypes DEF MarkState, SlotState
<1>. QED  BY <1>1, <1>2, <1>3, <1>5 DEF FileTypeOK

\* The same call, one location on.
LEMMA GotoType ==
  ASSUME CallInv, NEW h \in Handles, NEW l \in Locations,
         l \in {"put", "putsync", "mark", "marksync", "image"} => job[h].todo # {},
         l # "reread",
         Goto(h, l), UNCHANGED <<flock, req, job, ret, view>>
  PROVE  CallInv'
<1>1. CallTypeOK'
  BY DEF CallInv, CallTypeOK, Goto
<1>2. JobShape'
  BY DEF CallInv, CallTypeOK, JobShape, Goto
<1>. QED  BY <1>1, <1>2 DEF CallInv

LEMMA PutType ==
  ASSUME TypeInv, NEW h \in Handles, Put(h) \/ PutSync(h)
  PROVE  TypeInv'
<1>. FileTypeOK /\ CallInv /\ EnvTypeOK
  BY DEF TypeInv
<1>. DEFINE j == [job[h] EXCEPT !.todo = OldSlots(h)]
            l == IF OldSlots(h) = {} THEN "hdr" ELSE "mark"
<1>1. EnvTypeOK'
  BY DEF Put, PutSync, EnvTypeOK
<1>2. pc[h] \in {"put", "putsync"}
  BY DEF Put, PutSync
<1>3. CASE Put(h)
  <2>1. FileTypeOK'
    BY <1>2, <1>3, WriteTypes, StoreType DEF Put, FileTypeOK
  <2>2. CallInv'
    BY <1>2, <1>3, WriteTypes, GotoType DEF Put, Locations
  <2>. QED  BY <1>1, <2>1, <2>2 DEF TypeInv
<1>4. CASE PutSync(h)
  <2>1. FileTypeOK'
    BY <1>4 DEF PutSync, Sync, FileTypeOK
  <2>2. CASE Return(h, "CORRUPT", NoVal)
    BY <1>1, <2>1, <2>2, ReturnType DEF TypeInv, Codes
  <2>3. CASE /\ Goto(h, l)
             /\ job' = [job EXCEPT ![h].todo = OldSlots(h)]
             /\ UNCHANGED <<flock, req, ret, view>>
    <3>1. OldSlots(h) \in SUBSET Slots /\ job[h] \in Job
      BY <1>2, WriteTypes DEF OldSlots, Job
    <3>2. j \in Job /\ j.todo = OldSlots(h) /\ l \in Locations /\ l # "reread"
      BY <3>1 DEF Job, Locations
    <3>3. l \in {"put", "putsync", "mark", "marksync", "image"} => OldSlots(h) # {}
      OBVIOUS
    <3>4. job' = [job EXCEPT ![h] = j]
      BY <2>3 DEF CallInv, CallTypeOK
    <3>. HIDE DEF j, l
    <3>5. CallInv'
      BY <2>3, <3>2, <3>3, <3>4, MoveType
    <3>. QED  BY <1>1, <2>1, <3>5 DEF TypeInv
  <2>. QED  BY <1>4, <2>2, <2>3 DEF PutSync
<1>. QED  BY <1>3, <1>4

LEMMA AfterMarkType ==
  ASSUME NEW h \in Handles
  PROVE  /\ AfterMark(h) \in Locations /\ AfterMark(h) # "reread"
         /\ AfterMark(h) \in {"put", "putsync", "mark", "marksync", "image"} => job[h].todo # {NextSlot(h)}
BY DEF AfterMark, Locations

LEMMA MarkType ==
  ASSUME TypeInv, NEW h \in Handles, Mark(h) \/ MarkSync(h)
  PROVE  TypeInv'
<1>. FileTypeOK /\ CallInv /\ EnvTypeOK
  BY DEF TypeInv
<1>1. EnvTypeOK'
  BY DEF Mark, MarkSync, EnvTypeOK
<1>2. pc[h] \in {"mark", "marksync"}
  BY DEF Mark, MarkSync
<1>3. CASE Mark(h)
  <2>1. FileTypeOK'
    BY <1>2, <1>3, WriteTypes, StoreType DEF Mark, FileTypeOK
  <2>2. CallInv'
    BY <1>2, <1>3, WriteTypes, GotoType DEF Mark, Locations
  <2>. QED  BY <1>1, <2>1, <2>2 DEF TypeInv
<1>4. CASE MarkSync(h)
  <2>1. FileTypeOK'
    BY <1>4 DEF MarkSync, Sync, FileTypeOK
  <2>2. CallInv'
    <3>1. Advance(h, 1) \/ Advance(h, 0)
      BY <1>4 DEF MarkSync
    <3>2. Goto(h, AfterMark(h)) /\ UNCHANGED <<flock, req, ret, view>>
      BY <1>4 DEF MarkSync
    <3>. QED  BY <1>2, <3>1, <3>2, WriteTypes, AfterMarkType, AdvanceType
  <2>. QED  BY <1>1, <2>1, <2>2 DEF TypeInv
<1>. QED  BY <1>3, <1>4

LEMMA ImageType ==
  ASSUME TypeInv, NEW h \in Handles, ImageStep(h) \/ ImageSync(h)
  PROVE  TypeInv'
<1>. FileTypeOK /\ CallInv /\ EnvTypeOK
  BY DEF TypeInv
<1>. DEFINE l == IF job[h].todo = {NextSlot(h)} THEN "imgsync" ELSE "image"
<1>1. EnvTypeOK'
  BY DEF ImageStep, ImageSync, EnvTypeOK
<1>2. CASE ImageStep(h)
  <2>1. pc[h] = "image"
    BY <1>2 DEF ImageStep
  <2>2. FileTypeOK'
    BY <1>2, <2>1, WriteTypes, StoreType DEF ImageStep, FileTypeOK
  <2>3. Goto(h, l) /\ Advance(h, 0) /\ UNCHANGED <<flock, req, ret, view>>
    BY <1>2 DEF ImageStep
  <2>4. /\ l \in Locations /\ l # "reread"
        /\ l \in {"put", "putsync", "mark", "marksync", "image"} => job[h].todo # {NextSlot(h)}
    BY DEF Locations
  <2>. HIDE DEF l
  <2>5. CallInv'
    BY <2>1, <2>3, <2>4, WriteTypes, AdvanceType
  <2>. QED  BY <1>1, <2>2, <2>5 DEF TypeInv
<1>3. CASE ImageSync(h)
  <2>1. FileTypeOK'
    BY <1>3 DEF ImageSync, Sync, FileTypeOK
  <2>2. CallInv'
    BY <1>3, GotoType DEF ImageSync, Locations
  <2>. QED  BY <1>1, <2>1, <2>2 DEF TypeInv
<1>. QED  BY <1>2, <1>3

LEMMA FinishType ==
  ASSUME CallInv, NEW h \in Handles, Finish(h)
  PROVE  CallInv'
<1>1. CASE Opened(h)
  BY <1>1, OpeningType
<1>2. ASSUME NEW rc \in Codes, Return(h, rc, NoVal)
      PROVE  CallInv'
  BY <1>2, ReturnType
<1>. QED  BY <1>1, <1>2 DEF Finish, Codes

\* record_count never wraps below zero.
LEMMA CountType ==
  ASSUME TypeInv, NEW h \in Handles
  PROVE  NewCount(h) \in Nat
<1>1. hdr.cnt \in Nat /\ job[h].cnt \in Nat
  BY DEF TypeInv, FileTypeOK, CallInv, CallTypeOK, Job
<1>. QED  BY <1>1 DEF NewCount, CountFits

LEMMA HeaderType ==
  ASSUME TypeInv, NEW h \in Handles, Header(h)
  PROVE  TypeInv'
<1>. FileTypeOK /\ CallInv /\ EnvTypeOK
  BY DEF TypeInv
<1>1. EnvTypeOK'
  BY DEF Header, EnvTypeOK
<1>2. CallInv'
  BY FinishType DEF Header
<1>3. NewCount(h) \in Nat
  BY CountType
<1>5. FileTypeOK'
  BY <1>3 DEF Header, Sync, FileTypeOK
<1>. QED  BY <1>1, <1>2, <1>5 DEF TypeInv

LEMMA FaultFiles ==
  ASSUME TypeInv, NEW h \in Handles, PutError(h) \/ MarkError(h) \/ ImageError(h) \/ HeaderError(h)
  PROVE  FileTypeOK' /\ EnvTypeOK'
<1>. FileTypeOK /\ CallInv /\ EnvTypeOK
  BY DEF TypeInv
<1>1. EnvTypeOK'
  BY SpendType DEF PutError, MarkError, ImageError, HeaderError, Resources
<1>. DEFINE i == NextSlot(h)
<1>2. CASE pc[h] \in {"put", "mark", "image"} /\ media' = media /\ hdr' = hdr
           /\ (BadWrite(i, job[h].plan[i]) \/ BadWrite(i, Marked(cache[i], MarkState(h))))
  <2>1. cache' \in Image
    BY <1>2, WriteTypes, BadWriteType
  <2>. QED  BY <1>1, <1>2, <2>1 DEF FileTypeOK
<1>3. CASE BadSync /\ cache' = cache /\ hdr' = hdr
  BY <1>1, <1>3, BadSyncType DEF FileTypeOK
<1>4. ASSUME HeaderError(h)
      PROVE  FileTypeOK'
  <2>1. NewCount(h) \in Nat
    BY CountType
  <2>2. hdr' \in {hdr, [st |-> "ok", cnt |-> 0], [hdr EXCEPT !.cnt = NewCount(h)]}
    BY <1>4 DEF HeaderError
  <2>3. hdr' \in [st : {"none", "blank", "ok"}, cnt : Nat]
    BY <2>1, <2>2 DEF FileTypeOK
  <2>. QED  BY <1>4, <2>3, BadSyncType DEF HeaderError, FileTypeOK
<1>. QED  BY <1>1, <1>2, <1>3, <1>4 DEF PutError, MarkError, ImageError

LEMMA FailType ==
  ASSUME TypeInv, NEW h \in Handles, Fail(h)
  PROVE  TypeInv'
<1>. FileTypeOK /\ CallInv /\ EnvTypeOK
  BY DEF TypeInv
<1>1. FileTypeOK' /\ EnvTypeOK'
  BY FaultFiles DEF Fail
<1>2. CASE PutError(h)
  BY <1>1, <1>2, ReturnType DEF TypeInv, PutError, Codes
<1>3. CASE MarkError(h)
  <2>1. /\ pc[h] \in {"mark", "marksync"}
        /\ Goto(h, AfterMark(h)) /\ Advance(h, 0) /\ UNCHANGED <<flock, req, ret, view>>
    BY <1>3 DEF MarkError
  <2>. QED  BY <1>1, <2>1, WriteTypes, AfterMarkType, AdvanceType DEF TypeInv
<1>4. CASE ImageError(h)
  <2>. DEFINE l == IF job[h].todo = {NextSlot(h)} THEN "imgsync" ELSE "image"
  <2>1. CASE FailOpen(h)
    BY <1>1, <2>1, OpeningType DEF TypeInv
  <2>2. CASE Goto(h, "hdr") /\ UNCHANGED job /\ UNCHANGED <<flock, req, ret, view>>
    <3>1. CallInv'
      BY <2>2, GotoType DEF Locations
    <3>. QED  BY <1>1, <3>1 DEF TypeInv
  <2>3. CASE /\ pc[h] = "image"
             /\ Goto(h, l) /\ Advance(h, 0) /\ UNCHANGED <<flock, req, ret, view>>
    <3>1. /\ l \in Locations /\ l # "reread"
          /\ l \in {"put", "putsync", "mark", "marksync", "image"} => job[h].todo # {NextSlot(h)}
      BY DEF Locations
    <3>. HIDE DEF l
    <3>2. CallInv'
      BY <2>3, <3>1, WriteTypes, AdvanceType
    <3>. QED  BY <1>1, <3>2 DEF TypeInv
  <2>. QED  BY <1>4, <2>1, <2>2, <2>3 DEF ImageError
<1>5. CASE HeaderError(h)
  BY <1>1, <1>5, FinishType, OpeningType DEF TypeInv, HeaderError
<1>. QED  BY <1>2, <1>3, <1>4, <1>5 DEF Fail

LEMMA GoneType ==
  ASSUME CallInv, NEW H, NEW P, Gone(H, P)
  PROVE  CallInv'
<1>1. flock' \in [Procs -> {"none", "rd", "wr"}] /\ pc' \in [Handles -> Locations]
  BY DEF CallInv, CallTypeOK, Gone, Locations
<1>2. req' \in [Handles -> Requests \cup Openings \cup {NoReq}]
  BY DEF CallInv, CallTypeOK, Gone
<1>3. job' \in [Handles -> Job]
  BY RecordTypes DEF CallInv, CallTypeOK, Gone
<1>4. ret' \in [Handles -> [rc : Codes, val : Vals \cup {NoVal}]]
  BY DEF CallInv, CallTypeOK, Gone, NoRet, Codes
<1>5. view' \in [Handles -> [Keys -> Vals \cup {NoVal}]]
  <2>1. Absent \in [Keys -> Vals \cup {NoVal}]
    BY DEF Absent
  <2>. QED  BY <2>1 DEF CallInv, CallTypeOK, Gone
<1>6. JobShape'
  <2>. SUFFICES ASSUME NEW h \in Handles
                PROVE  /\ pc'[h] \in {"put", "putsync", "mark", "marksync", "image"} => job'[h].todo # {}
                       /\ pc'[h] = "reread" => job'[h].old \in Slots
    BY DEF JobShape
  <2>1. CASE h \in H
    BY <2>1 DEF Gone
  <2>2. CASE h \notin H
    BY <2>2 DEF Gone, CallInv, JobShape
  <2>. QED  BY <2>1, <2>2
<1>. QED  BY <1>1, <1>2, <1>3, <1>4, <1>5, <1>6 DEF CallInv, CallTypeOK

LEMMA CrashType ==
  ASSUME TypeInv, (\E p \in Procs : Kill(p)) \/ PowerCut
  PROVE  TypeInv'
<1>. FileTypeOK /\ CallInv /\ EnvTypeOK
  BY DEF TypeInv
<1>1. EnvTypeOK'
  BY SpendType DEF Kill, PowerCut, Resources
<1>2. CallInv'
  BY GoneType DEF Kill, PowerCut
<1>3. ASSUME NEW p \in Procs, Kill(p)
      PROVE  FileTypeOK'
  BY <1>3 DEF Kill, file, FileTypeOK
<1>4. ASSUME PowerCut
      PROVE  FileTypeOK'
  <2>1. PICK img \in PowerCutImages(cache, media) : cache' = img /\ media' = img
    BY <1>4 DEF PowerCut
  <2>2. img \in [Slots -> UNION {Survivors(cache[i], media[i]) : i \in Slots}]
        /\ \A i \in Slots : img[i] \in Survivors(cache[i], media[i])
    BY <2>1 DEF PowerCutImages
  <2>3. ASSUME NEW i \in Slots
        PROVE  img[i] \in Record
    <3>1. cache[i] \in Record /\ media[i] \in Record
      BY DEF FileTypeOK, Image
    <3>2. Survivors(cache[i], media[i]) \subseteq Record
      BY <3>1, RecordTypes DEF Survivors
    <3>. QED  BY <2>2, <3>2
  <2>4. img \in Image
    BY <2>2, <2>3 DEF Image
  <2>. QED  BY <1>4, <2>1, <2>4 DEF PowerCut, FileTypeOK
<1>. QED  BY <1>1, <1>2, <1>3, <1>4 DEF TypeInv

LEMMA TimeType ==
  ASSUME TypeInv, Time \/ UNCHANGED vars
  PROVE  TypeInv'
<1>. FileTypeOK /\ CallInv /\ EnvTypeOK
  BY DEF TypeInv
<1>1. FileTypeOK'
  BY DEF Time, vars, file, FileTypeOK
<1>2. CallInv'
  BY DEF Time, vars, CallInv, CallTypeOK, JobShape
<1>3. clock' \in Nat
  BY DEF Time, Tick, StepBack, vars, EnvTypeOK
<1>4. EnvTypeOK'
  BY <1>3 DEF Time, vars, EnvTypeOK
<1>. QED  BY <1>1, <1>2, <1>4 DEF TypeInv

LEMMA TypeStep == TypeInv /\ [Next]_vars => TypeInv'
<1>. SUFFICES ASSUME TypeInv, [Next]_vars PROVE TypeInv'
  OBVIOUS
<1>1. ASSUME NEW h \in Handles, Client(h) \/ Run(h) \/ Fail(h)
      PROVE  TypeInv'
  BY <1>1, ClientType, LockType, ScanType, ReadType, PutType, MarkType, ImageType, HeaderType,
     FailType DEF Run
<1>2. CASE (\E p \in Procs : Kill(p)) \/ PowerCut
  BY <1>2, CrashType
<1>3. CASE Time \/ UNCHANGED vars
  BY <1>3, TimeType
<1>. QED  BY <1>1, <1>2, <1>3 DEF Next

\* Every variable keeps its type, whatever the calls, crashes and I/O errors: in
\* particular record_count never wraps and no loop runs out of slots.
THEOREM TypeCorrect == Spec => []TypeOK
<1>1. TypeInv => TypeOK
  BY DEF TypeInv, TypeOK, CallInv
<1>. QED  BY <1>1, InitType, TypeStep, PTL DEF Spec

-----------------------------------------------------------------------------
(***************************************************************************)
(* Mutual exclusion.  A handle past its lock holds it, and a process that  *)
(* holds the write lock is the only one to hold any.                       *)
(***************************************************************************)

Inside(h) == pc[h] \notin Rest \cup {"lock"}
Needs(h)  == IF req[h].kind = "read" THEN "rd" ELSE "wr"

Holding == \A h \in Handles : Inside(h) => flock[ProcOf[h]] = Needs(h)
OneWriter == \A p, q \in Procs : p # q /\ flock[p] = "wr" => flock[q] = "none"
LockInv == CallInv /\ Holding /\ OneWriter

LEMMA ExclusionFromLocks ==
  ASSUME OneHandlePerProcess, LockInv
  PROVE  WriterExclusion
<1>. SUFFICES ASSUME NEW h1 \in Handles, NEW h2 \in Handles, h1 # h2, Writing(h1)
              PROVE  ~Inside(h2)
  BY DEF WriterExclusion, Writing, Reading, Inside
<1>1. ProcOf[h1] \in Procs /\ ProcOf[h2] \in Procs /\ ProcOf[h1] # ProcOf[h2]
  BY RobustCfgAssumption DEF OneHandlePerProcess
<1>2. flock[ProcOf[h1]] = "wr"
  BY DEF LockInv, Holding, Inside, Needs, Writing
<1>3. flock[ProcOf[h2]] = "none"
  BY <1>1, <1>2 DEF LockInv, OneWriter
<1>. QED  BY <1>3 DEF LockInv, Holding, Needs

\* The ways a step of one handle can bear on the locks.
Ask(h)    == /\ pc[h] \in Rest \cup {"lock"}
             /\ \E l \in Rest \cup {"lock"} : Goto(h, l)
             /\ UNCHANGED flock
             /\ \A g \in Handles \ {h} : req'[g] = req[g]
Within(h) == Inside(h) /\ (\E l \in Locations : Goto(h, l)) /\ UNCHANGED <<flock, req>>
Leave(h)  == /\ \E l \in Rest : Goto(h, l)
             /\ flock' = [flock EXCEPT ![ProcOf[h]] = "none"]
             /\ \A g \in Handles \ {h} : req'[g] = req[g]

LEMMA LockStep ==
  ASSUME OneHandlePerProcess, LockInv, CallInv', NEW h \in Handles,
         Lock(h) \/ Ask(h) \/ Within(h) \/ Leave(h)
  PROVE  LockInv'
<1>. CallInv /\ Holding /\ OneWriter
  BY DEF LockInv
<1>1. ProcOf \in [Handles -> Procs] /\ \A g \in Handles \ {h} : ProcOf[g] # ProcOf[h]
  BY RobustCfgAssumption DEF OneHandlePerProcess
<1>2. pc \in [Handles -> Locations] /\ flock \in [Procs -> {"none", "rd", "wr"}]
  BY DEF CallInv, CallTypeOK
<1>3. CASE Lock(h)
  <2>1. flock' = [flock EXCEPT ![ProcOf[h]] = Needs(h)] /\ UNCHANGED req /\ Goto(h, "scan")
    BY <1>3 DEF Lock, Needs
  <2>2. IF req[h].kind = "read" THEN \A p \in Procs \ {ProcOf[h]} : flock[p] # "wr"
                                ELSE \A p \in Procs \ {ProcOf[h]} : flock[p] = "none"
    BY <1>3 DEF Lock, MayLock, MayRead, MayWrite, Others
  <2>3. Holding'
    BY <1>1, <1>2, <2>1 DEF Holding, Inside, Needs, Goto
  <2>4. OneWriter'
    BY <1>1, <1>2, <2>1, <2>2 DEF OneWriter, Needs
  <2>. QED  BY <2>3, <2>4 DEF LockInv
<1>4. CASE Ask(h)
  <2>1. Holding'
    BY <1>2, <1>4 DEF Ask, Holding, Inside, Needs, Goto
  <2>2. OneWriter'
    BY <1>4 DEF Ask, OneWriter
  <2>. QED  BY <2>1, <2>2 DEF LockInv
<1>5. CASE Within(h)
  <2>1. Holding'
    BY <1>2, <1>5 DEF Within, Holding, Inside, Needs, Goto
  <2>2. OneWriter'
    BY <1>5 DEF Within, OneWriter
  <2>. QED  BY <2>1, <2>2 DEF LockInv
<1>6. CASE Leave(h)
  <2>1. Holding'
    BY <1>1, <1>2, <1>6 DEF Leave, Holding, Inside, Needs, Goto
  <2>2. OneWriter'
    BY <1>1, <1>2, <1>6 DEF Leave, OneWriter
  <2>. QED  BY <2>1, <2>2 DEF LockInv
<1>. QED  BY <1>3, <1>4, <1>5, <1>6

\* Every step of a handle is one of these four.
LEMMA StepKinds ==
  ASSUME CallInv, NEW h \in Handles, Client(h) \/ Run(h) \/ Fail(h)
  PROVE  Lock(h) \/ Ask(h) \/ Within(h) \/ Leave(h)
<1>1. req \in [Handles -> Requests \cup Openings \cup {NoReq}]
  BY DEF CallInv, CallTypeOK
<1>2. ASSUME Release(h), NEW l \in Rest, Goto(h, l)
      PROVE  Leave(h)
  BY <1>1, <1>2 DEF Release, Leave
<1>3. \A rc, v : Return(h, rc, v) => Leave(h)
  BY <1>2 DEF Return, Rest
<1>4. FailOpen(h) \/ Opened(h) => Leave(h)
  BY <1>2 DEF FailOpen, Opened, Rest
<1>5. \A l, S, img, o, n : Inside(h) /\ l \in Locations /\ Plan(h, l, S, img, o, n) => Within(h)
  BY DEF Plan, Within
<1>6. CASE Client(h)
  <2>1. CASE Open(h)
    BY <1>1, <2>1 DEF Open, Ask, Rest, Goto
  <2>2. CASE Close(h)
    BY <2>2 DEF Close, Leave, Rest
  <2>3. ASSUME NEW r \in Requests, Call(h, r)
        PROVE  Ask(h)
    BY <1>1, <2>3 DEF Call, Ask, Rest
  <2>. QED  BY <1>6, <2>1, <2>2, <2>3 DEF Client
<1>7. CASE LockTimeout(h)
  <2>1. CASE FailOpen(h)
    BY <1>4, <2>1
  <2>2. CASE ~FailOpen(h)
    BY <1>1, <1>7, <2>2 DEF LockTimeout, Ask, Rest
  <2>. QED  BY <2>1, <2>2
<1>8. CASE Scan(h)
  <2>1. Inside(h)
    BY <1>8 DEF Scan, ScanInit, ScanOpen, ScanWrite, ScanDelete, ScanRepair, ScanCompact,
                ScanRead, At, Inside, Rest
  <2>2. CASE ScanInit(h) \/ ScanOpen(h)
    BY <2>1, <2>2, <1>4, <1>5 DEF ScanInit, ScanOpen, Locations
  <2>3. CASE ScanWrite(h) \/ ScanDelete(h) \/ ScanRead(h)
    BY <2>1, <2>3, <1>3, <1>5 DEF ScanWrite, ScanDelete, ScanRead, Locations
  <2>4. CASE ScanRepair(h) \/ ScanCompact(h)
    BY <2>1, <2>4, <1>5 DEF ScanRepair, ScanCompact, Locations
  <2>. QED  BY <1>8, <2>2, <2>3, <2>4 DEF Scan
<1>9. CASE Reread(h)
  BY <1>3, <1>9 DEF Reread
<1>10. CASE Put(h) \/ PutSync(h) \/ Mark(h) \/ MarkSync(h) \/ ImageStep(h) \/ ImageSync(h)
  <2>1. Inside(h)
    BY <1>10 DEF Put, PutSync, Mark, MarkSync, ImageStep, ImageSync, Inside, Rest
  <2>. QED  BY <1>10, <2>1, <1>3
            DEF Put, PutSync, Mark, MarkSync, ImageStep, ImageSync, AfterMark, Within, Locations
<1>11. Finish(h) => Leave(h)
  BY <1>3, <1>4 DEF Finish
<1>12. CASE Fail(h)
  <2>1. CASE PutError(h)
    BY <2>1, <1>3 DEF PutError
  <2>2. CASE MarkError(h) \/ ImageError(h)
    <3>1. Inside(h)
      BY <2>2 DEF MarkError, ImageError, Inside, Rest
    <3>. QED  BY <2>2, <3>1, <1>4 DEF MarkError, ImageError, AfterMark, Within, Locations
  <2>3. CASE HeaderError(h)
    BY <2>3, <1>4, <1>11 DEF HeaderError
  <2>. QED  BY <1>12, <2>1, <2>2, <2>3 DEF Fail
<1>. QED  BY <1>6, <1>7, <1>8, <1>9, <1>10, <1>11, <1>12 DEF Run, Header

LEMMA LockCrash ==
  ASSUME LockInv, CallInv', NEW P \in SUBSET Procs,
         Gone({h \in Handles : ProcOf[h] \in P}, P)
  PROVE  LockInv'
<1>. CallInv /\ Holding /\ OneWriter
  BY DEF LockInv
<1>1. ProcOf \in [Handles -> Procs]
  BY RobustCfgAssumption
<1>2. Holding'
  <2>. SUFFICES ASSUME NEW h \in Handles, Inside(h)' PROVE (flock[ProcOf[h]] = Needs(h))'
    BY DEF Holding
  <2>1. ProcOf[h] \notin P /\ pc'[h] = pc[h] /\ req'[h] = req[h]
    BY DEF Gone, Inside, Rest
  <2>2. flock'[ProcOf[h]] = flock[ProcOf[h]]
    BY <1>1, <2>1 DEF Gone
  <2>. QED  BY <2>1, <2>2 DEF Holding, Inside, Needs
<1>3. OneWriter'
  BY DEF Gone, OneWriter
<1>. QED  BY <1>2, <1>3 DEF LockInv

LEMMA LockInvStep ==
  ASSUME OneHandlePerProcess, LockInv, CallInv', [Next]_vars
  PROVE  LockInv'
<1>1. ASSUME NEW h \in Handles, Client(h) \/ Run(h) \/ Fail(h)
      PROVE  LockInv'
  BY <1>1, LockStep, StepKinds DEF LockInv
<1>2. ASSUME NEW p \in Procs, Kill(p)
      PROVE  LockInv'
  <2>1. {h \in Handles : ProcOf[h] \in {p}} = {h \in Handles : ProcOf[h] = p}
    OBVIOUS
  <2>. QED  BY <1>2, <2>1, LockCrash DEF Kill
<1>3. CASE PowerCut
  <2>1. {h \in Handles : ProcOf[h] \in Procs} = Handles
    BY RobustCfgAssumption
  <2>. QED  BY <1>3, <2>1, LockCrash DEF PowerCut
<1>4. CASE Time \/ UNCHANGED vars
  BY <1>4 DEF Time, vars, LockInv, Holding, OneWriter, Inside, Needs
<1>. QED  BY <1>1, <1>2, <1>3, <1>4 DEF Next

LEMMA LockInvInit == Init => LockInv
<1>. SUFFICES ASSUME Init PROVE LockInv
  OBVIOUS
<1>1. CallInv
  BY InitType DEF TypeInv
<1>2. Holding /\ OneWriter
  BY DEF Init, Holding, OneWriter, Inside, Rest
<1>. QED  BY <1>1, <1>2 DEF LockInv

\* When every process opens the file once, no call runs beside one that writes,
\* with any number of processes, killed or timed out at any point.
THEOREM Exclusion ==
  ASSUME OneHandlePerProcess
  PROVE  Spec => []WriterExclusion
<1>1. Init => TypeInv /\ LockInv
  BY InitType, LockInvInit
<1>2. TypeInv /\ LockInv /\ [Next]_vars => (TypeInv /\ LockInv)'
  BY TypeStep, LockInvStep DEF TypeInv
<1>3. TypeInv /\ LockInv => WriterExclusion
  BY ExclusionFromLocks
<1>. QED  BY <1>1, <1>2, <1>3, PTL DEF Spec
=============================================================================
