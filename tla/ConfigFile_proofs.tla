--------------------------- MODULE ConfigFile_proofs ---------------------------
(***************************************************************************)
(* Theorems about the key=value file, for every set of keys, values and    *)
(* writers, every MaxPairs and every Budget.                               *)
(***************************************************************************)
EXTENDS ConfigFile, FiniteSetTheorems, TLAPS

Pair   == [key : Keys, val : Vals]
Stored == {c \in Configs : Cardinality(Present(c)) <= MaxPairs}   \* what a config_t can hold

-----------------------------------------------------------------------------
(* Configurations. *)

LEMMA EmptyStored == Empty \in Stored
<1>1. Empty \in Configs /\ Present(Empty) = {}
  BY DEF Empty, Configs, Present
<1>. QED  BY <1>1, FS_EmptySet, ConfigFileAssumption DEF Stored

\* config_set adds one key at most, and only where there is room for it.
LEMMA SetType ==
  ASSUME NEW p \in Writers, upd[p] \in Pair, NEW c \in Configs
  PROVE  Set(c, p) \in Configs
BY DEF Set, Configs, Pair

LEMMA SetStored ==
  ASSUME NEW p \in Writers, upd[p] \in Pair, NEW c \in Stored, Fits(c, p)
  PROVE  Set(c, p) \in Stored
<1>. DEFINE k == upd[p].key
<1>1. c \in Configs /\ k \in Keys /\ upd[p].val \in Vals
  BY DEF Pair, Stored
<1>2. Present(Set(c, p)) = Present(c) \cup {k}
  BY <1>1, ConfigFileAssumption DEF Present, Set, Configs
<1>3. IsFiniteSet(Present(c))
  BY FS_Subset, ConfigFileAssumption DEF Present
<1>4. Cardinality(Present(c)) \in Nat
  BY <1>3, FS_CardinalityType
<1>5. CASE k \in Present(c)
  <2>1. Present(Set(c, p)) = Present(c)
    BY <1>2, <1>5
  <2>. QED  BY <2>1, SetType, <1>1 DEF Stored
<1>6. CASE k \notin Present(c)
  <2>1. Cardinality(Present(Set(c, p))) = Cardinality(Present(c)) + 1
    BY <1>2, <1>3, <1>6, FS_AddElement
  <2>2. Cardinality(Present(c)) < MaxPairs
    BY <1>6 DEF Fits
  <2>3. Cardinality(Present(Set(c, p))) <= MaxPairs
    BY <2>1, <2>2, <1>4, ConfigFileAssumption
  <2>. QED  BY <2>3, SetType, <1>1 DEF Stored
<1>. QED  BY <1>5, <1>6

LEMMA PartsReflexive == \A c \in Configs : c \in Parts(c)
BY DEF Parts

\* config_read returns the whole file if it fits, and a part that fits if not.
LEMMA ReadingsFit ==
  ASSUME NEW c \in Configs, NEW d \in Readings(c)
  PROVE  /\ d \in Stored
         /\ d \in Parts(c)
<1>1. CASE Cardinality(Present(c)) <= MaxPairs
  BY <1>1, PartsReflexive DEF Readings, Stored
<1>2. CASE ~(Cardinality(Present(c)) <= MaxPairs)
  BY <1>2, ConfigFileAssumption DEF Readings, Stored, Parts
<1>. QED  BY <1>1, <1>2

LEMMA SpendType ==
  ASSUME NEW r \in Resources, Spend(r), budget \in [Resources -> Nat]
  PROVE  budget' \in [Resources -> Nat]
<1>1. budget[r] - 1 \in Nat
  BY DEF Spend
<1>. QED  BY <1>1 DEF Spend

-----------------------------------------------------------------------------
(* Type correctness. *)

\* What the writers hold, and what is in the file system.
WritersOK ==
  /\ lock \in Writers \cup {NoOne}
  /\ pc  \in [Writers -> Locations]
  /\ upd \in [Writers -> Pair \cup {NoUpd}]
  /\ cfg \in [Writers -> Stored]
  /\ ret \in [Writers -> Codes]
  /\ exact \in [Writers -> BOOLEAN]
  /\ Busy
FilesOK ==
  /\ file \in Inode
  /\ images \in SUBSET Inode
  /\ tmp \in [Writers -> Inode]
  /\ budget \in [Resources -> Nat]
TypeInv == WritersOK /\ FilesOK

LEMMA InodeTypes ==
  /\ NoInode \in Inode
  /\ \A c \in Configs, b \in BOOLEAN : [cfg |-> c, synced |-> b] \in Inode
  /\ \A i \in Inode : i.cfg \in Configs /\ i.synced \in BOOLEAN
BY EmptyStored DEF NoInode, Inode, Stored

LEMMA InitType == Init => TypeInv
<1>. SUFFICES ASSUME Init PROVE TypeInv
  OBVIOUS
<1>1. WritersOK
  BY EmptyStored DEF Init, WritersOK, Locations, Codes, Busy
<1>2. file \in Inode /\ images \in SUBSET Inode
  BY DEF Init, Inode
<1>3. FilesOK
  BY <1>2, InodeTypes, ConfigFileAssumption DEF Init, FilesOK
<1>. QED  BY <1>1, <1>3 DEF TypeInv

LEMMA ReturnType ==
  ASSUME WritersOK, NEW p \in Writers, NEW r \in Codes, Return(p, r)
  PROVE  WritersOK'
<1>. USE DEF WritersOK, Return, Gone, Goto
<1>1. lock' \in Writers \cup {NoOne}
  BY DEF Unlock
<1>2. cfg' \in [Writers -> Stored]
  BY EmptyStored
<1>3. pc' \in [Writers -> Locations] /\ upd' \in [Writers -> Pair \cup {NoUpd}]
  BY DEF Locations
<1>4. ret' \in [Writers -> Codes] /\ exact' \in [Writers -> BOOLEAN]
  OBVIOUS
<1>5. Busy'
  BY DEF Busy
<1>. QED  BY <1>1, <1>2, <1>3, <1>4, <1>5

\* A step that moves a writer from one place inside its call to another.
LEMMA MoveType ==
  ASSUME WritersOK, NEW p \in Writers, NEW l \in Locations, Goto(p, l), pc[p] # "idle",
         lock' \in Writers \cup {NoOne}, cfg' \in [Writers -> Stored],
         exact' \in [Writers -> BOOLEAN], UNCHANGED <<upd, ret>>
  PROVE  WritersOK'
<1>1. pc' \in [Writers -> Locations] /\ Busy'
  BY DEF WritersOK, Goto, Busy
<1>. QED  BY <1>1 DEF WritersOK

LEMMA DecideType ==
  ASSUME WritersOK, NEW p \in Writers, NEW c \in Stored, NEW whole \in BOOLEAN,
         pc[p] = "read", Decide(p, c, whole)
  PROVE  WritersOK'
<1>1. upd[p] \in Pair
  BY DEF WritersOK, Busy, Pair
<1>2. CASE Return(p, "OK") \/ Return(p, "FAIL")
  BY <1>2, ReturnType DEF Codes
<1>3. CASE /\ Fits(c, p)
           /\ cfg' = [cfg EXCEPT ![p] = Set(c, p)]
           /\ exact' = [exact EXCEPT ![p] = whole]
           /\ Goto(p, "create")
           /\ UNCHANGED <<lock, upd, ret>>
  <2>1. cfg' \in [Writers -> Stored] /\ exact' \in [Writers -> BOOLEAN]
    BY <1>1, <1>3, SetStored DEF WritersOK
  <2>. QED  BY <1>3, <2>1, MoveType DEF Locations, WritersOK
<1>. QED  BY <1>2, <1>3 DEF Decide

LEMMA RunType == ASSUME TypeInv, NEW p \in Writers, Run(p) PROVE TypeInv'
<1>. USE DEF TypeInv
<1>1. CASE Lock(p)
  <2>1. WritersOK'
    BY <1>1, MoveType DEF Lock, WritersOK, Locations
  <2>. QED  BY <1>1, <2>1 DEF Lock, FilesOK
<1>2. CASE Read(p)
  <2>1. PICK c \in Readings(file.cfg) : Decide(p, c, c = file.cfg)
    BY <1>2 DEF Read
  <2>2. c \in Stored
    BY <2>1, ReadingsFit, InodeTypes DEF FilesOK
  <2>3. WritersOK'
    BY <1>2, <2>1, <2>2, DecideType DEF Read
  <2>. QED  BY <1>2, <2>3 DEF Read, FilesOK
<1>3. CASE Create(p)
  <2>1. WritersOK'
    BY <1>3, MoveType DEF Create, WritersOK, Locations
  <2>2. tmp' \in [Writers -> Inode]
    BY <1>3, InodeTypes, EmptyStored DEF Create, FilesOK, Stored
  <2>. QED  BY <1>3, <2>1, <2>2 DEF Create, FilesOK
<1>4. CASE Fill(p)
  <2>1. WritersOK'
    BY <1>4, MoveType DEF Fill, WritersOK, Locations
  <2>2. tmp' \in [Writers -> Inode]
    BY <1>4 DEF Fill, FilesOK, Inode, WritersOK, Stored
  <2>. QED  BY <1>4, <2>1, <2>2 DEF Fill, FilesOK
<1>5. CASE Fsync(p)
  <2>1. WritersOK'
    BY <1>5, MoveType DEF Fsync, WritersOK, Locations
  <2>2. tmp' \in [Writers -> Inode]
    BY <1>5 DEF Fsync, FilesOK, Inode
  <2>. QED  BY <1>5, <2>1, <2>2 DEF Fsync, FilesOK
<1>6. CASE Rename(p)
  <2>1. WritersOK'
    BY <1>6, MoveType DEF Rename, WritersOK, Locations
  <2>2. file' \in Inode /\ images' \in SUBSET Inode /\ tmp' \in [Writers -> Inode]
    BY <1>6, InodeTypes DEF Rename, FilesOK
  <2>. QED  BY <1>6, <2>1, <2>2 DEF Rename, FilesOK
<1>7. CASE DirSync(p)
  <2>1. WritersOK'
    BY <1>7, ReturnType DEF DirSync, Codes
  <2>2. images' \in SUBSET Inode
    BY <1>7 DEF DirSync, FilesOK
  <2>. QED  BY <1>7, <2>1, <2>2 DEF DirSync, FilesOK
<1>. QED  BY <1>1, <1>2, <1>3, <1>4, <1>5, <1>6, <1>7 DEF Run

LEMMA FailType == ASSUME TypeInv, NEW p \in Writers, Fail(p) PROVE TypeInv'
<1>. USE DEF TypeInv
<1>1. budget' \in [Resources -> Nat]
  BY SpendType DEF Fail, Misread, ShortFill, FailBefore, FailWrite, FailDirSync,
                   Resources, FilesOK
<1>2. CASE Misread(p)
  <2>1. PICK part \in Parts(file.cfg) : \E c \in Readings(part) : Decide(p, c, FALSE)
    BY <1>2 DEF Misread
  <2>2. PICK c \in Readings(part) : Decide(p, c, FALSE)
    BY <2>1
  <2>3. c \in Stored
    BY <2>1, <2>2, ReadingsFit DEF Parts
  <2>4. WritersOK'
    BY <1>2, <2>2, <2>3, DecideType DEF Misread
  <2>. QED  BY <1>1, <1>2, <2>4 DEF Misread, FilesOK
<1>3. CASE ShortFill(p)
  <2>1. WritersOK'
    BY <1>3, MoveType DEF ShortFill, WritersOK, Locations
  <2>2. PICK c \in Spliced(cfg[p]) : tmp' = [tmp EXCEPT ![p].cfg = c]
    BY <1>3 DEF ShortFill
  <2>3. tmp' \in [Writers -> Inode]
    BY <2>2 DEF FilesOK, Inode, Spliced
  <2>. QED  BY <1>1, <1>3, <2>1, <2>3 DEF ShortFill, FilesOK
<1>4. CASE FailBefore(p)
  <2>1. WritersOK'
    BY <1>4, ReturnType DEF FailBefore, Codes
  <2>. QED  BY <1>1, <1>4, <2>1 DEF FailBefore, FilesOK
<1>5. CASE FailWrite(p)
  <2>1. WritersOK'
    BY <1>5, ReturnType DEF FailWrite, Codes
  <2>2. tmp' \in [Writers -> Inode]
    BY <1>5, InodeTypes DEF FailWrite, FilesOK
  <2>. QED  BY <1>1, <1>5, <2>1, <2>2 DEF FailWrite, FilesOK
<1>6. CASE FailDirSync(p)
  <2>1. WritersOK'
    BY <1>6, ReturnType DEF FailDirSync, Codes
  <2>. QED  BY <1>1, <1>6, <2>1 DEF FailDirSync, FilesOK
<1>. QED  BY <1>2, <1>3, <1>4, <1>5, <1>6 DEF Fail

LEMMA KillType == ASSUME TypeInv, NEW p \in Writers, Kill(p) PROVE TypeInv'
<1>1. WritersOK'
  BY ReturnType DEF Kill, TypeInv, Codes
<1>2. budget' \in [Resources -> Nat]
  BY SpendType DEF Kill, Resources, TypeInv, FilesOK
<1>3. tmp' \in [Writers -> Inode]
  BY InodeTypes DEF Kill, TypeInv, FilesOK
<1>. QED  BY <1>1, <1>2, <1>3 DEF Kill, TypeInv, FilesOK

LEMMA UpdateType ==
  ASSUME TypeInv, NEW p \in Writers, NEW k \in Keys, NEW v \in Vals, Update(p, k, v)
  PROVE  TypeInv'
<1>. USE DEF Update, TypeInv
<1>1. budget' \in [Resources -> Nat]
  BY SpendType DEF Resources, FilesOK
<1>2. [key |-> k, val |-> v] \in Pair
  BY DEF Pair
<1>3. upd' \in [Writers -> Pair \cup {NoUpd}] /\ ret' \in [Writers -> Codes]
  BY <1>2 DEF WritersOK, Codes
<1>4. pc' \in [Writers -> Locations]
  BY DEF WritersOK, Goto, Locations
<1>5. Busy'
  BY <1>2 DEF Busy, WritersOK, Goto, Pair
<1>6. WritersOK'
  BY <1>3, <1>4, <1>5 DEF WritersOK
<1>. QED  BY <1>1, <1>6 DEF FilesOK

LEMMA PowerCutType == ASSUME TypeInv, PowerCut PROVE TypeInv'
<1>. USE DEF PowerCut, TypeInv
<1>1. budget' \in [Resources -> Nat]
  BY SpendType DEF Resources, FilesOK
<1>2. PICK i \in images : \E c \in Remains(i) :
        /\ file' = [cfg |-> c, synced |-> TRUE]
        /\ images' = {file'}
  OBVIOUS
<1>3. PICK c \in Remains(i) : file' = [cfg |-> c, synced |-> TRUE] /\ images' = {file'}
  BY <1>2
<1>4. c \in Configs
  BY <1>3, InodeTypes DEF Remains, Spliced, FilesOK
<1>5. file' \in Inode /\ images' \in SUBSET Inode
  BY <1>3, <1>4, InodeTypes
<1>6. WritersOK'
  BY EmptyStored DEF WritersOK, Locations, Codes, Busy
<1>7. tmp' \in [Writers -> Inode]
  BY InodeTypes
<1>. QED  BY <1>1, <1>5, <1>6, <1>7 DEF FilesOK

LEMMA StutterType == ASSUME TypeInv, UNCHANGED vars PROVE TypeInv'
BY DEF vars, TypeInv, WritersOK, FilesOK, Busy

LEMMA NextType == TypeInv /\ [Next]_vars => TypeInv'
BY RunType, FailType, KillType, UpdateType, PowerCutType, StutterType DEF Next

LEMMA AlwaysTyped == Spec => []TypeInv
BY InitType, NextType, PTL DEF Spec

\* Every variable keeps its type.  What matters: a configuration never holds
\* more pairs than config_t has room for, whatever the file holds
\* (config_set and config_read test the count).
THEOREM FileTypeCorrect == Spec => []TypeOK
<1>1. TypeInv => TypeOK
  BY DEF TypeInv, WritersOK, FilesOK, TypeOK, Pair, Stored
<1>. QED  BY <1>1, AlwaysTyped, PTL

-----------------------------------------------------------------------------
(***************************************************************************)
(* Mutual exclusion and what it protects.  The invariant: past flock a     *)
(* writer holds the lock; unless a call of its own failed unnoticed, the   *)
(* configuration it carries and the file it writes are what the path names *)
(* with its own pair set; all that a power cut can expose is synced.       *)
(***************************************************************************)
IInv == TypeInv /\ LockHeld /\ CopyOK /\ TmpOK /\ ImagesOK

Copying == {"create", "fill", "fsync", "rename"}

LEMMA OneLocked ==
  ASSUME LockHeld, NEW p \in Writers, NEW q \in Writers,
         pc[p] \in Locked, pc[q] \in Locked
  PROVE  p = q
BY DEF LockHeld

LEMMA IInit == Init => IInv
<1>. SUFFICES ASSUME Init PROVE IInv
  OBVIOUS
<1>1. LockHeld /\ CopyOK /\ TmpOK
  BY DEF Init, LockHeld, Locked, Locations, CopyOK, TmpOK
<1>2. ImagesOK
  BY DEF Init, ImagesOK
<1>. QED  BY <1>1, <1>2, InitType DEF IInv

\* What Return and Goto do to the places of the others, and to the lock.
LEMMA ReturnKeepsLock ==
  ASSUME WritersOK, LockHeld, NEW p \in Writers, NEW r \in Codes, Return(p, r)
  PROVE  /\ LockHeld'
         /\ pc'[p] = "idle"
         /\ \A q \in Writers \ {p} : /\ pc'[q] = pc[q] /\ upd'[q] = upd[q]
                               /\ cfg'[q] = cfg[q] /\ exact'[q] = exact[q]
<1>1. /\ pc'[p] = "idle"
      /\ \A q \in Writers \ {p} : /\ pc'[q] = pc[q] /\ upd'[q] = upd[q]
                               /\ cfg'[q] = cfg[q] /\ exact'[q] = exact[q]
  BY DEF WritersOK, Return, Gone, Goto
<1>2. ASSUME NEW q \in Writers, pc'[q] \in Locked PROVE lock' = q
  <2>1. q # p
    BY <1>1, <1>2 DEF Locked
  <2>2. lock = q
    BY <1>1, <1>2, <2>1 DEF LockHeld
  <2>. QED  BY <2>1, <2>2 DEF Return, Unlock
<1>. QED  BY <1>1, <1>2 DEF LockHeld

LEMMA GotoKeepsLock ==
  ASSUME WritersOK, LockHeld, NEW p \in Writers, pc[p] \in Locked, NEW l \in Locked,
         Goto(p, l), UNCHANGED lock
  PROVE  /\ LockHeld'
         /\ pc'[p] = l
         /\ \A q \in Writers \ {p} : pc'[q] = pc[q] /\ pc[q] \notin Locked /\ pc'[q] \notin Locked
<1>1. pc'[p] = l /\ \A q \in Writers \ {p} : pc'[q] = pc[q] /\ pc[q] \notin Locked
  BY OneLocked DEF WritersOK, Goto
<1>. QED  BY <1>1 DEF LockHeld

(* An update that ends leaves the copies of the others as they were. *)
LEMMA ReturnKeepsCopies ==
  ASSUME IInv, NEW p \in Writers, NEW r \in Codes, Return(p, r), file' = file,
         \A q \in Writers \ {p} : tmp'[q] = tmp[q],
         ImagesOK'
  PROVE  LockHeld' /\ CopyOK' /\ TmpOK' /\ ImagesOK'
<1>1. /\ LockHeld'
      /\ pc'[p] = "idle"
      /\ \A q \in Writers \ {p} : /\ pc'[q] = pc[q] /\ upd'[q] = upd[q]
                               /\ cfg'[q] = cfg[q] /\ exact'[q] = exact[q]
  BY ReturnKeepsLock DEF IInv, TypeInv
<1>2. ASSUME NEW q \in Writers, exact'[q], pc'[q] \in Copying
      PROVE  cfg'[q] = Set(file.cfg, q)'
  BY <1>1, <1>2 DEF Copying, IInv, CopyOK, Set
<1>3. ASSUME NEW q \in Writers
      PROVE  /\ exact'[q] /\ pc'[q] \in {"fsync", "rename"} => tmp'[q].cfg = cfg'[q]
             /\ pc'[q] = "rename" => tmp'[q].synced
  BY <1>1 DEF IInv, TmpOK
<1>4. CopyOK'
  BY <1>2 DEF CopyOK, Copying
<1>5. TmpOK'
  BY <1>3 DEF TmpOK
<1>. QED  BY <1>1, <1>4, <1>5

(* With all of the file in hand the copy is what it should be. *)
LEMMA DecideKeepsCopies ==
  ASSUME IInv, NEW p \in Writers, NEW c \in Stored, NEW whole \in BOOLEAN, pc[p] = "read",
         Decide(p, c, whole), whole => c = file.cfg, UNCHANGED <<file, images, tmp>>
  PROVE  LockHeld' /\ CopyOK' /\ TmpOK' /\ ImagesOK'
<1>0. ImagesOK'
  BY DEF IInv, ImagesOK
<1>1. CASE Return(p, "OK") \/ Return(p, "FAIL")
  BY <1>0, <1>1, ReturnKeepsCopies DEF Codes
<1>2. CASE /\ cfg' = [cfg EXCEPT ![p] = Set(c, p)]
           /\ exact' = [exact EXCEPT ![p] = whole]
           /\ Goto(p, "create")
           /\ UNCHANGED <<lock, upd, ret>>
  <2>1. whole => Set(c, p) = Set(file.cfg, p)'
    BY <1>2 DEF Set
  <2>2. /\ LockHeld'
        /\ pc'[p] = "create"
        /\ \A q \in Writers \ {p} : pc'[q] = pc[q] /\ pc[q] \notin Locked /\ pc'[q] \notin Locked
    BY <1>2, GotoKeepsLock DEF IInv, TypeInv, Locked, Locations
  <2>3. cfg'[p] = Set(c, p) /\ exact'[p] = whole
    BY <1>2 DEF IInv, TypeInv, WritersOK
  <2>4. CopyOK'
    BY <2>1, <2>2, <2>3 DEF CopyOK, Locked, Locations
  <2>5. TmpOK'
    BY <2>2 DEF TmpOK, Locked, Locations
  <2>. QED  BY <1>0, <2>2, <2>4, <2>5
<1>. QED  BY <1>1, <1>2 DEF Decide

(* A step of one that holds the lock: the others are outside, and stay there. *)
LEMMA RunKeepsCopies == ASSUME IInv, NEW p \in Writers, Run(p) PROVE LockHeld' /\ CopyOK' /\ TmpOK' /\ ImagesOK'
<1>. USE DEF IInv
<1>1. CASE Lock(p)
  <2>1. pc'[p] = "read" /\ \A q \in Writers \ {p} : pc'[q] = pc[q] /\ pc[q] \notin Locked
    BY <1>1, ConfigFileAssumption DEF Lock, Goto, TypeInv, WritersOK, LockHeld
  <2>2. LockHeld'
    BY <1>1, <2>1 DEF Lock, LockHeld, Locked, Locations
  <2>3. CopyOK' /\ TmpOK' /\ ImagesOK'
    BY <1>1, <2>1 DEF Lock, CopyOK, TmpOK, ImagesOK, Locked, Locations, Set
  <2>. QED  BY <2>2, <2>3
<1>2. CASE Read(p)
  <2>1. PICK c \in Readings(file.cfg) : Decide(p, c, c = file.cfg)
    BY <1>2 DEF Read
  <2>2. file.cfg \in Configs
    BY InodeTypes DEF TypeInv, FilesOK
  <2>3. c \in Stored
    BY <2>1, <2>2, ReadingsFit
  <2>. QED  BY <1>2, <2>1, <2>3, DecideKeepsCopies DEF Read
<1>3. ASSUME \/ Create(p) \/ Fill(p) \/ Fsync(p)
      PROVE  LockHeld' /\ CopyOK' /\ TmpOK' /\ ImagesOK'
  <2>1. PICK l \in {"fill", "fsync", "rename"} : Goto(p, l) /\ pc[p] \in Copying
    BY <1>3 DEF Create, Fill, Fsync, Copying
  <2>2. UNCHANGED <<file, images, lock, upd, cfg, exact>>
    BY <1>3 DEF Create, Fill, Fsync
  <2>3. /\ LockHeld'
        /\ pc'[p] = l
        /\ \A q \in Writers \ {p} : pc'[q] = pc[q] /\ pc[q] \notin Locked /\ pc'[q] \notin Locked
    BY <2>1, <2>2, GotoKeepsLock DEF TypeInv, Copying, Locked, Locations
  <2>4. CopyOK'
    BY <2>1, <2>2, <2>3 DEF CopyOK, Copying, Locked, Locations, Set
  <2>6. /\ exact[p] /\ pc'[p] \in {"fsync", "rename"} => tmp'[p].cfg = cfg[p]
        /\ pc'[p] = "rename" => tmp'[p].synced
    <3>1. CASE Create(p)
      BY <3>1, <2>3 DEF Create, Goto, TypeInv, WritersOK
    <3>2. CASE Fill(p)
      <4>1. tmp'[p].cfg = cfg[p] /\ pc'[p] = "fsync"
        BY <3>2 DEF Fill, Goto, TypeInv, WritersOK, FilesOK, Inode
      <4>. QED  BY <4>1
    <3>3. CASE Fsync(p)
      <4>1. tmp'[p].cfg = tmp[p].cfg /\ tmp'[p].synced
        BY <3>3 DEF Fsync, TypeInv, FilesOK, Inode
      <4>. QED  BY <3>3, <4>1 DEF TmpOK, Fsync
    <3>. QED  BY <1>3, <3>1, <3>2, <3>3
  <2>7. \A q \in Writers \ {p} : pc'[q] \notin {"fsync", "rename"}
    BY <2>3 DEF Locked, Locations
  <2>8. TmpOK'
    BY <2>2, <2>6, <2>7 DEF TmpOK
  <2>. QED  BY <2>2, <2>3, <2>4, <2>8 DEF ImagesOK
<1>4. CASE Rename(p)
  <2>1. /\ LockHeld'
        /\ pc'[p] = "dirsync"
        /\ \A q \in Writers \ {p} : pc'[q] = pc[q] /\ pc[q] \notin Locked /\ pc'[q] \notin Locked
    BY <1>4, GotoKeepsLock DEF Rename, TypeInv, Locked, Locations
  <2>2. CopyOK' /\ TmpOK'
    BY <2>1 DEF CopyOK, TmpOK, Locked, Locations
  <2>3. ImagesOK'
    BY <1>4 DEF Rename, ImagesOK, TmpOK
  <2>. QED  BY <2>1, <2>2, <2>3
<1>5. CASE DirSync(p)
  <2>1. ImagesOK'
    BY <1>5 DEF DirSync, ImagesOK
  <2>. QED  BY <1>5, <2>1, ReturnKeepsCopies DEF DirSync, Codes
<1>. QED  BY <1>1, <1>2, <1>3, <1>4, <1>5 DEF Run

LEMMA FailKeepsCopies == ASSUME IInv, NEW p \in Writers, Fail(p) PROVE LockHeld' /\ CopyOK' /\ TmpOK' /\ ImagesOK'
<1>. USE DEF IInv
<1>1. CASE Misread(p)
  <2>1. PICK part \in Parts(file.cfg) : \E c \in Readings(part) : Decide(p, c, FALSE)
    BY <1>1 DEF Misread
  <2>2. PICK c \in Readings(part) : Decide(p, c, FALSE)
    BY <2>1
  <2>3. c \in Stored
    BY <2>1, <2>2, ReadingsFit DEF Parts
  <2>. QED  BY <1>1, <2>2, <2>3, DecideKeepsCopies DEF Misread
<1>2. CASE ShortFill(p)
  <2>1. /\ LockHeld'
        /\ pc'[p] = "fsync"
        /\ \A q \in Writers \ {p} : pc'[q] = pc[q] /\ pc[q] \notin Locked /\ pc'[q] \notin Locked
    BY <1>2, GotoKeepsLock DEF ShortFill, TypeInv, Locked, Locations
  <2>2. ~exact'[p]
    BY <1>2 DEF ShortFill, TypeInv, WritersOK
  <2>3. CopyOK' /\ TmpOK'
    BY <2>1, <2>2 DEF CopyOK, TmpOK, Locked, Locations
  <2>. QED  BY <1>2, <2>1, <2>3 DEF ShortFill, ImagesOK
<1>3. CASE FailBefore(p) \/ FailDirSync(p)
  BY <1>3, ReturnKeepsCopies DEF FailBefore, FailDirSync, Codes, ImagesOK
<1>4. CASE FailWrite(p)
  <2>1. ImagesOK' /\ \A q \in Writers \ {p} : tmp'[q] = tmp[q]
    BY <1>4 DEF FailWrite, ImagesOK, TypeInv, FilesOK
  <2>. QED  BY <1>4, <2>1, ReturnKeepsCopies DEF FailWrite, Codes
<1>. QED  BY <1>1, <1>2, <1>3, <1>4 DEF Fail

LEMMA EnvKeepsCopies ==
  ASSUME IInv, \/ \E p \in Writers : Kill(p)
               \/ \E p \in Writers, k \in Keys, v \in Vals : Update(p, k, v)
               \/ PowerCut
  PROVE  LockHeld' /\ CopyOK' /\ TmpOK' /\ ImagesOK'
<1>. USE DEF IInv
<1>1. ASSUME NEW p \in Writers, Kill(p) PROVE LockHeld' /\ CopyOK' /\ TmpOK' /\ ImagesOK'
  <2>1. ImagesOK' /\ \A q \in Writers \ {p} : tmp'[q] = tmp[q]
    BY <1>1 DEF Kill, ImagesOK, TypeInv, FilesOK
  <2>. QED  BY <1>1, <2>1, ReturnKeepsCopies DEF Kill, Codes
<1>2. ASSUME NEW p \in Writers, NEW k \in Keys, NEW v \in Vals, Update(p, k, v)
      PROVE  LockHeld' /\ CopyOK' /\ TmpOK' /\ ImagesOK'
  <2>1. /\ pc'[p] = "lock"
        /\ \A q \in Writers \ {p} : pc'[q] = pc[q] /\ upd'[q] = upd[q]
    BY <1>2 DEF Update, Goto, TypeInv, WritersOK
  <2>2. LockHeld'
    BY <1>2, <2>1 DEF Update, LockHeld, Locked
  <2>3. CopyOK' /\ TmpOK'
    BY <1>2, <2>1 DEF Update, CopyOK, TmpOK, Set
  <2>. QED  BY <1>2, <2>2, <2>3 DEF Update, ImagesOK
<1>3. CASE PowerCut
  <2>1. LockHeld' /\ CopyOK' /\ TmpOK'
    BY <1>3 DEF PowerCut, LockHeld, CopyOK, TmpOK, Locked
  <2>2. ImagesOK'
    BY <1>3 DEF PowerCut, ImagesOK
  <2>. QED  BY <2>1, <2>2
<1>. QED  BY <1>1, <1>2, <1>3

LEMMA IStep == IInv /\ [Next]_vars => IInv'
<1>. SUFFICES ASSUME IInv, [Next]_vars PROVE IInv'
  OBVIOUS
<1>1. TypeInv'
  BY NextType DEF IInv
<1>2. CASE UNCHANGED vars
  BY <1>1, <1>2 DEF vars, IInv, LockHeld, CopyOK, TmpOK, ImagesOK, Set
<1>3. ASSUME Next PROVE LockHeld' /\ CopyOK' /\ TmpOK' /\ ImagesOK'
  BY <1>3, RunKeepsCopies, FailKeepsCopies, EnvKeepsCopies DEF Next
<1>. QED  BY <1>1, <1>2, <1>3 DEF IInv

LEMMA AlwaysI == Spec => []IInv
BY IInit, IStep, PTL DEF Spec

\* No update is lost: from its read to its rename, what a writer is going to
\* install is what the path names with its own pair changed, because flock
\* keeps the others out (config_io.c:170).
THEOREM NoLostUpdate == Spec => []NoStaleCopy
<1>1. IInv => NoStaleCopy
  BY DEF IInv, CopyOK, NoStaleCopy
<1>. QED  BY <1>1, AlwaysI, PTL

\* All that a power cut can leave at the path was synced before it was renamed.
THEOREM SyncedBeforeRename == Spec => []WholeAfterCut
<1>1. IInv => WholeAfterCut
  BY DEF IInv, ImagesOK, WholeAfterCut
<1>. QED  BY <1>1, AlwaysI, PTL

-----------------------------------------------------------------------------
(***************************************************************************)
(* Durability.  Until something is cut short or fails, a rename that is    *)
(* not on the media yet has a writer about to sync the directory.          *)
(***************************************************************************)
BudgetOK == \A r \in Resources : budget[r] <= Budget[r]
SyncDue  == Unspent("crash") /\ Unspent("fault") =>
              images = {file} \/ \E p \in Writers : pc[p] = "dirsync"
DInv == IInv /\ BudgetOK /\ SyncDue

\* What is left of the budget only falls, and what was spent stays spent.
LEMMA BudgetFalls ==
  ASSUME TypeInv, [Next]_vars, NEW r \in Resources
  PROVE  /\ budget'[r] <= budget[r]
         /\ BudgetOK /\ Unspent(r)' => Unspent(r) /\ budget'[r] = budget[r]
<1>1. \A s \in Resources : budget[s] \in Nat /\ Budget[s] \in Nat
  BY ConfigFileAssumption DEF TypeInv, FilesOK
<1>2. budget'[r] = budget[r] \/ budget'[r] = budget[r] - 1
  <2>1. CASE budget' = budget
    BY <2>1
  <2>2. ASSUME NEW s \in Resources, Spend(s) PROVE budget'[r] = budget[r] \/ budget'[r] = budget[r] - 1
    BY <2>2 DEF Spend, TypeInv, FilesOK
  <2>3. budget' = budget \/ \E s \in Resources : Spend(s)
    BY DEF Next, vars, Run, Fail, Lock, Read, Create, Fill, Fsync, Rename, DirSync,
           Misread, ShortFill, FailBefore, FailWrite, FailDirSync, Kill, Update, PowerCut, Resources
  <2>. QED  BY <2>1, <2>2, <2>3
<1>3. budget'[r] <= budget[r]
  BY <1>1, <1>2
<1>4. ASSUME BudgetOK, Unspent(r)' PROVE Unspent(r) /\ budget'[r] = budget[r]
  <2>1. budget'[r] = Budget[r] /\ budget[r] <= Budget[r]
    BY <1>4 DEF BudgetOK, Unspent
  <2>. QED  BY <1>1, <1>2, <2>1 DEF Unspent
<1>. QED  BY <1>3, <1>4

LEMMA BudgetOKStep == ASSUME TypeInv, BudgetOK, [Next]_vars PROVE BudgetOK'
<1>1. ASSUME NEW r \in Resources PROVE budget'[r] <= Budget[r]
  <2>1. budget'[r] <= budget[r] /\ budget[r] <= Budget[r]
    BY BudgetFalls DEF BudgetOK
  <2>2. budget[r] \in Nat /\ budget'[r] \in Nat /\ Budget[r] \in Nat
    BY NextType, ConfigFileAssumption DEF TypeInv, FilesOK
  <2>. QED  BY <2>1, <2>2
<1>. QED  BY <1>1 DEF BudgetOK

\* A step that spends nothing leaves the writers that are to sync the directory there.
LEMMA SyncDueStep == ASSUME TypeInv, BudgetOK, SyncDue, [Next]_vars PROVE SyncDue'
<1>. SUFFICES ASSUME Unspent("crash")', Unspent("fault")'
              PROVE  images' = {file'} \/ \E p \in Writers : pc'[p] = "dirsync"
  BY DEF SyncDue
<1>1. /\ Unspent("crash") /\ budget'["crash"] = budget["crash"]
      /\ Unspent("fault") /\ budget'["fault"] = budget["fault"]
  BY BudgetFalls DEF Resources
<1>2. images = {file} \/ \E p \in Writers : pc[p] = "dirsync"
  BY <1>1 DEF SyncDue
<1>3. ~Spend("crash") /\ ~Spend("fault")
  <2>1. budget["crash"] \in Nat /\ budget["fault"] \in Nat
    BY DEF TypeInv, FilesOK, Resources
  <2>. QED  BY <1>1, <2>1 DEF Spend, TypeInv, FilesOK, Resources
<1>4. CASE UNCHANGED vars
  BY <1>2, <1>4 DEF vars
<1>5. ASSUME NEW p \in Writers, Run(p)
      PROVE  images' = {file'} \/ \E q \in Writers : pc'[q] = "dirsync"
  <2>1. CASE Rename(p)
    BY <2>1 DEF Rename, Goto, TypeInv, WritersOK
  <2>2. CASE DirSync(p)
    BY <2>2 DEF DirSync
  <2>3. CASE Lock(p) \/ Read(p) \/ Create(p) \/ Fill(p) \/ Fsync(p)
    <3>1. UNCHANGED <<file, images>> /\ pc[p] # "dirsync"
      BY <2>3 DEF Lock, Read, Create, Fill, Fsync
    <3>2. \A q \in Writers \ {p} : pc'[q] = pc[q]
      BY <2>3 DEF Lock, Read, Decide, Return, Gone, Create, Fill, Fsync, Goto, TypeInv, WritersOK
    <3>. QED  BY <1>2, <3>1, <3>2
  <2>. QED  BY <1>5, <2>1, <2>2, <2>3 DEF Run
<1>6. ASSUME NEW p \in Writers, NEW k \in Keys, NEW v \in Vals, Update(p, k, v)
      PROVE  images' = {file'} \/ \E q \in Writers : pc'[q] = "dirsync"
  BY <1>2, <1>6 DEF Update, Goto, TypeInv, WritersOK
<1>7. ~PowerCut /\ \A p \in Writers : ~Kill(p) /\ ~Fail(p)
  BY <1>3 DEF PowerCut, Kill, Fail, Misread, ShortFill, FailBefore, FailWrite, FailDirSync
<1>. QED  BY <1>4, <1>5, <1>6, <1>7 DEF Next

LEMMA DInit == Init => DInv
<1>. SUFFICES ASSUME Init PROVE BudgetOK /\ SyncDue
  BY IInit DEF DInv
<1>. QED  BY ConfigFileAssumption DEF Init, BudgetOK, SyncDue

LEMMA DStep == DInv /\ [Next]_vars => DInv'
BY IStep, BudgetOKStep, SyncDueStep DEF DInv, IInv

\* As long as nothing was killed and nothing failed, once every update has returned
\* a power cut leaves the very file that readers see (config_io.c:303).
THEOREM DurableBetweenUpdates == Spec => []DurableWhenIdle
<1>1. DInv => DurableWhenIdle
  BY DEF DInv, SyncDue, DurableWhenIdle
<1>. QED  BY <1>1, DInit, DStep, PTL DEF Spec

\* As long as nothing failed, a writer's own pair is in its copy, and after its
\* rename in the file.
OwnPair(p) ==
  /\ pc[p] \in Copying => cfg[p][upd[p].key] = upd[p].val
  /\ pc[p] \in {"fsync", "rename"} => tmp[p].cfg = cfg[p]
  /\ pc[p] = "dirsync" => file.cfg[upd[p].key] = upd[p].val
OwnPairs == \A p \in Writers : OwnPair(p)

\* A step that spends no fault is not a failing call.
LEMMA NothingFails ==
  ASSUME TypeInv, BudgetOK, [Next]_vars, Unspent("fault")'
  PROVE  Unspent("fault") /\ \A p \in Writers : ~Fail(p)
<1>1. Unspent("fault") /\ budget'["fault"] = budget["fault"]
  BY BudgetFalls DEF Resources
<1>2. ~Spend("fault")
  <2>1. budget["fault"] \in Nat
    BY DEF TypeInv, FilesOK, Resources
  <2>. QED  BY <1>1, <2>1 DEF Spend, TypeInv, FilesOK, Resources
<1>. QED  BY <1>1, <1>2 DEF Fail, Misread, ShortFill, FailBefore, FailWrite, FailDirSync

\* A writer whose place and pair stay as they are keeps its copy, unless the file
\* changes under it.
LEMMA OwnPairKept ==
  ASSUME NEW q \in Writers, OwnPair(q), pc'[q] = pc[q], upd'[q] = upd[q], cfg'[q] = cfg[q],
         tmp'[q] = tmp[q], file' = file \/ pc[q] # "dirsync"
  PROVE  OwnPair(q)'
BY DEF OwnPair

LEMMA OwnPairsStep ==
  ASSUME IInv, OwnPairs, [Next]_vars, \A p \in Writers : ~Fail(p)
  PROVE  OwnPairs'
<1>. TypeInv /\ LockHeld /\ TypeInv'
  BY NextType DEF IInv
<1>. USE DEF TypeInv, WritersOK, FilesOK
<1>1. CASE UNCHANGED vars
  BY <1>1, OwnPairKept DEF OwnPairs, vars
<1>2. ASSUME NEW p \in Writers, Run(p) PROVE OwnPairs'
  <2>1. \A q \in Writers \ {p} : OwnPair(q)'
    <3>1. \A q \in Writers \ {p} : /\ pc'[q] = pc[q] /\ upd'[q] = upd[q] /\ cfg'[q] = cfg[q]
                                   /\ tmp'[q] = tmp[q]
      BY <1>2 DEF Run, Lock, Read, Decide, Return, Gone, Create, Fill, Fsync, Rename, DirSync, Goto
    <3>2. file' = file \/ \A q \in Writers \ {p} : pc[q] # "dirsync"
      <4>1. CASE Rename(p)
        BY <4>1, OneLocked DEF Rename, Locked, Locations
      <4>. QED  BY <1>2, <4>1 DEF Run, Lock, Read, Create, Fill, Fsync, DirSync
    <3>. QED  BY <3>1, <3>2, OwnPairKept DEF OwnPairs
  <2>2. OwnPair(p)'
    <3>1. CASE pc'[p] \in {"idle", "lock", "read"}
      BY <3>1 DEF OwnPair, Copying
    <3>2. CASE Read(p) /\ pc'[p] \notin {"idle", "lock", "read"}
      <4>1. PICK c \in Readings(file.cfg) : Decide(p, c, c = file.cfg)
        BY <3>2 DEF Read
      <4>2. cfg'[p] = Set(c, p) /\ pc'[p] = "create" /\ upd' = upd
        BY <3>2, <4>1 DEF Decide, Return, Gone, Goto
      <4>3. upd[p] \in Pair /\ c \in Configs
        BY <3>2, <4>1, ReadingsFit, InodeTypes DEF Read, Busy, Pair, Stored
      <4>. QED  BY <4>2, <4>3 DEF OwnPair, Set, Configs, Pair
    <3>3. CASE Create(p)
      BY <3>3 DEF Create, Goto, OwnPair, OwnPairs, Copying
    <3>4. CASE Fill(p)
      <4>1. tmp'[p].cfg = cfg[p]
        BY <3>4, InodeTypes DEF Fill, Inode
      <4>. QED  BY <3>4, <4>1 DEF Fill, Goto, OwnPair, OwnPairs, Copying
    <3>5. CASE Fsync(p)
      <4>1. tmp'[p].cfg = tmp[p].cfg
        BY <3>5, InodeTypes DEF Fsync, Inode
      <4>. QED  BY <3>5, <4>1 DEF Fsync, Goto, OwnPair, OwnPairs, Copying
    <3>6. CASE Rename(p)
      BY <3>6 DEF Rename, Goto, OwnPair, OwnPairs, Copying
    <3>7. CASE (Lock(p) \/ DirSync(p)) /\ pc'[p] \notin {"idle", "lock", "read"}
      BY <3>7 DEF Lock, DirSync, Return, Gone, Goto
    <3>. QED  BY <1>2, <3>1, <3>2, <3>3, <3>4, <3>5, <3>6, <3>7 DEF Run
  <2>. QED  BY <2>1, <2>2 DEF OwnPairs
<1>3. ASSUME NEW p \in Writers, Kill(p) PROVE OwnPairs'
  <2>1. pc'[p] = "idle" /\ file' = file
    BY <1>3 DEF Kill, Return, Gone, Goto
  <2>2. \A q \in Writers \ {p} : /\ pc'[q] = pc[q] /\ upd'[q] = upd[q] /\ cfg'[q] = cfg[q]
                                 /\ tmp'[q] = tmp[q]
    BY <1>3 DEF Kill, Return, Gone, Goto
  <2>3. OwnPair(p)'
    BY <2>1 DEF OwnPair, Copying
  <2>. QED  BY <2>1, <2>2, <2>3, OwnPairKept DEF OwnPairs
<1>4. ASSUME NEW p \in Writers, NEW k \in Keys, NEW v \in Vals, Update(p, k, v) PROVE OwnPairs'
  <2>1. pc'[p] = "lock" /\ UNCHANGED <<file, cfg, tmp>>
    BY <1>4 DEF Update, Goto
  <2>2. \A q \in Writers \ {p} : pc'[q] = pc[q] /\ upd'[q] = upd[q]
    BY <1>4 DEF Update, Goto
  <2>3. OwnPair(p)'
    BY <2>1 DEF OwnPair, Copying
  <2>. QED  BY <2>1, <2>2, <2>3, OwnPairKept DEF OwnPairs
<1>5. CASE PowerCut
  BY <1>5 DEF PowerCut, OwnPairs, OwnPair, Copying
<1>. QED  BY <1>1, <1>2, <1>3, <1>4, <1>5 DEF Next

\* An update that reported success survives every power cut, as long as nothing was
\* killed and nothing failed: one that found its value in the file found it on the
\* media, because the lock kept it out until the directory was synced.  ConfigFileKilled.cfg
\* shows what a writer killed before that does to the next (config_io.c:213).
THEOREM SuccessIsDurable == Spec => AckedWhileCalm
<1>. DEFINE I == DInv /\ (Unspent("fault") => OwnPairs)
<1>1. Init => I
  BY DInit DEF Init, OwnPairs, OwnPair, Copying
<1>2. I /\ [Next]_vars => I'
  <2>. SUFFICES ASSUME I, [Next]_vars, Unspent("fault")' PROVE OwnPairs'
    BY DStep
  <2>. QED  BY NothingFails, OwnPairsStep DEF DInv, IInv
<1>3. I /\ [Next]_vars => [Unspent("crash")' /\ Unspent("fault")' => OnMedia]_vars
  <2>. SUFFICES ASSUME I, Next, NEW p \in Writers, Unspent("crash")', Unspent("fault")',
                       pc[p] # "idle", pc'[p] = "idle", ret'[p] = "OK"
                PROVE  \A i \in images' : i.cfg[upd[p].key] = upd[p].val
    BY DEF OnMedia
  <2>. TypeInv /\ LockHeld /\ SyncDue /\ BudgetOK
    BY DEF DInv, IInv
  <2>1. Unspent("crash") /\ Unspent("fault") /\ OwnPairs /\ budget'["crash"] = budget["crash"]
    BY BudgetFalls DEF Resources
  <2>2. ~PowerCut /\ \A q \in Writers : ~Kill(q) /\ ~Fail(q)
    <3>1. budget["crash"] \in Nat
      BY DEF TypeInv, FilesOK, Resources
    <3>2. ~Spend("crash")
      BY <2>1, <3>1 DEF Spend, TypeInv, FilesOK, Resources
    <3>. QED  BY <3>2, NothingFails DEF PowerCut, Kill
  <2>3. Read(p) \/ DirSync(p)
    <3>1. PICK q \in Writers : Run(q) \/ \E k \in Keys, v \in Vals : Update(q, k, v)
      BY <2>2 DEF Next
    <3>2. q = p
      BY <3>1 DEF Run, Lock, Read, Decide, Return, Gone, Create, Fill, Fsync, Rename, DirSync,
                  Update, Goto, TypeInv, WritersOK
    <3>. QED  BY <3>1, <3>2 DEF Run, Lock, Create, Fill, Fsync, Rename, Update, Goto, TypeInv, WritersOK
  <2>4. CASE Read(p)
    <3>1. PICK c \in Readings(file.cfg) : Decide(p, c, c = file.cfg)
      BY <2>4 DEF Read
    <3>2. c[upd[p].key] = upd[p].val
      BY <3>1, <2>4 DEF Decide, Return, Gone, Goto, Read, TypeInv, WritersOK
    <3>3. \A q \in Writers : pc[q] # "dirsync"
      BY <2>4, OneLocked DEF Read, Locked, Locations
    <3>4. images = {file}
      BY <2>1, <3>3 DEF SyncDue
    <3>5. upd[p] \in Pair /\ c \in Parts(file.cfg)
      BY <2>4, <3>1, ReadingsFit, InodeTypes DEF Read, TypeInv, WritersOK, FilesOK, Busy, Pair
    <3>6. file.cfg[upd[p].key] = upd[p].val
      BY <3>2, <3>5, ConfigFileAssumption DEF Parts, Pair
    <3>. QED  BY <2>4, <3>4, <3>6 DEF Read
  <2>5. CASE DirSync(p)
    BY <2>1, <2>5 DEF DirSync, OwnPairs, OwnPair
  <2>. QED  BY <2>3, <2>4, <2>5
<1>. HIDE DEF I
<1>. QED  BY <1>1, <1>2, <1>3, PTL DEF Spec, AckedWhileCalm

\* What the file holds, and may hold after a power cut, is what a config_t can hold.
Whole == (\A p \in Writers : exact[p]) /\ \A i \in images : i.cfg \in Stored

LEMMA WholeStep == ASSUME IInv, Whole, [Next]_vars, \A p \in Writers : ~Fail(p) PROVE Whole'
<1>. TypeInv
  BY DEF IInv
<1>1. CASE UNCHANGED vars \/ \E p \in Writers, k \in Keys, v \in Vals : Update(p, k, v)
  BY <1>1 DEF vars, Update, Whole
<1>2. ASSUME NEW p \in Writers, Run(p) \/ Kill(p) PROVE Whole'
  <2>1. ASSUME exact' = [exact EXCEPT ![p] = TRUE] PROVE \A q \in Writers : exact'[q]
    BY <2>1 DEF Whole, TypeInv, WritersOK
  <2>2. CASE Read(p)
    <3>1. PICK c \in Readings(file.cfg) : Decide(p, c, c = file.cfg)
      BY <2>2 DEF Read
    <3>2. c = file.cfg
      BY <3>1 DEF Readings, Whole, Stored, IInv, ImagesOK
    <3>3. exact' = [exact EXCEPT ![p] = TRUE]
      BY <3>1, <3>2 DEF Decide, Return, Gone
    <3>. QED  BY <2>1, <2>2, <3>3 DEF Read, Whole
  <2>3. CASE Rename(p)
    <3>1. tmp[p].cfg = cfg[p] /\ cfg[p] \in Stored
      BY <2>3 DEF Rename, Whole, IInv, TmpOK, TypeInv, WritersOK
    <3>. QED  BY <2>3, <3>1 DEF Rename, Whole
  <2>4. CASE DirSync(p)
    BY <2>1, <2>4 DEF DirSync, Return, Gone, Whole, IInv, ImagesOK
  <2>5. CASE Kill(p)
    BY <2>1, <2>5 DEF Kill, Return, Gone, Whole
  <2>6. CASE Lock(p) \/ Create(p) \/ Fill(p) \/ Fsync(p)
    BY <2>6 DEF Lock, Create, Fill, Fsync, Whole
  <2>. QED  BY <1>2, <2>2, <2>3, <2>4, <2>5, <2>6 DEF Run
<1>3. CASE PowerCut
  <2>1. PICK i \in images : \E c \in Remains(i) : /\ file' = [cfg |-> c, synced |-> TRUE]
                                                  /\ images' = {file'}
    BY <1>3 DEF PowerCut
  <2>2. images' = {file'} /\ file'.cfg = i.cfg
    BY <2>1 DEF Remains, IInv, ImagesOK
  <2>. QED  BY <1>3, <2>2 DEF PowerCut, Whole
<1>. QED  BY <1>1, <1>2, <1>3 DEF Next

\* An update changes its own pair and no other, whatever is killed or cut, when no
\* call fails and the file had no more pairs than config_t holds to begin with.  A
\* run shows what one read that fails does to the other pairs (config_io.c:209).
THEOREM OthersAreKept ==
  ASSUME Budget["fault"] = 0, InitPairs <= MaxPairs
  PROVE  Spec => OneKeyAtATime
<1>. DEFINE I == DInv /\ Whole
<1>1. Init => I
  <2>. SUFFICES ASSUME Init PROVE Whole
    BY DInit
  <2>1. file.cfg \in Configs /\ Cardinality(Present(file.cfg)) <= InitPairs
    BY DEF Init
  <2>2. Cardinality(Present(file.cfg)) \in Nat
    <3>1. IsFiniteSet(Present(file.cfg))
      BY FS_Subset, ConfigFileAssumption DEF Present
    <3>. QED  BY <3>1, FS_CardinalityType
  <2>3. file.cfg \in Stored
    BY <2>1, <2>2, ConfigFileAssumption DEF Stored
  <2>. QED  BY <2>3 DEF Init, Whole
<1>a. I /\ [Next]_vars => \A p \in Writers : ~Fail(p)
  <2>. SUFFICES ASSUME I, [Next]_vars PROVE Unspent("fault")'
    BY NothingFails DEF DInv, IInv
  <2>1. budget'["fault"] \in Nat /\ budget'["fault"] <= Budget["fault"]
    BY DStep DEF DInv, IInv, BudgetOK, TypeInv, FilesOK, Resources
  <2>. QED  BY <2>1 DEF Unspent
<1>2. I /\ [Next]_vars => I'
  BY <1>a, DStep, WholeStep DEF DInv
<1>3. I /\ [Next]_vars =>
        [\/ \E p \in Writers : pc[p] = "rename" /\ file'.cfg = Set(file.cfg, p)
         \/ images' = {file'}]_file
  <2>. SUFFICES ASSUME I, Next, file' # file, ~PowerCut
                PROVE  \E p \in Writers : pc[p] = "rename" /\ file'.cfg = Set(file.cfg, p)
    BY DEF PowerCut, vars
  <2>1. PICK p \in Writers : Rename(p)
    BY <1>a DEF Next, Run, Lock, Read, Create, Fill, Fsync, DirSync, Kill, Update
  <2>2. pc[p] = "rename" /\ file' = tmp[p] /\ exact[p]
    BY <2>1 DEF Rename, Whole
  <2>3. tmp[p].cfg = cfg[p] /\ cfg[p] = Set(file.cfg, p)
    BY <2>2 DEF DInv, IInv, TmpOK, CopyOK
  <2>. QED  BY <2>2, <2>3
<1>. HIDE DEF I
<1>. QED  BY <1>1, <1>2, <1>3, PTL DEF Spec, OneKeyAtATime

-----------------------------------------------------------------------------
(***************************************************************************)
(* The file implements ConfigMap.  Update begins an abstract update,       *)
(* Rename applies it, and whatever makes a writer idle again ends it.  A   *)
(* reading or a writing that goes wrong unnoticed is a Miss.               *)
(***************************************************************************)
Asked(p)   == [st |-> "asked",   key |-> upd[p].key, val |-> upd[p].val, exact |-> exact[p]]
Applied(p) == [st |-> "applied", key |-> upd[p].key, val |-> upd[p].val, exact |-> exact[p]]

LEMMA PendCases ==
  ASSUME NEW p \in Writers
  PROVE  /\ pc[p] = "idle" => PendNow[p] = Map!None
         /\ pc[p] = "dirsync" => PendNow[p] = Applied(p)
         /\ pc[p] \notin {"idle", "dirsync"} => PendNow[p] = Asked(p)
BY DEF PendNow, Pending, Asked, Applied, Map!None

\* When one writer moves, what it has pending is what changes.
LEMMA PendStep ==
  ASSUME NEW p \in Writers,
         \A q \in Writers \ {p} : pc'[q] = pc[q] /\ upd'[q] = upd[q] /\ exact'[q] = exact[q]
  PROVE  PendNow' = [PendNow EXCEPT ![p] = Pending(pc'[p], upd'[p], exact'[p])]
BY DEF PendNow

\* A writer that has not read the file yet has missed nothing.
FreshExact == \A p \in Writers : pc[p] \in {"idle", "lock", "read"} => exact[p] = TRUE

LEMMA FreshStep == ASSUME TypeInv, FreshExact, [Next]_vars PROVE FreshExact'
<1>. USE DEF TypeInv, WritersOK
<1>1. CASE UNCHANGED vars
  BY <1>1 DEF vars, FreshExact
<1>2. ASSUME NEW p \in Writers, NEW k \in Keys, NEW v \in Vals, Update(p, k, v) PROVE FreshExact'
  BY <1>2 DEF Update, Goto, FreshExact
<1>3. CASE PowerCut
  BY <1>3 DEF PowerCut, FreshExact
<1>4. ASSUME NEW p \in Writers, NEW r \in Codes, Return(p, r) PROVE FreshExact'
  BY <1>4 DEF Return, Gone, Goto, FreshExact
<1>5. ASSUME NEW p \in Writers, NEW c, NEW whole, Decide(p, c, whole) PROVE FreshExact'
  <2>1. ASSUME Goto(p, "create"), exact' = [exact EXCEPT ![p] = whole] PROVE FreshExact'
    BY <2>1 DEF Goto, FreshExact
  <2>. QED  BY <1>4, <1>5, <2>1 DEF Decide, Codes
<1>6. ASSUME NEW p \in Writers, Run(p) PROVE FreshExact'
  <2>1. CASE Lock(p) \/ Create(p) \/ Fill(p) \/ Fsync(p) \/ Rename(p)
    BY <2>1 DEF Lock, Create, Fill, Fsync, Rename, Goto, FreshExact
  <2>. QED  BY <1>4, <1>5, <1>6, <2>1 DEF Run, Read, DirSync, Codes
<1>7. ASSUME NEW p \in Writers, Fail(p) \/ Kill(p) PROVE FreshExact'
  <2>1. CASE ShortFill(p)
    BY <2>1 DEF ShortFill, Goto, FreshExact
  <2>. QED  BY <1>4, <1>5, <1>7, <2>1 DEF Fail, Misread, FailBefore, FailWrite, FailDirSync, Kill, Codes
<1>. QED  BY <1>1, <1>2, <1>3, <1>6, <1>7 DEF Next

LEMMA AlwaysFresh == Spec => []FreshExact
<1>1. Init => FreshExact
  BY DEF Init, FreshExact
<1>2. TypeInv /\ FreshExact /\ [Next]_vars => FreshExact'
  BY FreshStep
<1>. QED  BY <1>1, <1>2, AlwaysTyped, PTL DEF Spec

LEMMA InitMaps == Init => Map!Init
<1>. SUFFICES ASSUME Init PROVE Map!Init
  OBVIOUS
<1>1. file.cfg \in Map!Maps
  BY DEF Init, Configs, Map!Maps
<1>2. PendNow = [p \in Writers |-> Map!None]
  BY DEF Init, PendNow, Pending, Map!None
<1>3. {i.cfg : i \in images} = {file.cfg}
  BY DEF Init
<1>. QED  BY <1>1, <1>2, <1>3 DEF Map!Init

\* The writers that are idle have nothing to be inexact about.
LEMMA UpdateMaps ==
  ASSUME IInv, FreshExact, NEW p \in Writers, NEW k \in Keys, NEW v \in Vals, Update(p, k, v)
  PROVE  Map!Begin(p, k, v)
<1>1. /\ pc'[p] = "lock" /\ upd'[p] = [key |-> k, val |-> v] /\ exact'[p] = TRUE
      /\ \A q \in Writers \ {p} : pc'[q] = pc[q] /\ upd'[q] = upd[q] /\ exact'[q] = exact[q]
  BY DEF Update, Goto, IInv, TypeInv, WritersOK, FreshExact
<1>2. PendNow' = [PendNow EXCEPT ![p] = [st |-> "asked", key |-> k, val |-> v, exact |-> TRUE]]
  BY <1>1, PendStep DEF Pending
<1>3. PendNow[p] = Map!None
  BY PendCases DEF Update
<1>. QED  BY <1>2, <1>3 DEF Update, Map!Begin

LEMMA ReturnMaps ==
  ASSUME IInv, NEW p \in Writers, NEW r \in Codes, Return(p, r), pc[p] # "idle",
         file' = file, images' \in {images, {file}}
  PROVE  Map!End(p)
<1>1. /\ pc'[p] = "idle"
      /\ \A q \in Writers \ {p} : pc'[q] = pc[q] /\ upd'[q] = upd[q] /\ exact'[q] = exact[q]
  BY ReturnKeepsLock DEF IInv, TypeInv
<1>2. PendNow' = [PendNow EXCEPT ![p] = Map!None]
  <2>1. Pending(pc'[p], upd'[p], exact'[p]) = Map!None
    BY <1>1 DEF Pending, Map!None
  <2>. QED  BY <1>1, <2>1, PendStep
<1>3. PendNow[p] # Map!None
  <2>1. Map!None.st = "none" /\ Asked(p).st = "asked" /\ Applied(p).st = "applied"
    BY DEF Map!None, Asked, Applied
  <2>2. PendNow[p] = Asked(p) \/ PendNow[p] = Applied(p)
    BY PendCases
  <2>. QED  BY <2>1, <2>2
<1>4. {i.cfg : i \in images'} \in {{i.cfg : i \in images}, {file.cfg}}
  OBVIOUS
<1>. QED  BY <1>2, <1>3, <1>4 DEF Map!End

\* A step between the call and the rename.
LEMMA InsideMaps ==
  ASSUME IInv, NEW p \in Writers, NEW l \in Locations \ {"idle", "dirsync"}, Goto(p, l),
         pc[p] \notin {"idle", "dirsync"}, UNCHANGED <<file, images, upd>>,
         exact' = exact \/ exact' = [exact EXCEPT ![p] = FALSE]
  PROVE  Map!Miss(p) \/ UNCHANGED Map!vars
<1>1. pc'[p] = l /\ \A q \in Writers \ {p} : pc'[q] = pc[q]
  BY DEF Goto, IInv, TypeInv, WritersOK
<1>2. \A q \in Writers \ {p} : exact'[q] = exact[q]
  BY DEF IInv, TypeInv, WritersOK
<1>3. PendNow' = [PendNow EXCEPT ![p] = Pending(pc'[p], upd'[p], exact'[p])]
  BY <1>1, <1>2, PendStep
<1>4. PendNow[p] = Asked(p)
  BY PendCases
<1>5. Pending(pc'[p], upd'[p], exact'[p]) = [Asked(p) EXCEPT !.exact = exact'[p]]
  BY <1>1 DEF Pending, Asked
<1>6. CASE exact' = exact
  <2>1. [Asked(p) EXCEPT !.exact = exact'[p]] = PendNow[p]
    BY <1>4, <1>6 DEF Asked
  <2>2. PendNow' = PendNow
    BY <1>3, <1>5, <2>1 DEF PendNow
  <2>. QED  BY <2>2 DEF Map!vars
<1>7. CASE exact' = [exact EXCEPT ![p] = FALSE]
  <2>1. exact'[p] = FALSE
    BY <1>7 DEF IInv, TypeInv, WritersOK
  <2>2. PendNow' = [PendNow EXCEPT ![p] = [PendNow[p] EXCEPT !.exact = FALSE]]
    BY <1>3, <1>4, <1>5, <2>1
  <2>3. [PendNow EXCEPT ![p].exact = FALSE] = [PendNow EXCEPT ![p] = [PendNow[p] EXCEPT !.exact = FALSE]]
    OBVIOUS
  <2>4. PendNow[p].st = "asked"
    BY <1>4 DEF Asked
  <2>. QED  BY <2>2, <2>3, <2>4 DEF Map!Miss
<1>. QED  BY <1>6, <1>7

\* Before it has read the file, a writer has nothing to be inexact about either.
LEMMA DecideMaps ==
  ASSUME IInv, FreshExact, NEW p \in Writers, NEW c \in Configs, NEW whole \in BOOLEAN,
         pc[p] = "read", Decide(p, c, whole), UNCHANGED <<file, images>>
  PROVE  Map!End(p) \/ Map!Miss(p) \/ UNCHANGED Map!vars
<1>1. CASE Return(p, "OK") \/ Return(p, "FAIL")
  <2>1. images' \in {images, {file}}
    OBVIOUS
  <2>. QED  BY <1>1, <2>1, ReturnMaps DEF Codes
<1>2. ASSUME Goto(p, "create"), UNCHANGED upd, exact' = [exact EXCEPT ![p] = whole]
      PROVE  Map!Miss(p) \/ UNCHANGED Map!vars
  <2>1. exact' = exact \/ exact' = [exact EXCEPT ![p] = FALSE]
    <3>1. CASE whole
      BY <1>2, <3>1 DEF FreshExact, IInv, TypeInv, WritersOK
    <3>2. CASE ~whole
      BY <1>2, <3>2
    <3>. QED  BY <3>1, <3>2
  <2>. QED  BY <1>2, <2>1, InsideMaps DEF Locations
<1>. QED  BY <1>1, <1>2 DEF Decide

LEMMA RenameMaps == ASSUME IInv, NEW p \in Writers, Rename(p) PROVE Map!Apply(p)
<1>. USE DEF IInv
<1>1. upd[p] \in Pair /\ file.cfg \in Configs /\ pc[p] = "rename"
  BY InodeTypes DEF Rename, TypeInv, WritersOK, FilesOK, Busy, Pair
<1>2. exact[p] => tmp[p].cfg = Set(file.cfg, p)
  BY <1>1 DEF CopyOK, TmpOK
<1>3. tmp[p].cfg \in Map!Maps
  BY InodeTypes DEF TypeInv, FilesOK, Map!Maps, Configs
<1>4. PendNow[p] = Asked(p)
  BY <1>1, PendCases
<1>5. Set(file.cfg, p) = [file.cfg EXCEPT ![PendNow[p].key] = PendNow[p].val]
  BY <1>4 DEF Set, Asked
<1>6. PendNow[p].exact = exact[p] /\ PendNow[p].st = "asked"
  BY <1>4 DEF Asked
<1>7. file' = tmp[p]
  BY DEF Rename
<1>8. file'.cfg \in IF PendNow[p].exact
                      THEN {[file.cfg EXCEPT ![PendNow[p].key] = PendNow[p].val]} ELSE Map!Maps
  BY <1>2, <1>3, <1>5, <1>6, <1>7
<1>9. {i.cfg : i \in images'} = {i.cfg : i \in images} \cup {file'.cfg}
  BY DEF Rename
<1>10. /\ pc'[p] = "dirsync" /\ upd' = upd /\ exact' = exact
       /\ \A q \in Writers \ {p} : pc'[q] = pc[q]
  BY DEF Rename, Goto, TypeInv, WritersOK
<1>11. PendNow' = [PendNow EXCEPT ![p] = Applied(p)]
  BY <1>10, PendStep DEF Pending, Applied
<1>12. [PendNow[p] EXCEPT !.st = "applied"] = Applied(p)
  BY <1>4 DEF Asked, Applied
<1>13. [PendNow EXCEPT ![p].st = "applied"] = [PendNow EXCEPT ![p] = [PendNow[p] EXCEPT !.st = "applied"]]
  OBVIOUS
<1>. QED  BY <1>6, <1>8, <1>9, <1>11, <1>12, <1>13 DEF Map!Apply

LEMMA PowerCutMaps == ASSUME IInv, PowerCut PROVE Map!PowerCut
<1>1. PICK i \in images : \E c \in Remains(i) :
        /\ file' = [cfg |-> c, synced |-> TRUE]
        /\ images' = {file'}
  BY DEF PowerCut
<1>2. file'.cfg = i.cfg /\ images' = {file'}
  BY <1>1 DEF Remains, IInv, ImagesOK
<1>3. {j.cfg : j \in images'} = {file'.cfg}
  BY <1>2
<1>4. PendNow' = [p \in Writers |-> Map!None]
  BY DEF PowerCut, PendNow, Pending, Map!None
<1>. QED  BY <1>2, <1>3, <1>4 DEF Map!PowerCut

LEMMA StepMaps ==
  ASSUME IInv, FreshExact, NEW p \in Writers, Run(p) \/ Fail(p) \/ Kill(p)
  PROVE  Map!Apply(p) \/ Map!End(p) \/ Map!Miss(p) \/ UNCHANGED Map!vars
<1>1. file.cfg \in Configs
  BY InodeTypes DEF IInv, TypeInv, FilesOK
<1>2. ASSUME Lock(p) \/ Create(p) \/ Fill(p) \/ Fsync(p) \/ ShortFill(p)
      PROVE  Map!Miss(p) \/ UNCHANGED Map!vars
  BY <1>2, InsideMaps DEF Lock, Create, Fill, Fsync, ShortFill, Locations
<1>3. ASSUME Read(p) PROVE Map!End(p) \/ Map!Miss(p) \/ UNCHANGED Map!vars
  <2>1. PICK c \in Readings(file.cfg) : Decide(p, c, c = file.cfg)
    BY <1>3 DEF Read
  <2>2. c \in Configs
    BY <1>1, <2>1, ReadingsFit DEF Stored
  <2>. QED  BY <1>3, <2>1, <2>2, DecideMaps DEF Read
<1>4. ASSUME Misread(p) PROVE Map!End(p) \/ Map!Miss(p) \/ UNCHANGED Map!vars
  <2>1. PICK part \in Parts(file.cfg) : \E c \in Readings(part) : Decide(p, c, FALSE)
    BY <1>4 DEF Misread
  <2>2. PICK c \in Readings(part) : Decide(p, c, FALSE)
    BY <2>1
  <2>3. c \in Configs
    BY <2>1, <2>2, ReadingsFit DEF Stored, Parts
  <2>. QED  BY <1>4, <2>2, <2>3, DecideMaps DEF Misread
<1>5. ASSUME DirSync(p) \/ FailBefore(p) \/ FailWrite(p) \/ FailDirSync(p) \/ Kill(p)
      PROVE  Map!End(p)
  BY <1>5, ReturnMaps DEF DirSync, FailBefore, FailWrite, FailDirSync, Kill, Codes
<1>. QED  BY <1>2, <1>3, <1>4, <1>5, RenameMaps DEF Run, Fail

LEMMA NextMaps == IInv /\ FreshExact /\ [Next]_vars => [Map!Next]_(Map!vars)
<1>. SUFFICES ASSUME IInv, FreshExact, [Next]_vars PROVE Map!Next \/ UNCHANGED Map!vars
  OBVIOUS
<1>1. CASE UNCHANGED vars
  BY <1>1 DEF vars, Map!vars, PendNow
<1>2. ASSUME NEW p \in Writers, Run(p) \/ Fail(p) \/ Kill(p)
      PROVE  Map!Next \/ UNCHANGED Map!vars
  BY <1>2, StepMaps DEF Map!Next
<1>3. ASSUME NEW p \in Writers, NEW k \in Keys, NEW v \in Vals, Update(p, k, v) PROVE Map!Next
  BY <1>3, UpdateMaps DEF Map!Next
<1>4. CASE PowerCut
  BY <1>4, PowerCutMaps DEF Map!Next
<1>. QED  BY <1>1, <1>2, <1>3, <1>4 DEF Next

\* Updates of any number of processes behave as a map whose keys change one at
\* a time, at the rename of config_write_atomic; a power cut leaves the map as
\* it was after one of the renames since the last directory fsync.  Only an update
\* whose own read or write failed unnoticed may leave anything else.
THEOREM FileIsAMap == Spec => ImplementsConfigMap
BY InitMaps, AlwaysI, AlwaysFresh, NextMaps, PTL DEF Spec, ImplementsConfigMap, Map!Spec
=============================================================================
