------------------------------ MODULE ConfigFile ------------------------------
(***************************************************************************)
(* The key=value file of edgeconf/patterns (config_io.c): processes that   *)
(* run `robust_config write` update one key each.  An update takes the     *)
(* .lock file, reads the whole configuration, changes one pair, writes a   *)
(* temporary file, syncs it, renames it over the path and syncs the        *)
(* directory.  Any process may be killed between two of these steps, the   *)
(* power may be cut, and any of the calls may fail.                        *)
(***************************************************************************)
EXTENDS Naturals, FiniteSets

CONSTANTS Keys,      \* the keys of the file
          Vals,      \* the values
          NoVal,     \* "no such key"
          Writers,   \* the processes that run mode_write
          NoOne,     \* no writer
          MaxPairs,  \* CONFIG_MAX_PAIRS
          InitPairs, \* the most pairs the file has at the start
          Budget     \* how many updates, crashes and failed calls there are

Resources == {"update", "crash", "fault"}

ASSUME ConfigFileAssumption ==
  /\ NoVal \notin Vals
  /\ NoOne \notin Writers
  /\ IsFiniteSet(Keys)
  /\ MaxPairs \in Nat
  /\ InitPairs \in Nat
  /\ Budget \in [Resources -> Nat]

Configs == [Keys -> Vals \cup {NoVal}]
Empty   == [k \in Keys |-> NoVal]
Present(c) == {k \in Keys : c[k] # NoVal}

\* The configurations made of some of c's pairs.
Parts(c) == {d \in Configs : \A k \in Keys : d[k] \in {c[k], NoVal}}

\* What a file may say whose bytes got lost in the middle of lines: the rest of
\* one line joins the next, so there are no more pairs than in c, but they may
\* have any key and any value.
Spliced(c) == {d \in Configs : Cardinality(Present(d)) <= Cardinality(Present(c))}

\* An inode: the pairs in the file, and whether they are on the media.  A path
\* that names no file is taken for an empty one that is.
Inode == [cfg : Configs, synced : BOOLEAN]
NoInode == [cfg |-> Empty, synced |-> TRUE]

NoUpd == [key |-> NoVal, val |-> NoVal]
Codes == {"none", "OK", "FAIL"}

VARIABLES
  file,    \* the inode the path names
  images,  \* the inodes it may name after a power cut: renames not yet synced
  lock,    \* who holds flock(LOCK_EX) on the .lock file
  pc,      \* where each writer is
  upd,     \* the key and value it writes
  cfg,     \* its config_t
  tmp,     \* its temporary file
  ret,     \* what its config_update_key returned
  exact,   \* history: what it read is the whole file, and what it printed that with its pair
  budget   \* what is left of Budget

vars == <<file, images, lock, pc, upd, cfg, tmp, ret, exact, budget>>

Spend(r) == /\ budget[r] > 0
            /\ budget' = [budget EXCEPT ![r] = @ - 1]
Goto(p, l) == pc' = [pc EXCEPT ![p] = l]
Set(c, p) == [c EXCEPT ![upd[p].key] = upd[p].val]

Gone(p, r) == /\ Goto(p, "idle")
              /\ ret' = [ret EXCEPT ![p] = r]
              /\ upd' = [upd EXCEPT ![p] = NoUpd]
              /\ cfg' = [cfg EXCEPT ![p] = Empty]
              /\ exact' = [exact EXCEPT ![p] = TRUE]
Unlock(p) == lock' = IF lock = p THEN NoOne ELSE lock

ReturnLocked(p, r) ==             \* mutant: the error paths forget the lock
  Gone(p, r) /\ IF r = "FAIL" THEN UNCHANGED lock ELSE Unlock(p)

\* Unlock (if the lock is held), close the lock file and return.
Return(p, r) == Gone(p, r) /\ Unlock(p)

-----------------------------------------------------------------------------
Update(p, k, v) ==
  /\ pc[p] = "idle"
  /\ Spend("update")
  /\ Goto(p, "lock")
  /\ upd' = [upd EXCEPT ![p] = [key |-> k, val |-> v]]
  /\ ret' = [ret EXCEPT ![p] = "none"]
  /\ UNCHANGED <<file, images, lock, cfg, tmp, exact>>

LockShared(p) ==                  \* mutant: LOCK_SH where LOCK_EX is meant
  /\ pc[p] = "lock"
  /\ Goto(p, "read")
  /\ UNCHANGED <<file, images, lock, upd, cfg, tmp, ret, exact, budget>>

Lock(p) ==
  /\ pc[p] = "lock"
  /\ lock = NoOne
  /\ lock' = p
  /\ Goto(p, "read")
  /\ UNCHANGED <<file, images, upd, cfg, tmp, ret, exact, budget>>

\* What config_read makes of the file: all of it, or the pairs that fit.
Readings(c) == IF Cardinality(Present(c)) <= MaxPairs THEN {c}
               ELSE {d \in Parts(c) : Cardinality(Present(d)) = MaxPairs}

FitsAnyway(c, p) == TRUE          \* mutant: config_set does not look at count
Fits(c, p) == upd[p].key \in Present(c) \/ Cardinality(Present(c)) < MaxPairs

\* With the configuration c in hand, all of the file or not: nothing to do, no
\* room, or a file to write.
Decide(p, c, whole) ==
  \/ c[upd[p].key] = upd[p].val /\ Return(p, "OK")
  \/ /\ c[upd[p].key] # upd[p].val
     /\ ~Fits(c, p)
     /\ Return(p, "FAIL")
  \/ /\ c[upd[p].key] # upd[p].val
     /\ Fits(c, p)
     /\ cfg' = [cfg EXCEPT ![p] = Set(c, p)]
     /\ exact' = [exact EXCEPT ![p] = whole]
     /\ Goto(p, "create")
     /\ UNCHANGED <<lock, upd, ret>>

Read(p) ==
  /\ pc[p] = "read"
  /\ \E c \in Readings(file.cfg) : Decide(p, c, c = file.cfg)
  /\ UNCHANGED <<file, images, tmp, budget>>

\* open, flock or fdopen fails and the configuration is empty, or a read fails
\* and it ends there.  The result of config_read is not looked at.
Misread(p) ==
  /\ Spend("fault")
  /\ pc[p] = "read"
  /\ \E part \in Parts(file.cfg) : \E c \in Readings(part) : Decide(p, c, FALSE)
  /\ UNCHANGED <<file, images, tmp>>

\* config_write_atomic, one system call after the other.
Create(p) ==
  /\ pc[p] = "create"
  /\ tmp' = [tmp EXCEPT ![p] = [cfg |-> Empty, synced |-> FALSE]]
  /\ Goto(p, "fill")
  /\ UNCHANGED <<file, images, lock, upd, cfg, ret, exact, budget>>

Fill(p) ==
  /\ pc[p] = "fill"
  /\ tmp' = [tmp EXCEPT ![p].cfg = cfg[p]]
  /\ Goto(p, "fsync")
  /\ UNCHANGED <<file, images, lock, upd, cfg, ret, exact, budget>>

\* The result of fprintf is not looked at: when stdio could not write its buffer,
\* or wrote a part of it, the rest is gone, from the middle of a line to the
\* middle of another, and the last fflush may yet succeed.
ShortFill(p) ==
  /\ Spend("fault")
  /\ pc[p] = "fill"
  /\ \E c \in Spliced(cfg[p]) : tmp' = [tmp EXCEPT ![p].cfg = c]
  /\ exact' = [exact EXCEPT ![p] = FALSE]
  /\ Goto(p, "fsync")
  /\ UNCHANGED <<file, images, lock, upd, cfg, ret>>

NoFsync(p) ==                     \* mutant: fflush is taken for fsync
  /\ pc[p] = "fsync"
  /\ Goto(p, "rename")
  /\ UNCHANGED <<file, images, lock, upd, cfg, tmp, ret, exact, budget>>

Fsync(p) ==
  /\ pc[p] = "fsync"
  /\ tmp' = [tmp EXCEPT ![p].synced = TRUE]
  /\ Goto(p, "rename")
  /\ UNCHANGED <<file, images, lock, upd, cfg, ret, exact, budget>>

Rename(p) ==
  /\ pc[p] = "rename"
  /\ file' = tmp[p]
  /\ images' = images \cup {tmp[p]}
  /\ tmp' = [tmp EXCEPT ![p] = NoInode]
  /\ Goto(p, "dirsync")
  /\ UNCHANGED <<lock, upd, cfg, ret, exact, budget>>

NoDirSync(p) ==                   \* mutant: the directory is not synced
  /\ pc[p] = "dirsync"
  /\ Return(p, "OK")
  /\ UNCHANGED <<file, images, tmp, budget>>

DirSync(p) ==
  /\ pc[p] = "dirsync"
  /\ images' = {file}
  /\ Return(p, "OK")
  /\ UNCHANGED <<file, tmp, budget>>

-----------------------------------------------------------------------------
(***************************************************************************)
(* Failures that are looked at: before the lock and before the temporary   *)
(* file nothing has changed; after it the file is unlinked; a directory    *)
(* that cannot be synced is not fatal.                                     *)
(***************************************************************************)
FailBefore(p) ==
  /\ Spend("fault")
  /\ pc[p] \in {"lock", "create"}
  /\ Return(p, "FAIL")
  /\ UNCHANGED <<file, images, tmp>>

FailFsyncIgnored(p) ==            \* mutant: what fsync returns is not looked at
  /\ Spend("fault")
  /\ pc[p] = "fsync"
  /\ Goto(p, "rename")
  /\ UNCHANGED <<file, images, lock, upd, cfg, tmp, ret, exact>>

FailWrite(p) ==
  /\ Spend("fault")
  /\ pc[p] \in {"fill", "fsync", "rename"}
  /\ tmp' = [tmp EXCEPT ![p] = NoInode]
  /\ Return(p, "FAIL")
  /\ UNCHANGED <<file, images>>

FailDirSync(p) ==
  /\ Spend("fault")
  /\ pc[p] = "dirsync"
  /\ Return(p, "OK")
  /\ UNCHANGED <<file, images, tmp>>

\* SIGKILL: the kernel closes the lock file.  The temporary file stays behind,
\* under a name with the pid: a later process of that pid truncates it first.
Kill(p) ==
  /\ Spend("crash")
  /\ pc[p] # "idle"
  /\ Return(p, "none")
  /\ tmp' = [tmp EXCEPT ![p] = NoInode]
  /\ UNCHANGED <<file, images>>

\* Of data that was never synced any bytes may be there.
Remains(i) == IF i.synced THEN {i.cfg} ELSE Spliced(i.cfg)
PowerCut ==
  /\ Spend("crash")
  /\ \E i \in images : \E c \in Remains(i) :
       /\ file' = [cfg |-> c, synced |-> TRUE]
       /\ images' = {file'}
  /\ lock' = NoOne
  /\ pc'  = [p \in Writers |-> "idle"]
  /\ cfg' = [p \in Writers |-> Empty]
  /\ tmp' = [p \in Writers |-> NoInode]
  /\ ret' = [p \in Writers |-> "none"]
  /\ upd' = [p \in Writers |-> NoUpd]
  /\ exact' = [p \in Writers |-> TRUE]

-----------------------------------------------------------------------------
\* A file someone wrote by hand, or none, on the media.
Init ==
  /\ file \in [cfg : {c \in Configs : Cardinality(Present(c)) <= InitPairs}, synced : {TRUE}]
  /\ images = {file}
  /\ lock = NoOne
  /\ pc  = [p \in Writers |-> "idle"]
  /\ upd = [p \in Writers |-> NoUpd]
  /\ cfg = [p \in Writers |-> Empty]
  /\ tmp = [p \in Writers |-> NoInode]
  /\ ret = [p \in Writers |-> "none"]
  /\ exact = [p \in Writers |-> TRUE]
  /\ budget = Budget

Run(p) == \/ Lock(p) \/ Read(p) \/ Create(p) \/ Fill(p)
          \/ Fsync(p) \/ Rename(p) \/ DirSync(p)
Fail(p) == Misread(p) \/ ShortFill(p) \/ FailBefore(p) \/ FailWrite(p) \/ FailDirSync(p)

Next ==
  \/ \E p \in Writers : Run(p) \/ Fail(p) \/ Kill(p)
  \/ \E p \in Writers, k \in Keys, v \in Vals : Update(p, k, v)
  \/ PowerCut

Spec == Init /\ [][Next]_vars

\* A writer that runs is scheduled, and flock wakes one of those that wait.
FairSpec == Spec /\ \A p \in Writers : WF_vars(Run(p))

-----------------------------------------------------------------------------
Locations == {"idle", "lock", "read", "create", "fill", "fsync", "rename", "dirsync"}
Locked == Locations \ {"idle", "lock"}

\* Every variable has its type; a writer's config_t holds at most MaxPairs pairs.
TypeOK ==
  /\ file \in Inode
  /\ images \in SUBSET Inode
  /\ lock \in Writers \cup {NoOne}
  /\ pc  \in [Writers -> Locations]
  /\ upd \in [Writers -> [key : Keys, val : Vals] \cup {NoUpd}]
  /\ cfg \in [Writers -> {c \in Configs : Cardinality(Present(c)) <= MaxPairs}]
  /\ tmp \in [Writers -> Inode]
  /\ ret \in [Writers -> Codes]
  /\ exact \in [Writers -> BOOLEAN]
  /\ budget \in [Resources -> Nat]

Unspent(r) == budget[r] = Budget[r]
\* From its read to its rename, the configuration a writer is going to install
\* is what the path names with the writer's own pair changed: no concurrent
\* update is overwritten (config_io.c:170), unless the writer's own read failed.
NoStaleCopy ==
  \A p \in Writers : exact[p] /\ pc[p] \in {"create", "fill", "fsync", "rename"} =>
    cfg[p] = Set(file.cfg, p)

\* The inductive form of it: the lock is held, the temporary file is what the
\* path names with the writer's pair, unless a call of its own failed unnoticed,
\* and what is renamed is synced.
Busy     == \A p \in Writers : pc[p] # "idle" => upd[p] \in [key : Keys, val : Vals]
LockHeld == \A p \in Writers : pc[p] \in Locked => lock = p
CopyOK   == \A p \in Writers :
              exact[p] /\ pc[p] \in {"create", "fill", "fsync", "rename"} => cfg[p] = Set(file.cfg, p)
TmpOK    == \A p \in Writers :
              /\ exact[p] /\ pc[p] \in {"fsync", "rename"} => tmp[p].cfg = cfg[p]
              /\ pc[p] = "rename" => tmp[p].synced
ImagesOK == file \in images /\ \A i \in images : i.synced

\* Whatever a power cut leaves the path with was on the media as a whole: the
\* rename never reaches the disk before the data (config_io.c:287).
WholeAfterCut == \A i \in images : i.synced

\* With nobody killed and no failure, what readers see when nobody is writing
\* is what a power cut leaves.
DurableWhenIdle ==
  Unspent("crash") /\ Unspent("fault") /\ (\A p \in Writers : pc[p] = "idle") => images = {file}

\* An update changes its own pair and no other, or the power was cut.
OneKeyAtATime ==
  [][ \/ \E p \in Writers : pc[p] = "rename" /\ file'.cfg = Set(file.cfg, p)
      \/ images' = {file'} ]_file

\* An update that returned success survives a power cut.
OnMedia == \A p \in Writers :
  pc[p] # "idle" /\ pc'[p] = "idle" /\ ret'[p] = "OK" =>
    \A i \in images' : i.cfg[upd[p].key] = upd[p].val
AckedDurable == [][OnMedia]_vars

\* With nobody killed and no failure it does, also when it found its value in the
\* file and wrote nothing (config_io.c:213).
AckedWhileCalm == [][Unspent("crash")' /\ Unspent("fault")' => OnMedia]_vars

\* config_update_key returns: a writer that waits for the lock gets it.
UpdateReturns == \A p \in Writers : pc[p] # "idle" ~> pc[p] = "idle"

(***************************************************************************)
(* The file implements ConfigMap: an update takes effect with its rename.  *)
(***************************************************************************)
Pending(l, u, e) ==
  CASE l = "idle"    -> [st |-> "none"]
    [] l = "dirsync" -> [st |-> "applied", key |-> u.key, val |-> u.val, exact |-> e]
    [] OTHER         -> [st |-> "asked", key |-> u.key, val |-> u.val, exact |-> e]
PendNow == [p \in Writers |-> Pending(pc[p], upd[p], exact[p])]

Map == INSTANCE ConfigMap
         WITH map <- file.cfg, safe <- {i.cfg : i \in images}, pend <- PendNow
ImplementsConfigMap == Map!Spec
=============================================================================
