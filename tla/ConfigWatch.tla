------------------------------ MODULE ConfigWatch ------------------------------
(***************************************************************************)
(* `robust_config watch` and `robust_config dashboard`                     *)
(* (edgeconf/patterns): the watcher waits for inotify events of the        *)
(* directory, reads the file when a name with the file's prefix comes up,  *)
(* compares it with its last snapshot and publishes one signal for each    *)
(* key that changed or disappeared.  The dashboard shows what it receives. *)
(* The file changes under the watcher's feet: an update of ConfigFile      *)
(* installs a whole file in one step, an editor truncates it and writes it *)
(* again, an administrator removes it.                                     *)
(***************************************************************************)
EXTENDS Naturals, Sequences, FiniteSets

CONSTANTS Keys, Vals,
          NoVal,     \* "no such key"
          Unknown,   \* the dashboard has not heard of the key
          Missing,   \* there is no file, or no edit under way
          MaxQueue,  \* fs.inotify.max_queued_events
          Budget     \* how many changes, other events and failures there are

Resources == {"change", "noise", "fault"}

ASSUME ConfigWatchAssumption ==
  /\ NoVal \notin Vals /\ Unknown \notin Vals /\ Unknown # NoVal
  /\ MaxQueue \in Nat \ {0}
  /\ Budget \in [Resources -> Nat]

Configs == [Keys -> Vals \cup {NoVal}]
Empty   == [k \in Keys |-> NoVal]
ASSUME MissingAssumption == Missing \notin Configs

VARIABLES
  file,    \* what the path holds, or Missing
  edit,    \* what an editor that has truncated the file is about to write, or Missing
  queue,   \* inotify events not yet read: about a name with the file's prefix, or not
  wpc,     \* where the watcher is
  prev,    \* its snapshot
  cur,     \* what it has just read
  todo,    \* the keys it has still to publish
  dpc,     \* is the dashboard subscribed?
  inbox,   \* signals on their way to it
  seen,    \* what it has shown last for each key
  base,    \* history: what the watcher took the file for when the dashboard came
  clean,   \* history: no failed call, no crash, no event dropped
  budget   \* what is left of Budget

dir  == <<file, edit>>
dash == <<dpc, inbox, seen>>
vars == <<dir, queue, wpc, prev, cur, todo, dash, base, clean, budget>>

Spend(r) == /\ budget[r] > 0
            /\ budget' = [budget EXCEPT ![r] = @ - 1]

-----------------------------------------------------------------------------
(***************************************************************************)
(* inotify: events of the directory queue up from inotify_add_watch on.    *)
(* When the queue is full an IN_Q_OVERFLOW event, which has no name, takes *)
(* the place of all that follow.                                           *)
(***************************************************************************)
Armed == wpc # "down"

Enqueue(q, e) == IF Len(q) < MaxQueue THEN Append(q, e)
                 ELSE IF Len(q) = MaxQueue THEN Append(q, "other") ELSE q

Event(e) == /\ queue' = IF Armed THEN Enqueue(queue, e) ELSE queue
            /\ clean' = (clean /\ (Armed => Len(queue) < MaxQueue))

\* An update of ConfigFile renames its temporary file over the path.
Install ==
  /\ Spend("change")
  /\ \E k \in Keys, v \in Vals :
       file' = [(IF file = Missing THEN Empty ELSE file) EXCEPT ![k] = v]
  /\ edit' = Missing
  /\ Event("own")
  /\ UNCHANGED <<wpc, prev, cur, todo, dash, base>>

\* An editor writes the file in place: readers may find it truncated, and only
\* the close is an event.  Or it moves a new file into place.
EditOpen ==
  /\ Spend("change")
  /\ file # Missing /\ edit = Missing
  /\ edit' \in Configs \ {file}
  /\ file' = Empty
  /\ UNCHANGED <<queue, wpc, prev, cur, todo, dash, base, clean>>

EditClose ==
  /\ edit # Missing
  /\ file' = edit
  /\ edit' = Missing
  /\ Event("own")
  /\ UNCHANGED <<wpc, prev, cur, todo, dash, base, budget>>

Replace ==
  /\ Spend("change")
  /\ file' \in Configs \ {file}
  /\ edit' = Missing
  /\ Event("own")
  /\ UNCHANGED <<wpc, prev, cur, todo, dash, base>>

\* IN_DELETE and IN_MOVED_FROM are not asked for.
Remove ==
  /\ Spend("change")
  /\ file # Missing
  /\ file' = Missing
  /\ edit' = Missing
  /\ UNCHANGED <<queue, wpc, prev, cur, todo, dash, base, clean>>

\* The .lock and .tmp files share the file's prefix; other files do not.
Noise ==
  /\ Spend("noise")
  /\ \E e \in {"own", "other"} : Event(e)
  /\ UNCHANGED <<dir, wpc, prev, cur, todo, dash, base>>

-----------------------------------------------------------------------------
(***************************************************************************)
(* The watcher, mode_watch.                                                *)
(***************************************************************************)
AddWatch ==
  /\ wpc = "down"
  /\ wpc' = "snap"
  /\ queue' = <<>>
  /\ UNCHANGED <<dir, prev, cur, todo, dash, base, clean, budget>>

SnapshotRaw ==                              \* mutant: a file that cannot be read is not expected
  /\ wpc = "snap"
  /\ prev' = file
  /\ base' = base
  /\ wpc' = "loop"
  /\ UNCHANGED <<dir, queue, cur, todo, dash, clean, budget>>

\* A file that is not there leaves the snapshot empty.
Snapshot ==
  /\ wpc = "snap"
  /\ prev' = IF file = Missing THEN Empty ELSE file
  /\ base' = prev'
  /\ wpc' = "loop"
  /\ UNCHANGED <<dir, queue, cur, todo, dash, clean, budget>>

TriggeredByFirst(evs) == evs[1] = "own"     \* mutant: only the first event is looked at
Triggered(evs) == \E i \in DOMAIN evs : evs[i] = "own"

\* read() returns as many events as fit into the buffer.
ReadEvents ==
  /\ wpc = "loop"
  /\ \E n \in 1 .. Len(queue) :
       /\ wpc' = IF Triggered(SubSeq(queue, 1, n)) THEN "read" ELSE "loop"
       /\ queue' = SubSeq(queue, n + 1, Len(queue))
  /\ UNCHANGED <<dir, prev, cur, todo, dash, base, clean, budget>>

\* config_diff reports the keys that are new or have another value,
\* config_removed those that are gone.
Changed(old, new) == {k \in Keys : new[k] # NoVal /\ new[k] # old[k]}
NoneRemoved(old, new) == {}                 \* mutant: a key that is gone is no change
Removed(old, new) == {k \in Keys : old[k] # NoVal /\ new[k] = NoVal}

ReadConfig ==
  /\ wpc = "read"
  /\ \/ file = Missing /\ wpc' = "loop" /\ UNCHANGED <<cur, todo>>
     \/ /\ file # Missing
        /\ wpc' = "publish"
        /\ cur' = file
        /\ todo' = Changed(prev, file) \cup Removed(prev, file)
  /\ UNCHANGED <<dir, queue, prev, dash, base, clean, budget>>

\* The removals go out after the changes.
NextOut(k) == k \in todo /\ (cur[k] = NoVal => \A j \in todo : cur[j] = NoVal)

Publish(k) ==
  /\ wpc = "publish"
  /\ NextOut(k)
  /\ todo' = todo \ {k}
  /\ inbox' = IF dpc = "up" THEN Append(inbox, [key |-> k, val |-> cur[k]]) ELSE inbox
  /\ UNCHANGED <<dir, queue, wpc, prev, cur, dpc, seen, base, clean, budget>>

AdvanceDrained ==                           \* mutant: what came in meanwhile is taken for seen
  /\ wpc = "publish"
  /\ todo = {}
  /\ prev' = cur
  /\ wpc' = "loop"
  /\ queue' = <<>>
  /\ UNCHANGED <<dir, cur, todo, dash, base, clean, budget>>

Advance ==
  /\ wpc = "publish"
  /\ todo = {}
  /\ prev' = cur
  /\ wpc' = "loop"
  /\ UNCHANGED <<dir, queue, cur, todo, dash, base, clean, budget>>

-----------------------------------------------------------------------------
(***************************************************************************)
(* Failures and crashes.                                                   *)
(***************************************************************************)
\* The bus name is taken, or the message cannot be encoded or sent: logged.
PublishFails(k) ==
  /\ Spend("fault")
  /\ wpc = "publish"
  /\ NextOut(k)
  /\ todo' = todo \ {k}
  /\ clean' = FALSE
  /\ UNCHANGED <<dir, queue, wpc, prev, cur, dash, base>>

\* What config_read has before a read fails; it returns success with that.
Parts(c) == {d \in Configs : \A k \in Keys : d[k] \in {c[k], NoVal}}

\* At the start config_read cannot open or lock the file, or read all of it.
SnapshotFails ==
  /\ Spend("fault")
  /\ wpc = "snap" /\ file # Missing
  /\ prev' \in Parts(file)
  /\ base' = prev'
  /\ wpc' = "loop"
  /\ clean' = FALSE
  /\ UNCHANGED <<dir, queue, cur, todo, dash>>

\* Later an event whose file cannot be opened or locked is skipped, and what was
\* read of a file that cannot be read to its end is taken for all of it.
ReadFails ==
  /\ Spend("fault")
  /\ wpc = "read" /\ file # Missing
  /\ \/ wpc' = "loop" /\ UNCHANGED <<cur, todo>>
     \/ /\ wpc' = "publish"
        /\ cur' \in Parts(file)
        /\ todo' = Changed(prev, cur') \cup Removed(prev, cur')
  /\ clean' = FALSE
  /\ UNCHANGED <<dir, queue, prev, dash, base>>

\* The watcher dies and systemd starts it again.
Crash ==
  /\ Spend("fault")
  /\ wpc # "down"
  /\ wpc' = "down"
  /\ queue' = <<>>
  /\ prev' = Empty /\ cur' = Empty /\ todo' = {}
  /\ clean' = FALSE
  /\ UNCHANGED <<dir, dash, base>>

-----------------------------------------------------------------------------
(***************************************************************************)
(* The dashboard.  There is no initial snapshot: it hears of changes only. *)
(***************************************************************************)
\* The values a client of the bus has been told, or could have been.
Announced == [k \in Keys |-> IF wpc = "publish" /\ k \notin todo THEN cur[k] ELSE prev[k]]

Subscribe ==
  /\ dpc = "down"
  /\ dpc' = "up"
  /\ base' = Announced
  /\ UNCHANGED <<dir, queue, wpc, prev, cur, todo, inbox, seen, clean, budget>>

Show ==
  /\ dpc = "up"
  /\ inbox # <<>>
  /\ seen' = [seen EXCEPT ![Head(inbox).key] = Head(inbox).val]
  /\ inbox' = Tail(inbox)
  /\ UNCHANGED <<dir, queue, wpc, prev, cur, todo, dpc, base, clean, budget>>

Init ==
  /\ file \in Configs \cup {Missing}
  /\ edit = Missing
  /\ queue = <<>>
  /\ wpc = "down"
  /\ prev = Empty /\ cur = Empty /\ todo = {}
  /\ dpc = "down" /\ inbox = <<>> /\ seen = [k \in Keys |-> Unknown]
  /\ base = Empty
  /\ clean = TRUE
  /\ budget = Budget

Environment == Install \/ EditOpen \/ EditClose \/ Replace \/ Remove \/ Noise
Watcher == AddWatch \/ Snapshot \/ ReadEvents \/ ReadConfig \/ (\E k \in Keys : Publish(k)) \/ Advance
Failure == SnapshotFails \/ ReadFails \/ Crash \/ (\E k \in Keys : PublishFails(k))
Dashboard == Subscribe \/ Show

Next == Environment \/ Watcher \/ Failure \/ Dashboard

Spec == Init /\ [][Next]_vars

\* poll wakes the watcher, the bus delivers, an editor closes its file.
FairSpec == Spec /\ WF_vars(Watcher) /\ WF_vars(Show) /\ WF_vars(EditClose)

-----------------------------------------------------------------------------
\* Every variable has its type, and the queue stays within its bound.
TypeOK ==
  /\ file \in Configs \cup {Missing} /\ edit \in Configs \cup {Missing}
  /\ queue \in Seq({"own", "other"}) /\ Len(queue) <= MaxQueue + 1
  /\ wpc \in {"down", "snap", "loop", "read", "publish"}
  /\ prev \in Configs /\ cur \in Configs /\ todo \in SUBSET Keys
  /\ dpc \in {"down", "up"}
  /\ inbox \in Seq([key : Keys, val : Vals \cup {NoVal}])
  /\ seen \in [Keys -> Vals \cup {NoVal, Unknown}]
  /\ base \in Configs
  /\ clean \in BOOLEAN
  /\ budget \in [Resources -> Nat]

\* A change the watcher has not seen has an event in the queue that will make it
\* look: with nothing failed it never waits for ever on an old snapshot.
Pending == \E i \in DOMAIN queue : queue[i] = "own"
NothingMissed ==
  clean /\ wpc = "loop" /\ edit = Missing /\ file \notin {Missing, prev} => Pending

\* What a dashboard takes the configuration for: the value it was shown last, or
\* what held when it came.
Belief == [k \in Keys |-> IF seen[k] = Unknown THEN base[k] ELSE seen[k]]
Quiet == wpc = "loop" /\ queue = <<>> /\ edit = Missing /\ dpc = "up" /\ inbox = <<>>

\* Once events and signals have drained, dashboard and file agree, removed keys
\* included (robust_config.c:338), whatever happened to be merged on the way.
Agreement == Quiet /\ file # Missing => Belief = file
Converged == clean => Agreement

\* What the watcher knows the subscribers know: its snapshot is what they have been
\* told, so that comparing with it finds all that they have not.
SnapshotAnnounced == Quiet => Belief = prev

\* And the system does drain: from some time on dashboard and file agree.
EventuallyAgrees ==
  <>[](clean /\ dpc = "up" /\ file # Missing => Quiet /\ Belief = file)
=============================================================================
