--------------------------- MODULE ConfigWatch_proofs ---------------------------
(***************************************************************************)
(* Theorems about the watcher and the dashboard, for every set of keys and *)
(* values, every MaxQueue and every Budget.                                *)
(***************************************************************************)
EXTENDS ConfigWatch, TLAPS

Signal == [key : Keys, val : Vals \cup {NoVal}]
Events == {"own", "other"}

-----------------------------------------------------------------------------
(* Sequences: the inotify queue and the signals under way. *)

LEMMA TailIndices ==
  ASSUME NEW S, NEW s \in Seq(S), s # <<>>
  PROVE  /\ Tail(s) \in Seq(S)
         /\ Head(s) = s[1] /\ Head(s) \in S
         /\ Len(s) \in Nat /\ Len(s) > 0
         /\ Len(Tail(s)) = Len(s) - 1
         /\ \A i \in 1 .. Len(s) - 1 : Tail(s)[i] = s[i + 1]
OBVIOUS

LEMMA AppendIndices ==
  ASSUME NEW S, NEW s \in Seq(S), NEW e \in S
  PROVE  /\ Append(s, e) \in Seq(S)
         /\ Len(s) \in Nat
         /\ Len(Append(s, e)) = Len(s) + 1
         /\ Append(s, e)[Len(s) + 1] = e
         /\ \A i \in 1 .. Len(s) : Append(s, e)[i] = s[i]
OBVIOUS

\* What is left of the queue when its first n events have been read.
LEMMA RestIndices ==
  ASSUME NEW s \in Seq(Events), NEW n \in 1 .. Len(s)
  PROVE  /\ SubSeq(s, n + 1, Len(s)) \in Seq(Events)
         /\ Len(SubSeq(s, n + 1, Len(s))) = Len(s) - n
         /\ \A i \in 1 .. Len(s) - n : SubSeq(s, n + 1, Len(s))[i] = s[n + i]
         /\ SubSeq(s, 1, n) \in Seq(Events)
         /\ Len(SubSeq(s, 1, n)) = n
         /\ \A i \in 1 .. n : SubSeq(s, 1, n)[i] = s[i]
OBVIOUS

LEMMA EnqueueType ==
  ASSUME NEW q \in Seq(Events), Len(q) <= MaxQueue + 1, NEW e \in Events
  PROVE  /\ Enqueue(q, e) \in Seq(Events)
         /\ Len(Enqueue(q, e)) <= MaxQueue + 1
BY ConfigWatchAssumption, AppendIndices DEF Enqueue, Events

LEMMA SpendType ==
  ASSUME NEW r \in Resources, Spend(r), budget \in [Resources -> Nat]
  PROVE  budget' \in [Resources -> Nat]
<1>1. budget[r] - 1 \in Nat
  BY DEF Spend
<1>. QED  BY <1>1 DEF Spend

-----------------------------------------------------------------------------
(* Type correctness. *)

DirOK  == /\ file \in Configs \cup {Missing} /\ edit \in Configs \cup {Missing}
          /\ queue \in Seq(Events) /\ Len(queue) <= MaxQueue + 1
WatchOK == /\ wpc \in {"down", "snap", "loop", "read", "publish"}
           /\ prev \in Configs /\ cur \in Configs /\ todo \in SUBSET Keys
DashOK == /\ dpc \in {"down", "up"}
          /\ inbox \in Seq(Signal)
          /\ seen \in [Keys -> Vals \cup {NoVal, Unknown}]
          /\ base \in Configs
HistOK == clean \in BOOLEAN /\ budget \in [Resources -> Nat]
TypeInv == DirOK /\ WatchOK /\ DashOK /\ HistOK

LEMMA EmptyType == Empty \in Configs
BY DEF Empty, Configs

LEMMA InitType == Init => TypeInv
BY EmptyType, ConfigWatchAssumption
   DEF Init, TypeInv, DirOK, WatchOK, DashOK, HistOK

LEMMA AnnouncedType ==
  ASSUME TypeInv PROVE Announced \in Configs
BY DEF TypeInv, WatchOK, Announced, Configs

LEMMA EventType ==
  ASSUME TypeInv, NEW e \in Events, Event(e)
  PROVE  /\ queue' \in Seq(Events) /\ Len(queue') <= MaxQueue + 1
         /\ clean' \in BOOLEAN
<1>1. queue \in Seq(Events) /\ Len(queue) <= MaxQueue + 1
  BY DEF TypeInv, DirOK
<1>2. queue' \in Seq(Events) /\ Len(queue') <= MaxQueue + 1
  BY <1>1, EnqueueType DEF Event
<1>3. clean' \in BOOLEAN
  BY DEF Event
<1>. QED  BY <1>2, <1>3

LEMMA EnvironmentType == ASSUME TypeInv, Environment PROVE TypeInv'
<1>. USE DEF TypeInv
<1>1. UNCHANGED <<wpc, prev, cur, todo, dash, base>>
  BY DEF Environment, Install, EditOpen, EditClose, Replace, Remove, Noise
<1>2. WatchOK' /\ DashOK'
  BY <1>1 DEF WatchOK, DashOK, dash
<1>3. budget' \in [Resources -> Nat]
  BY SpendType DEF Environment, Install, EditOpen, EditClose, Replace, Remove, Noise,
                   HistOK, Resources
<1>4. file' \in Configs \cup {Missing} /\ edit' \in Configs \cup {Missing}
  <2>1. CASE Install
    BY <2>1, EmptyType DEF Install, DirOK, Configs
  <2>2. CASE EditOpen \/ EditClose \/ Replace \/ Remove \/ Noise
    BY <2>2, EmptyType DEF EditOpen, EditClose, Replace, Remove, Noise, DirOK, dir
  <2>. QED  BY <2>1, <2>2 DEF Environment
<1>5. /\ queue' \in Seq(Events) /\ Len(queue') <= MaxQueue + 1
      /\ clean' \in BOOLEAN
  <2>1. CASE Install \/ EditClose \/ Replace \/ Noise
    BY <2>1, EventType DEF Install, EditClose, Replace, Noise, Events
  <2>2. CASE EditOpen \/ Remove
    BY <2>2 DEF EditOpen, Remove, DirOK, HistOK
  <2>. QED  BY <2>1, <2>2 DEF Environment
<1>. QED  BY <1>2, <1>3, <1>4, <1>5 DEF DirOK, HistOK

LEMMA WatcherType == ASSUME TypeInv, Watcher PROVE TypeInv'
<1>. USE DEF TypeInv
<1>1. UNCHANGED <<dir, dpc, seen, clean, budget>>
  BY DEF Watcher, AddWatch, Snapshot, ReadEvents, ReadConfig, Publish, Advance, dash
<1>2. queue' \in Seq(Events) /\ Len(queue') <= MaxQueue + 1
  <2>1. CASE ReadEvents
    <3>1. PICK n \in 1 .. Len(queue) : queue' = SubSeq(queue, n + 1, Len(queue))
      BY <2>1 DEF ReadEvents
    <3>. QED  BY <3>1, RestIndices, ConfigWatchAssumption DEF DirOK
  <2>2. CASE AddWatch
    BY <2>2, ConfigWatchAssumption DEF AddWatch
  <2>3. CASE Snapshot \/ ReadConfig \/ (\E k \in Keys : Publish(k)) \/ Advance
    BY <2>3 DEF Snapshot, ReadConfig, Publish, Advance, DirOK
  <2>. QED  BY <2>1, <2>2, <2>3 DEF Watcher
<1>3. DirOK'
  BY <1>1, <1>2 DEF DirOK, dir
<1>4. WatchOK'
  <2>1. CASE ReadConfig
    BY <2>1 DEF ReadConfig, WatchOK, DirOK, Changed, Removed
  <2>2. CASE Snapshot
    BY <2>2, EmptyType DEF Snapshot, WatchOK, DirOK
  <2>3. CASE AddWatch \/ ReadEvents \/ (\E k \in Keys : Publish(k)) \/ Advance
    BY <2>3 DEF AddWatch, ReadEvents, Publish, Advance, WatchOK
  <2>. QED  BY <2>1, <2>2, <2>3 DEF Watcher
<1>5. inbox' \in Seq(Signal)
  <2>1. ASSUME NEW k \in Keys, Publish(k) PROVE inbox' \in Seq(Signal)
    <3>1. [key |-> k, val |-> cur[k]] \in Signal
      BY DEF WatchOK, Configs, Signal
    <3>. QED  BY <2>1, <3>1, AppendIndices DEF Publish, DashOK
  <2>2. CASE AddWatch \/ Snapshot \/ ReadEvents \/ ReadConfig \/ Advance
    BY <2>2 DEF AddWatch, Snapshot, ReadEvents, ReadConfig, Advance, DashOK, dash
  <2>. QED  BY <2>1, <2>2 DEF Watcher
<1>6. base' \in Configs
  BY EmptyType DEF Watcher, AddWatch, Snapshot, ReadEvents, ReadConfig, Publish, Advance,
                   DashOK, DirOK
<1>. QED  BY <1>1, <1>3, <1>4, <1>5, <1>6 DEF DashOK, HistOK

LEMMA OthersType == ASSUME TypeInv, Failure \/ Dashboard PROVE TypeInv'
<1>. USE DEF TypeInv
<1>1. CASE Failure
  <2>1. budget' \in [Resources -> Nat] /\ clean' = FALSE
    BY <1>1, SpendType DEF Failure, SnapshotFails, ReadFails, Crash, PublishFails, HistOK, Resources
  <2>2. DirOK' /\ WatchOK' /\ DashOK'
    <3>1. ASSUME NEW k \in Keys, PublishFails(k) PROVE DirOK' /\ WatchOK' /\ DashOK'
      BY <3>1 DEF PublishFails, DirOK, WatchOK, DashOK, dir, dash
    <3>2. CASE ReadFails
      <4>1. todo' \in SUBSET Keys /\ cur' \in Configs
        BY <3>2 DEF ReadFails, WatchOK, Parts, Changed, Removed
      <4>. QED  BY <3>2, <4>1 DEF ReadFails, DirOK, WatchOK, DashOK, dir, dash
    <3>3. CASE Crash
      BY <3>3, EmptyType, ConfigWatchAssumption DEF Crash, DirOK, WatchOK, DashOK, dir, dash
    <3>4. CASE SnapshotFails
      <4>1. prev' \in Configs /\ base' \in Configs
        BY <3>4 DEF SnapshotFails, Parts
      <4>. QED  BY <3>4, <4>1 DEF SnapshotFails, DirOK, WatchOK, DashOK, dir, dash
    <3>. QED  BY <1>1, <3>1, <3>2, <3>3, <3>4 DEF Failure
  <2>. QED  BY <2>1, <2>2 DEF HistOK
<1>2. CASE Subscribe
  BY <1>2, AnnouncedType DEF Subscribe, DirOK, WatchOK, DashOK, HistOK, dir
<1>3. CASE Show
  <2>1. inbox \in Seq(Signal) /\ inbox # <<>>
    BY <1>3 DEF Show, DashOK
  <2>2. Head(inbox) \in Signal /\ Tail(inbox) \in Seq(Signal)
    BY <2>1, TailIndices
  <2>3. DashOK'
    BY <1>3, <2>2 DEF Show, DashOK, Signal
  <2>. QED  BY <1>3, <2>3 DEF Show, DirOK, WatchOK, HistOK, dir
<1>. QED  BY <1>1, <1>2, <1>3 DEF Dashboard

LEMMA NextType == TypeInv /\ [Next]_vars => TypeInv'
<1>1. TypeInv /\ UNCHANGED vars => TypeInv'
  BY DEF vars, dir, dash, TypeInv, DirOK, WatchOK, DashOK, HistOK
<1>. QED  BY <1>1, EnvironmentType, WatcherType, OthersType DEF Next

LEMMA AlwaysTyped == Spec => []TypeInv
BY InitType, NextType, PTL DEF Spec

\* Every variable keeps its type: the queue stays within its bound, and the
\* snapshot the watcher compares with is always a configuration, also when the
\* file was not there when it started (robust_config.c:251).
THEOREM WatchTypeCorrect == Spec => []TypeOK
<1>1. TypeInv => TypeOK
  BY DEF TypeInv, DirOK, WatchOK, DashOK, HistOK, TypeOK, Events, Signal
<1>. QED  BY <1>1, AlwaysTyped, PTL

-----------------------------------------------------------------------------
(***************************************************************************)
(* No change is missed.  A watcher that sleeps compares with prev, one     *)
(* that publishes will compare with cur: whenever the file differs from    *)
(* what it will compare with, an event is waiting.                         *)
(***************************************************************************)
Compared == IF wpc = "publish" THEN cur ELSE prev
Awake == clean /\ wpc \in {"loop", "publish"} /\ edit = Missing /\ file \notin {Missing, Compared}
           => Pending

\* An event that does not overflow the queue is added to it, and what was in it stays.
LEMMA EventPending ==
  ASSUME TypeInv, NEW e \in Events, Event(e), Armed, clean'
  PROVE  clean /\ (e = "own" \/ Pending => Pending')
<1>1. queue \in Seq(Events)
  BY DEF TypeInv, DirOK
<1>2. clean /\ Len(queue) < MaxQueue
  BY Zenon DEF Event
<1>3. queue' = Append(queue, e)
  BY <1>2 DEF Event, Enqueue
<1>4. DOMAIN queue = 1 .. Len(queue) /\ DOMAIN queue' = 1 .. Len(queue) + 1 /\ Len(queue) \in Nat
  BY <1>1, <1>3
<1>5. queue'[Len(queue) + 1] = e /\ \A i \in 1 .. Len(queue) : queue'[i] = queue[i]
  BY <1>1, <1>3, AppendIndices
<1>6. e = "own" => Pending'
  BY <1>4, <1>5 DEF Pending
<1>7. Pending => Pending'
  BY <1>4, <1>5 DEF Pending
<1>. QED  BY <1>2, <1>6, <1>7

LEMMA EnvironmentAwake == ASSUME TypeInv, Awake, Environment PROVE Awake'
<1>. SUFFICES ASSUME (clean /\ wpc \in {"loop", "publish"} /\ edit = Missing
                      /\ file \notin {Missing, Compared})'
              PROVE  Pending'
  BY DEF Awake
<1>1. UNCHANGED <<wpc, prev, cur>>
  BY DEF Environment, Install, EditOpen, EditClose, Replace, Remove, Noise
<1>2. Armed /\ Compared' = Compared
  BY <1>1 DEF Armed, Compared
<1>3. CASE Install \/ EditClose \/ Replace
  BY <1>2, <1>3, EventPending DEF Install, EditClose, Replace, Events
<1>4. CASE EditOpen
  <2>1. edit' # Missing
    BY <1>4, MissingAssumption DEF EditOpen
  <2>. QED  BY <2>1
<1>5. CASE Remove
  BY <1>5 DEF Remove
<1>6. CASE Noise
  <2>1. PICK e \in Events : Event(e)
    BY <1>6 DEF Noise, Events
  <2>2. clean /\ (Pending => Pending')
    BY <1>2, <2>1, EventPending
  <2>3. Pending
    BY <1>1, <1>2, <1>6, <2>2 DEF Noise, dir, Awake
  <2>. QED  BY <2>2, <2>3
<1>. QED  BY <1>3, <1>4, <1>5, <1>6 DEF Environment

LEMMA WatcherAwake == ASSUME TypeInv, Awake, Watcher PROVE Awake'
<1>. SUFFICES ASSUME (clean /\ wpc \in {"loop", "publish"} /\ edit = Missing
                      /\ file \notin {Missing, Compared})'
              PROVE  Pending'
  BY DEF Awake
<1>1. clean /\ edit = Missing /\ file' = file /\ file # Missing
  BY DEF Watcher, AddWatch, Snapshot, ReadEvents, ReadConfig, Publish, Advance, dir
<1>2. CASE AddWatch
  BY <1>2 DEF AddWatch
<1>3. CASE Snapshot
  BY <1>1, <1>3 DEF Snapshot, Compared
<1>4. CASE ReadEvents
  <2>1. PICK n \in 1 .. Len(queue) :
          /\ wpc' = IF Triggered(SubSeq(queue, 1, n)) THEN "read" ELSE "loop"
          /\ queue' = SubSeq(queue, n + 1, Len(queue))
    BY <1>4 DEF ReadEvents
  <2>2. queue \in Seq(Events) /\ wpc = "loop" /\ prev' = prev
    BY <1>4 DEF ReadEvents, TypeInv, DirOK
  <2>3. ~Triggered(SubSeq(queue, 1, n))
    BY <2>1
  <2>4. \A i \in 1 .. n : queue[i] # "own"
    <3>1. PICK evs \in Seq(Events) : evs = SubSeq(queue, 1, n)
      BY <2>2, RestIndices
    <3>2. DOMAIN evs = 1 .. n /\ \A i \in 1 .. n : evs[i] = queue[i]
      BY <2>2, <3>1, RestIndices
    <3>. QED  BY <2>3, <3>1, <3>2 DEF Triggered
  <2>5. Pending
    BY <1>1, <2>1, <2>2, <2>3 DEF Awake, Compared
  <2>6. PICK i \in 1 .. Len(queue) : queue[i] = "own"
    BY <2>2, <2>5 DEF Pending
  <2>7. i - n \in 1 .. Len(queue) - n
    BY <2>2, <2>4, <2>6
  <2>8. queue'[i - n] = "own"
    BY <2>1, <2>2, <2>6, <2>7, RestIndices
  <2>9. queue' \in Seq(Events) /\ Len(queue') = Len(queue) - n
    BY <2>1, <2>2, RestIndices
  <2>. QED  BY <2>7, <2>8, <2>9 DEF Pending
<1>5. CASE ReadConfig
  BY <1>1, <1>5 DEF ReadConfig, Compared
<1>6. ASSUME NEW k \in Keys, Publish(k) PROVE Pending'
  BY <1>1, <1>6 DEF Publish, Compared, Awake, Pending
<1>7. CASE Advance
  BY <1>1, <1>7 DEF Advance, Compared, Awake, Pending
<1>. QED  BY <1>2, <1>3, <1>4, <1>5, <1>6, <1>7 DEF Watcher

LEMMA NextAwake == TypeInv /\ Awake /\ [Next]_vars => Awake'
<1>1. ASSUME TypeInv, Awake, UNCHANGED vars \/ Dashboard PROVE Awake'
  BY <1>1 DEF vars, dir, Dashboard, Subscribe, Show, Awake, Compared, Pending
<1>2. ASSUME Failure PROVE Awake'
  BY <1>2 DEF Failure, SnapshotFails, ReadFails, Crash, PublishFails, Awake
<1>. QED  BY <1>1, <1>2, EnvironmentAwake, WatcherAwake DEF Next

LEMMA AlwaysAwake == Spec => []Awake
<1>1. Init => Awake
  BY DEF Init, Awake
<1>. QED  BY <1>1, NextAwake, AlwaysTyped, PTL DEF Spec

\* The watcher never goes back to sleep on a change it has not seen: the watch
\* is armed before the snapshot is taken, and an event read is followed by a
\* read of the file (robust_config.c:239, 304).
THEOREM ChangesAreNoticed == Spec => []NothingMissed
<1>1. Awake => NothingMissed
  BY DEF Awake, NothingMissed, Compared
<1>. QED  BY <1>1, AlwaysAwake, PTL

-----------------------------------------------------------------------------
(***************************************************************************)
(* The dashboard.  For each key the last signal under way, or what was     *)
(* shown last if there is none, or what held when the dashboard came if    *)
(* nothing was shown, is what the watcher has announced.                   *)
(***************************************************************************)
InTransit(k) == \E i \in DOMAIN inbox : inbox[i].key = k
LastOf(k, i) == inbox[i].key = k /\ \A j \in DOMAIN inbox : inbox[j].key = k => j <= i

Fresh == inbox = <<>> /\ \A k \in Keys : seen[k] = Unknown

Told == /\ dpc = "down" => Fresh
        /\ clean /\ wpc \in {"down", "snap"} => Fresh /\ prev = Empty
        /\ clean /\ dpc = "up" => \A k \in Keys :
             /\ ~InTransit(k) => Belief[k] = Announced[k]
             /\ \A i \in DOMAIN inbox : LastOf(k, i) => inbox[i].val = Announced[k]

\* A step that leaves the dashboard and what is announced alone.
LEMMA ToldKept ==
  ASSUME Told, UNCHANGED <<dash, base>>, Announced' = Announced, clean' => clean,
         wpc' \in {"down", "snap"} => wpc \in {"down", "snap"} /\ prev' = prev
  PROVE  Told'
<1>1. Belief' = Belief
  BY DEF dash, Belief
<1>2. \A k \in Keys : InTransit(k)' = InTransit(k) /\ \A i \in DOMAIN inbox : LastOf(k, i)' = LastOf(k, i)
  BY DEF dash, InTransit, LastOf
<1>. QED  BY <1>1, <1>2 DEF Told, dash, Fresh

LEMMA EnvironmentTold == ASSUME Told, Environment PROVE Told'
<1>1. UNCHANGED <<wpc, prev, cur, todo, dash, base>>
  BY DEF Environment, Install, EditOpen, EditClose, Replace, Remove, Noise
<1>2. Announced' = Announced
  BY <1>1 DEF Announced
<1>3. clean' => clean
  BY Zenon DEF Environment, Install, EditOpen, EditClose, Replace, Remove, Noise, Event
<1>. QED  BY <1>1, <1>2, <1>3, ToldKept

\* A signal for k becomes the last one for k; those for other keys stay as they were.
LEMMA PublishTold == ASSUME TypeInv, Told, NEW k \in Keys, Publish(k) PROVE Told'
<1>. DEFINE s == [key |-> k, val |-> cur[k]]
<1>1. /\ wpc = "publish" /\ wpc' = "publish" /\ todo' = todo \ {k}
      /\ UNCHANGED <<prev, cur, dpc, seen, base, clean>>
  BY DEF Publish
<1>2. Announced'[k] = cur[k] /\ \A j \in Keys \ {k} : Announced'[j] = Announced[j]
  BY <1>1 DEF Announced
<1>3. CASE dpc # "up"
  <2>1. inbox' = inbox /\ dpc' # "up"
    BY <1>1, <1>3 DEF Publish
  <2>. QED  BY <1>1, <2>1 DEF Told, Fresh
<1>4. CASE dpc = "up"
  <2>1. s \in Signal /\ inbox \in Seq(Signal)
    BY DEF Signal, TypeInv, WatchOK, DashOK, Configs
  <2>2. inbox' = Append(inbox, s)
    BY <1>4 DEF Publish
  <2>3. /\ DOMAIN inbox = 1 .. Len(inbox) /\ DOMAIN inbox' = 1 .. Len(inbox) + 1
        /\ Len(inbox) \in Nat
    BY <2>1, <2>2
  <2>4. inbox'[Len(inbox) + 1] = s /\ \A i \in 1 .. Len(inbox) : inbox'[i] = inbox[i]
    BY <2>1, <2>2, AppendIndices
  <2>5. Belief' = Belief
    BY <1>1 DEF Belief
  <2>6. ASSUME NEW j \in Keys, clean', ~InTransit(j)' PROVE Belief'[j] = Announced'[j]
    <3>1. \A i \in DOMAIN inbox' : inbox'[i].key # j
      BY <2>6 DEF InTransit
    <3>2. j # k
      BY <2>3, <2>4, <3>1
    <3>3. ~InTransit(j)
      BY <2>3, <2>4, <3>1 DEF InTransit
    <3>. QED  BY <1>1, <1>2, <1>4, <2>5, <2>6, <3>2, <3>3 DEF Told
  <2>7. ASSUME NEW j \in Keys, clean', NEW i \in DOMAIN inbox', LastOf(j, i)'
        PROVE  inbox'[i].val = Announced'[j]
    <3>1. inbox'[i].key = j /\ \A m \in DOMAIN inbox' : inbox'[m].key = j => m <= i
      BY <2>7 DEF LastOf
    <3>2. CASE j = k
      <4>1. i = Len(inbox) + 1
        BY <2>3, <2>4, <3>1, <3>2
      <4>. QED  BY <1>2, <2>4, <3>2, <4>1
    <3>3. CASE j # k
      <4>1. i \in DOMAIN inbox /\ LastOf(j, i)
        BY <2>3, <2>4, <3>1, <3>3 DEF LastOf
      <4>. QED  BY <1>1, <1>2, <1>4, <2>3, <2>4, <2>7, <3>3, <4>1 DEF Told
    <3>. QED  BY <3>2, <3>3
  <2>. QED  BY <1>1, <1>4, <2>6, <2>7 DEF Told
<1>. QED  BY <1>3, <1>4

\* What the diff does not report has the value it had.
LEMMA DiffComplete ==
  ASSUME NEW old \in Configs, NEW new \in Configs, NEW k \in Keys,
         k \notin Changed(old, new) \cup Removed(old, new)
  PROVE  new[k] = old[k]
BY DEF Changed, Removed, Configs

LEMMA WatcherTold == ASSUME TypeInv, Told, Watcher PROVE Told'
<1>1. CASE AddWatch
  BY <1>1, ToldKept DEF AddWatch, Announced, dash
<1>2. CASE Snapshot
  <2>1. /\ wpc = "snap" /\ wpc' = "loop" /\ prev' = base' /\ prev' \in Configs
        /\ UNCHANGED <<dash, clean>>
    BY <1>2, EmptyType DEF Snapshot, TypeInv, DirOK
  <2>2. ASSUME clean PROVE Fresh /\ Fresh'
    BY <2>1, <2>2 DEF Told, Fresh, dash
  <2>3. \A k \in Keys : Announced'[k] = prev'[k]
    BY <2>1 DEF Announced
  <2>4. ASSUME clean PROVE \A k \in Keys : Belief'[k] = Announced'[k]
    BY <2>1, <2>2, <2>3, <2>4 DEF Fresh, Belief
  <2>5. ASSUME clean PROVE DOMAIN inbox' = {}
    BY <2>2, <2>5 DEF Fresh
  <2>. QED  BY <2>1, <2>2, <2>4, <2>5 DEF Told, dash, Fresh
<1>3. CASE ReadEvents
  BY <1>3, ToldKept DEF ReadEvents, Announced
<1>4. CASE ReadConfig
  <2>1. wpc = "read" /\ wpc' \in {"loop", "publish"} /\ UNCHANGED <<dash, base, clean, prev>>
    BY <1>4 DEF ReadConfig
  <2>2. Announced' = Announced
    <3>1. CASE file = Missing
      BY <1>4, <3>1 DEF ReadConfig, Announced
    <3>2. CASE file # Missing
      <4>1. /\ prev \in Configs /\ file \in Configs /\ cur' = file
            /\ todo' = Changed(prev, file) \cup Removed(prev, file)
        BY <1>4, <3>2 DEF ReadConfig, TypeInv, DirOK, WatchOK
      <4>2. \A k \in Keys : (IF wpc' = "publish" /\ k \notin todo' THEN cur'[k] ELSE prev[k]) = prev[k]
        BY <4>1, DiffComplete
      <4>3. \A k \in Keys : (IF wpc = "publish" /\ k \notin todo THEN cur[k] ELSE prev[k]) = prev[k]
        BY <2>1
      <4>. QED  BY <2>1, <4>2, <4>3 DEF Announced
    <3>. QED  BY <3>1, <3>2
  <2>. QED  BY <2>1, <2>2, ToldKept
<1>5. ASSUME NEW k \in Keys, Publish(k) PROVE Told'
  BY <1>5, PublishTold
<1>6. CASE Advance
  <2>1. Announced' = Announced
    BY <1>6 DEF Advance, Announced
  <2>. QED  BY <1>6, <2>1, ToldKept DEF Advance
<1>. QED  BY <1>1, <1>2, <1>3, <1>4, <1>5, <1>6 DEF Watcher

LEMMA SubscribeTold == ASSUME TypeInv, Told, Subscribe PROVE Told'
<1>1. Fresh /\ Fresh' /\ Announced' = Announced /\ base' = Announced
  BY DEF Subscribe, Told, Fresh, Announced
<1>2. \A k \in Keys : Belief'[k] = Announced'[k]
  BY <1>1 DEF Belief, Fresh
<1>3. DOMAIN inbox' = {}
  BY <1>1 DEF Fresh
<1>4. UNCHANGED <<wpc, prev, clean>> /\ dpc' = "up"
  BY DEF Subscribe
<1>. QED  BY <1>1, <1>2, <1>3, <1>4 DEF Told

LEMMA ShowTold == ASSUME TypeInv, Told, Show PROVE Told'
<1>. DEFINE h == Head(inbox)
<1>1. /\ dpc = "up" /\ dpc' = "up" /\ inbox # <<>> /\ inbox' = Tail(inbox)
      /\ seen' = [seen EXCEPT ![h.key] = h.val]
      /\ UNCHANGED <<wpc, prev, cur, todo, base, clean>>
  BY DEF Show
<1>2. inbox \in Seq(Signal) /\ seen \in [Keys -> Vals \cup {NoVal, Unknown}]
  BY DEF TypeInv, DashOK
<1>3. /\ DOMAIN inbox = 1 .. Len(inbox) /\ DOMAIN inbox' = 1 .. Len(inbox) - 1
      /\ Len(inbox) \in Nat /\ Len(inbox) > 0
      /\ h = inbox[1] /\ h \in Signal
      /\ \A i \in 1 .. Len(inbox) - 1 : inbox'[i] = inbox[i + 1]
  BY <1>1, <1>2, TailIndices
<1>4. Announced' = Announced
  BY <1>1 DEF Announced
<1>5. ~(clean /\ wpc \in {"down", "snap"})
  BY <1>1 DEF Told, Fresh
<1>6. ASSUME NEW k \in Keys, clean, ~InTransit(k)' PROVE Belief'[k] = Announced[k]
  <2>1. \A i \in 1 .. Len(inbox) - 1 : inbox[i + 1].key # k
    BY <1>3, <1>6 DEF InTransit
  <2>2. \A i \in DOMAIN inbox : inbox[i].key = k => i = 1
    <3>1. ASSUME NEW i \in DOMAIN inbox, i # 1 PROVE inbox[i].key # k
      <4>1. i - 1 \in 1 .. Len(inbox) - 1
        BY <1>3, <3>1
      <4>2. inbox[(i - 1) + 1].key # k
        BY <2>1, <4>1
      <4>. QED  BY <1>3, <3>1, <4>2
    <3>. QED  BY <3>1
  <2>3. CASE h.key = k
    <3>1. 1 \in DOMAIN inbox /\ LastOf(k, 1)
      BY <1>3, <2>2, <2>3 DEF LastOf
    <3>2. h.val = Announced[k]
      BY <1>1, <1>3, <1>6, <3>1 DEF Told
    <3>3. h.val # Unknown
      BY <1>3, ConfigWatchAssumption DEF Signal
    <3>4. seen'[k] = h.val
      BY <1>1, <1>2, <2>3
    <3>. QED  BY <3>2, <3>3, <3>4 DEF Belief
  <2>4. CASE h.key # k
    <3>1. ~InTransit(k)
      BY <1>3, <2>2, <2>4 DEF InTransit
    <3>2. seen'[k] = seen[k] /\ base' = base
      BY <1>1, <1>2, <2>4
    <3>3. Belief'[k] = Belief[k]
      BY <3>2 DEF Belief
    <3>. QED  BY <1>1, <1>6, <3>1, <3>3 DEF Told
  <2>. QED  BY <2>3, <2>4
<1>7. ASSUME NEW k \in Keys, clean, NEW i \in DOMAIN inbox', LastOf(k, i)'
      PROVE  inbox'[i].val = Announced[k]
  <2>1. inbox'[i].key = k /\ \A j \in DOMAIN inbox' : inbox'[j].key = k => j <= i
    BY <1>7 DEF LastOf
  <2>2. i + 1 \in DOMAIN inbox /\ inbox[i + 1] = inbox'[i]
    BY <1>3
  <2>3. ASSUME NEW j \in DOMAIN inbox, inbox[j].key = k PROVE j <= i + 1
    <3>1. CASE j = 1
      BY <1>3, <3>1
    <3>2. CASE j # 1
      <4>1. j - 1 \in DOMAIN inbox' /\ inbox'[j - 1] = inbox[(j - 1) + 1]
        BY <1>3, <3>2
      <4>2. j - 1 <= i
        BY <1>3, <2>1, <2>3, <4>1
      <4>. QED  BY <1>3, <4>2
    <3>. QED  BY <3>1, <3>2
  <2>4. LastOf(k, i + 1)
    BY <2>1, <2>2, <2>3 DEF LastOf
  <2>. QED  BY <1>1, <1>7, <2>2, <2>4 DEF Told
<1>. QED  BY <1>1, <1>4, <1>5, <1>6, <1>7 DEF Told

LEMMA FailureTold == ASSUME Told, Failure PROVE Told'
<1>1. clean' = FALSE /\ UNCHANGED dash
  BY DEF Failure, SnapshotFails, ReadFails, Crash, PublishFails
<1>. QED  BY <1>1 DEF Told, dash, Fresh

LEMMA NextTold == TypeInv /\ Told /\ [Next]_vars => Told'
<1>1. ASSUME Told, UNCHANGED vars PROVE Told'
  BY <1>1, ToldKept DEF vars, dash, Announced
<1>. QED  BY <1>1, EnvironmentTold, WatcherTold, FailureTold, SubscribeTold, ShowTold
          DEF Next, Dashboard

LEMMA AlwaysTold == Spec => []Told
<1>1. Init => Told
  BY DEF Init, Told, Fresh
<1>. QED  BY <1>1, NextTold, AlwaysTyped, PTL DEF Spec

\* When the events and the signals have drained and nothing failed, what the
\* dashboard takes the configuration for is what the file holds: merged events,
\* a subscriber that came late and keys that were removed included
\* (robust_config.c:319, 338).
THEOREM DashboardAgrees == Spec => []Converged
<1>1. ASSUME TypeInv, Awake, Told PROVE Converged
  <2>. SUFFICES ASSUME clean, Quiet, file # Missing PROVE Belief = file
    BY DEF Converged, Agreement
  <2>1. wpc = "loop" /\ edit = Missing /\ dpc = "up" /\ queue = <<>> /\ inbox = <<>>
    BY DEF Quiet
  <2>2. ~Pending /\ \A k \in Keys : ~InTransit(k)
    BY <2>1 DEF Pending, InTransit
  <2>3. file = prev
    BY <1>1, <2>1, <2>2 DEF Awake, Compared
  <2>4. \A k \in Keys : Belief[k] = Announced[k] /\ Announced[k] = prev[k]
    BY <1>1, <2>1, <2>2 DEF Told, Announced
  <2>5. prev \in Configs
    BY <1>1 DEF TypeInv, WatchOK
  <2>. QED  BY <2>3, <2>4, <2>5 DEF Belief, Configs
<1>. QED  BY <1>1, AlwaysTyped, AlwaysAwake, AlwaysTold, PTL
=============================================================================
