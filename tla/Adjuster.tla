------------------------------- MODULE Adjuster -------------------------------
(***************************************************************************)
(* autoscale/adjust.py: one thread that wakes up once per interval, reads  *)
(* the machines file again when SIGHUP asked for it, measures the flow of  *)
(* every machine context and starts and stops decoder processes until the  *)
(* ones that run are the ones the flow asks for.  Around it: decoders that *)
(* die, an administrator who edits the file and sends signals, probes that *)
(* cannot be attached, measurements and Popen calls that fail.             *)
(***************************************************************************)
EXTENDS Integers, Sequences, FiniteSets

CONSTANTS Keys,      \* machine contexts: (machine_sn, serial_port)
          Cfgs,      \* settings a context may have
          NoCfg,     \* the file does not list the context
          Bad,       \* a file that load_machine_configs refuses
          NoKey,     \* no context is being handled
          StartFiles, \* what the file may list when the adjuster starts
          Flows,     \* bands of measured bytes that occur
          Interval,  \* --interval
          Slack,     \* by how much a round may be longer than the interval
          Window,    \* --decoder-restart-backoff-window
          Threshold, \* --decoder-crash-threshold
          Budget     \* how many edits, signals, crashes and failures there are

Events    == {"edit", "crash", "fault"}
Resources == Events \cup {"hup", "all"}           \* "all" bounds the events together

ASSUME AdjusterAssumption ==
  /\ Cfgs \subseteq [modules : Nat \ {0}, units : Nat \ {0}]
  /\ Flows \subseteq {"low", "mid", "high"}
  /\ NoCfg \notin Cfgs /\ NoKey \notin Keys
  /\ Interval \in Nat \ {0} /\ Slack \in Nat \ {0}
  /\ Window \in Nat \ {0} /\ Threshold \in Nat \ {0}
  /\ Budget \in [Resources -> Nat]

\* What the file may list.  An empty list of machines is refused like a bad file.
Files == [Keys -> Cfgs \cup {NoCfg}] \ {[k \in Keys |-> NoCfg]}
ASSUME FileAssumption == Bad \notin Files /\ StartFiles \subseteq Files \cup {Bad}

(***************************************************************************)
(* A topic is a path below the machine: <<>> is "sn/#", <<m>> is "sn/m/#", *)
(* <<m, u>> is "sn/m/u/#".                                                 *)
(***************************************************************************)
Modules(c)  == {<<m>> : m \in 1 .. c.modules}
Units(c)    == {<<m, u>> : m \in 1 .. c.modules, u \in 1 .. c.units}
Topics      == {<<>>} \cup UNION {Modules(c) \cup Units(c) : c \in Cfgs}
NoTopic     == <<0>>

DetermineFromZero(flow, c) ==              \* mutant: modules are counted from 0
  IF flow = "low" THEN {<<>>} ELSE {<<m>> \o t : m \in 0 .. c.modules,
     t \in IF flow = "mid" THEN {<<>>} ELSE {<<u>> : u \in 1 .. c.units}}

\* The bands of the measured bytes: below min_delta, below twice that, above.
DetermineTopics(flow, c) == CASE flow = "low"  -> {<<>>}
                              [] flow = "mid"  -> Modules(c)
                              [] flow = "high" -> Units(c)

\* Two subscriptions overlap when one topic is above the other.
Above(s, t) == Len(s) <= Len(t) /\ SubSeq(t, 1, Len(s)) = s

VARIABLES
  file,    \* what the machines file lists, or Bad
  reload,  \* reload_event
  stop,    \* stop_event
  pc,      \* where the main thread is
  at,      \* the context it handles, or NoKey
  todo,    \* contexts the current loop has still to visit
  term,    \* the decoder terminate_decoder waits for, or NoTopic
  ready,   \* has READY=1 been sent?
  cfgs,    \* the list load_machine_configs returned last
  ctx,     \* per context its MachineRuntime, or NoCtx
  want,    \* per context the topics the last measurement asked for
  active,  \* active_decoders
  fails,   \* decoder_failures: crash count, and time since the last crash
  metrics, \* MetricsState.contexts, or NoMetric
  proc,    \* the decoder processes themselves
  unread,  \* history: a SIGHUP came after the file was last read
  broken,  \* history: contexts whose last attach failed
  streak,  \* history: in how many rounds running a decoder was found dead
  budget   \* what is left of Budget

signals == <<reload, stop>>
loop    == <<pc, at, todo, term, ready, cfgs>>
state   == <<ctx, want, active, fails, metrics>>
history == <<unread, broken, streak>>
vars    == <<file, signals, loop, state, proc, history, budget>>

Spend(r) ==
  /\ budget[r] > 0
  /\ r \in Events => budget["all"] > 0
  /\ budget' = [budget EXCEPT ![r] = @ - 1, !["all"] = IF r \in Events THEN @ - 1 ELSE @]

NoCtx    == [cfg |-> NoCfg, probed |-> FALSE, err |-> FALSE]
NoMetric == [healthy |-> FALSE, n |-> -1]
NoFail   == [count |-> 0, age |-> Window + 1]
NoFails  == [t \in Topics |-> NoFail]
Contexts == {k \in Keys : ctx[k] # NoCtx}
Healthy(k) == ctx[k] # NoCtx /\ ~ctx[k].err
Report(k, h, n) == metrics' = [metrics EXCEPT ![k] = [healthy |-> h, n |-> n]]

-----------------------------------------------------------------------------
(***************************************************************************)
(* Around the adjuster.                                                    *)
(***************************************************************************)
Alive == pc \notin {"ended", "refused"}

EditFile ==
  /\ Spend("edit")
  /\ file' \in (Files \cup {Bad}) \ {file}
  /\ UNCHANGED <<signals, loop, state, proc, history>>

Sighup ==
  /\ Alive /\ Spend("hup")
  /\ reload' = TRUE
  /\ unread' = TRUE
  /\ UNCHANGED <<file, stop, loop, state, proc, broken, streak>>

Sigterm ==
  /\ Alive /\ ~stop
  /\ stop' = TRUE
  /\ UNCHANGED <<file, reload, loop, state, proc, history, budget>>

\* A decoder exits: no broker at its start, an exception, the OOM killer.
Crash(k, t) ==
  /\ proc[k][t] = "up"
  /\ Spend("crash")
  /\ proc' = [proc EXCEPT ![k][t] = "dead"]
  /\ UNCHANGED <<file, signals, loop, state, history>>

-----------------------------------------------------------------------------
(***************************************************************************)
(* run(): the loop.                                                        *)
(***************************************************************************)
WakeQuiet ==                               \* mutant: the stop waits for a reload that is due
  /\ pc = "wait" /\ stop /\ ~reload
  /\ pc' = "shutdown"
  /\ todo' = Contexts
  /\ UNCHANGED <<file, signals, at, term, ready, cfgs, state, proc, history, budget>>

\* stop_event.wait returns at once when the event is set.
Wake ==
  /\ pc = "wait" /\ stop
  /\ pc' = "shutdown"
  /\ todo' = Contexts
  /\ UNCHANGED <<file, signals, at, term, ready, cfgs, state, proc, history, budget>>

Later(f, d) == IF f.count = 0 THEN f
               ELSE [f EXCEPT !.age = IF @ + d > Window THEN Window + 1 ELSE @ + d]

Elapse == \E d \in 1 .. Slack :
            fails' = [k \in Keys |-> [t \in Topics |-> Later(fails[k][t], Interval + d)]]

\* The flag is cleared before the file is read.
Round ==
  /\ pc = "wait" /\ ~stop
  /\ Elapse
  /\ reload' = FALSE
  /\ IF reload THEN pc' = "load" /\ todo' = {}
               ELSE pc' = "sweep" /\ todo' = Contexts
  /\ UNCHANGED <<file, stop, at, term, ready, cfgs, ctx, want, active, metrics, proc,
                 history, budget>>

-----------------------------------------------------------------------------
(***************************************************************************)
(* reload_configs and reconcile_contexts.                                  *)
(***************************************************************************)
ReloadedClears ==                          \* mutant: reload_event is cleared after the reload
  /\ reload' = FALSE
  /\ ready' = (ready \/ Contexts # {})
  /\ IF ready THEN pc' = "sweep" /\ todo' = Contexts
              ELSE pc' = (IF Contexts = {} THEN "refused" ELSE "wait") /\ todo' = {}

\* At the start the adjuster goes on only if some context could be attached.
Reloaded ==
  /\ reload' = reload
  /\ ready' = (ready \/ Contexts # {})
  /\ IF ready THEN pc' = "sweep" /\ todo' = Contexts
              ELSE pc' = (IF Contexts = {} THEN "refused" ELSE "wait") /\ todo' = {}

Load ==
  /\ pc = "load" /\ file # Bad
  /\ unread' = FALSE
  /\ cfgs' = file
  /\ pc' = "apply"
  /\ todo' = {k \in Keys : file[k] # NoCfg}
  /\ UNCHANGED <<file, signals, at, term, ready, state, proc, broken, streak, budget>>

LoadFails ==
  /\ pc = "load" /\ file = Bad
  /\ unread' = FALSE
  /\ Reloaded
  /\ UNCHANGED <<file, stop, at, term, cfgs, state, proc, broken, streak, budget>>

Obsolete == {k \in Contexts : cfgs[k] = NoCfg}

\* Contexts that are no longer listed are closed first.
Retire ==
  /\ pc = "apply"
  /\ at' \in Obsolete
  /\ pc' = "remove"
  /\ UNCHANGED <<file, signals, todo, term, ready, cfgs, state, proc, history, budget>>

VisitKnown ==                              \* mutant: a context is known by its key alone
  /\ pc = "apply" /\ Obsolete = {}
  /\ \E k \in todo :
       /\ todo' = todo \ {k}
       /\ IF k \in Contexts THEN UNCHANGED <<pc, at>> ELSE at' = k /\ pc' = "attach"
  /\ UNCHANGED <<file, signals, term, ready, cfgs, state, proc, history, budget>>

\* Then each listed one is left alone, replaced or attached.
Visit ==
  /\ pc = "apply" /\ Obsolete = {}
  /\ \E k \in todo :
       /\ todo' = todo \ {k}
       /\ IF ctx[k].cfg = cfgs[k] THEN UNCHANGED <<pc, at>>
          ELSE /\ at' = k
               /\ pc' = IF k \in Contexts THEN "replace" ELSE "attach"
  /\ UNCHANGED <<file, signals, term, ready, cfgs, state, proc, history, budget>>

Applied ==
  /\ pc = "apply" /\ Obsolete = {} /\ todo = {}
  /\ Reloaded
  /\ UNCHANGED <<file, stop, at, term, cfgs, state, proc, history, budget>>

Forget(k) == /\ fails' = [fails EXCEPT ![k] = NoFails]
             /\ want' = [want EXCEPT ![k] = {}]
             /\ streak' = [streak EXCEPT ![k] = [t \in Topics |-> 0]]

\* MachineRuntime.start: a fresh runtime with no decoders and no crash counts.
Attach ==
  /\ pc = "attach"
  /\ ctx' = [ctx EXCEPT ![at] = [cfg |-> cfgs[at], probed |-> TRUE, err |-> FALSE]]
  /\ Forget(at)
  /\ Report(at, TRUE, 0)
  /\ broken' = broken \ {at}
  /\ pc' = "apply" /\ at' = NoKey
  /\ UNCHANGED <<file, signals, todo, term, ready, cfgs, active, proc, unread, budget>>

\* When it fails, the runtime that was closed for it stays in the table.
AttachFails ==
  /\ pc = "attach" /\ Spend("fault")
  /\ Report(at, FALSE, 0)
  /\ broken' = broken \cup {at}
  /\ pc' = "apply" /\ at' = NoKey
  /\ UNCHANGED <<file, signals, todo, term, ready, cfgs, ctx, want, active, fails, proc,
                 unread, streak>>

-----------------------------------------------------------------------------
(***************************************************************************)
(* terminate_decoder and MachineRuntime.close.                             *)
(***************************************************************************)
Closing == {"remove", "replace", "shutdown"}

Unwanted == IF pc = "drop" THEN active[at] \ want[at]
            ELSE IF pc \in Closing /\ at # NoKey THEN active[at] ELSE {}

TerminateNoWait ==                         \* mutant: nobody waits for the process
  /\ term = NoTopic
  /\ \E t \in Unwanted :
       /\ active' = [active EXCEPT ![at] = @ \ {t}]
       /\ proc' = [proc EXCEPT ![at][t] = IF @ = "up" THEN "dying" ELSE "none"]
  /\ UNCHANGED <<file, signals, loop, ctx, want, fails, metrics, history, budget>>

\* One at a time: SIGTERM, then wait.
Terminate ==
  /\ term = NoTopic
  /\ \E t \in Unwanted :
       /\ term' = t
       /\ active' = [active EXCEPT ![at] = @ \ {t}]
       /\ proc' = [proc EXCEPT ![at][t] = IF @ = "up" THEN "dying" ELSE @]
  /\ UNCHANGED <<file, signals, pc, at, todo, ready, cfgs, ctx, want, fails, metrics,
                 history, budget>>

\* The process ends by itself, or after five seconds by SIGKILL.
Terminated ==
  /\ term # NoTopic
  /\ proc' = [proc EXCEPT ![at][term] = "none"]
  /\ term' = NoTopic
  /\ UNCHANGED <<file, signals, pc, at, todo, ready, cfgs, state, history, budget>>

\* bpf.cleanup detaches the probes.  A runtime that is not configured any more
\* leaves the table, one that is to be replaced stays until its successor runs.
Closed ==
  /\ pc \in Closing /\ at # NoKey /\ term = NoTopic /\ active[at] = {}
  /\ metrics' = [metrics EXCEPT ![at] = NoMetric]
  /\ IF pc = "remove"
     THEN /\ ctx' = [ctx EXCEPT ![at] = NoCtx]
          /\ Forget(at)
          /\ broken' = broken \ {at}
     ELSE /\ ctx' = [ctx EXCEPT ![at].probed = FALSE]
          /\ UNCHANGED <<fails, want, streak, broken>>
  /\ pc' = CASE pc = "remove" -> "apply" [] pc = "replace" -> "attach" [] OTHER -> pc
  /\ at' = IF pc = "replace" THEN at ELSE NoKey
  /\ UNCHANGED <<file, signals, todo, term, ready, cfgs, active, proc, unread, budget>>

\* shutdown() closes every context.
Shutdown ==
  /\ pc = "shutdown" /\ at = NoKey
  /\ IF todo = {} THEN pc' = "ended" /\ UNCHANGED <<at, todo>>
     ELSE /\ at' \in todo
          /\ todo' = todo \ {at'}
          /\ pc' = pc
  /\ UNCHANGED <<file, signals, term, ready, cfgs, state, proc, history, budget>>

-----------------------------------------------------------------------------
(***************************************************************************)
(* measure_and_reconcile, for one context after the other.                 *)
(***************************************************************************)
MarkAlwaysFresh(f) == [count |-> 1, age |-> 0]     \* mutant: the count starts again at every crash
Mark(f) == [count |-> IF f.age > Window THEN 1 ELSE f.count + 1, age |-> 0]

ExitedNever(k) == {}                               \* mutant: exited decoders stay in the table
Exited(k) == {t \in active[k] : proc[k][t] = "dead"}

\* The exited decoders are counted as crashes; one that still runs was started in an
\* earlier round, which is longer ago than the interval, and its count is dropped.
Reap(k) ==
  /\ active' = [active EXCEPT ![k] = @ \ Exited(k)]
  /\ fails' = [fails EXCEPT ![k] = [t \in Topics |->
                  IF t \in Exited(k) THEN Mark(@[t])
                  ELSE IF t \in active[k] THEN NoFail ELSE @[t]]]
  /\ proc' = [proc EXCEPT ![k] = [t \in Topics |-> IF t \in Exited(k) THEN "none" ELSE @[t]]]
  /\ streak' = [streak EXCEPT ![k] = [t \in Topics |->
                  IF t \notin Exited(k) THEN 0
                  ELSE IF @[t] < Threshold THEN @[t] + 1 ELSE @[t]]]

\* The bytes of the table decide on the topics.  After bpf.cleanup the table reads as
\* empty, or raises (MeasureFails).
Measure ==
  /\ pc = "sweep"
  /\ \E k \in todo, flow \in Flows :
       /\ ctx[k].probed \/ flow = "low"
       /\ want' = [want EXCEPT ![k] = DetermineTopics(flow, ctx[k].cfg)]
       /\ Reap(k)
       /\ Report(k, Healthy(k), Cardinality(active[k]))
       /\ todo' = todo \ {k}
       /\ at' = k
  /\ pc' = "drop"
  /\ UNCHANGED <<file, signals, term, ready, cfgs, ctx, unread, broken, budget>>

MeasureFails ==
  /\ pc = "sweep"
  /\ \E k \in todo :
       /\ IF ctx[k].probed THEN Spend("fault") ELSE UNCHANGED budget
       /\ ctx' = [ctx EXCEPT ![k].err = TRUE]
       /\ Report(k, FALSE, Cardinality(active[k]))
       /\ streak' = [streak EXCEPT ![k] = [t \in Topics |-> 0]]
       /\ todo' = todo \ {k}
  /\ UNCHANGED <<file, signals, pc, at, term, ready, cfgs, want, active, fails, proc,
                 unread, broken>>

Allowed(f) == f.age > Window \/ f.count < Threshold           \* _restart_allowed

DroppedOrNot == pc = "drop" /\ term = NoTopic                 \* mutant: the old decoders may wait
Dropped == pc = "drop" /\ term = NoTopic /\ Unwanted = {}

Startable == {t \in want[at] \ active[at] : Allowed(fails[at][t])}

\* spawn_decoder for each topic of S; an expired crash count is dropped on the way.
Start(S) ==
  /\ active' = [active EXCEPT ![at] = @ \cup S]
  /\ proc' = [proc EXCEPT ![at] = [t \in Topics |-> IF t \in S THEN "up" ELSE @[t]]]
  /\ fails' = [fails EXCEPT ![at] = [t \in Topics |->
                  IF t \in S /\ @[t].age > Window THEN NoFail ELSE @[t]]]
  /\ pc' = "sweep" /\ at' = NoKey

SpawnUnreported ==                         \* mutant: no record_context after the decoders' start
  /\ Dropped
  /\ Start(Startable)
  /\ UNCHANGED <<file, signals, todo, term, ready, cfgs, ctx, want, metrics, history, budget>>

Spawn ==
  /\ Dropped
  /\ Start(Startable)
  /\ Report(at, Healthy(at), Cardinality(active'[at]))
  /\ UNCHANGED <<file, signals, todo, term, ready, cfgs, ctx, want, history, budget>>

\* Popen raises for one of them: the rest is left for the next round.
SpawnFails ==
  /\ Dropped /\ Spend("fault")
  /\ \E S \in SUBSET Startable \ {Startable} : Start(S)
  /\ ctx' = [ctx EXCEPT ![at].err = TRUE]
  /\ Report(at, FALSE, Cardinality(active'[at]))
  /\ UNCHANGED <<file, signals, todo, term, ready, cfgs, want, history>>

\* The watchdog's ping, and back to sleep.
Swept ==
  /\ pc = "sweep" /\ todo = {}
  /\ pc' = "wait"
  /\ UNCHANGED <<file, signals, at, todo, term, ready, cfgs, state, proc, history, budget>>

-----------------------------------------------------------------------------
Init ==
  /\ file \in StartFiles
  /\ reload = FALSE /\ stop = FALSE
  /\ pc = "load" /\ at = NoKey /\ todo = {} /\ term = NoTopic
  /\ ready = FALSE
  /\ cfgs = [k \in Keys |-> NoCfg]
  /\ ctx = [k \in Keys |-> NoCtx]
  /\ want = [k \in Keys |-> {}]
  /\ active = [k \in Keys |-> {}]
  /\ fails = [k \in Keys |-> NoFails]
  /\ metrics = [k \in Keys |-> NoMetric]
  /\ proc = [k \in Keys |-> [t \in Topics |-> "none"]]
  /\ unread = FALSE /\ broken = {}
  /\ streak = [k \in Keys |-> [t \in Topics |-> 0]]
  /\ budget = Budget

\* What the main thread does by itself.
Main ==
  \/ Wake \/ Round \/ Swept
  \/ Load \/ LoadFails \/ Retire \/ Visit \/ Applied \/ Attach
  \/ Terminate \/ Terminated \/ Closed \/ Shutdown
  \/ Measure \/ Spawn

Failure == AttachFails \/ MeasureFails \/ SpawnFails

Around == EditFile \/ Sighup \/ Sigterm \/ \E k \in Keys, t \in Topics : Crash(k, t)

Next == Main \/ Failure \/ Around

Spec     == Init /\ [][Next]_vars
FairSpec == Spec /\ WF_vars(Main)

-----------------------------------------------------------------------------
(***************************************************************************)
(* Properties.                                                             *)
(***************************************************************************)
\* Types.  A decoder is started only while its crash count is below the threshold,
\* so that no count goes beyond it (_mark_crash, _restart_allowed).
TypeOK ==
  /\ file \in Files \cup {Bad}
  /\ reload \in BOOLEAN /\ stop \in BOOLEAN /\ ready \in BOOLEAN /\ unread \in BOOLEAN
  /\ pc \in {"load", "apply", "attach", "sweep", "drop", "wait", "ended", "refused"} \cup Closing
  /\ at \in Keys \cup {NoKey} /\ todo \subseteq Keys /\ broken \subseteq Keys
  /\ term \in Topics \cup {NoTopic}
  /\ cfgs \in [Keys -> Cfgs \cup {NoCfg}]
  /\ ctx \in [Keys -> [cfg : Cfgs \cup {NoCfg}, probed : BOOLEAN, err : BOOLEAN]]
  /\ want \in [Keys -> SUBSET Topics]
  /\ active \in [Keys -> SUBSET Topics]
  /\ fails \in [Keys -> [Topics -> [count : 0 .. Threshold, age : 0 .. Window + 1]]]
  /\ metrics \in [Keys -> [healthy : BOOLEAN, n : Nat \cup {-1}]]
  /\ proc \in [Keys -> [Topics -> {"none", "up", "dying", "dead"}]]
  /\ streak \in [Keys -> [Topics -> 0 .. Threshold]]
  /\ budget \in [Resources -> Nat]

\* No point is ever decoded twice for one context: the topics of its decoder processes that
\* run, or have not ended yet, are never above one another, whatever band the flow moves to
\* (reconcile_decoders terminates before it spawns, terminate_decoder waits) and whatever
\* the file is changed to (close, then start).
Subscribed(k, t) == proc[k][t] \in {"up", "dying"}
OneDecoderPerPoint ==
  \A k \in Keys, s, t \in Topics :
    Subscribed(k, s) /\ Subscribed(k, t) /\ Above(s, t) => s = t

\* No process is lost sight of: each one is in active_decoders of a context, or is being
\* waited for; a context that is gone has none, and an adjuster that has ended has none.
NoOrphans ==
  /\ \A k \in Keys, t \in Topics :
       /\ proc[k][t] # "none" => t \in active[k] \/ (at = k /\ term = t)
       /\ t \in active[k] => ctx[k] # NoCtx
  /\ pc \in {"ended", "refused"} => \A k \in Keys, t \in Topics : proc[k][t] = "none"

\* Between reloads the contexts are those of the last file that could be read, each with
\* its settings of that file, but for those whose attach failed: a file that is refused
\* changes nothing (reload_configs), a failed context does not stop the others.
AsConfigured ==
  pc \in {"wait", "sweep", "drop"} =>
    \A k \in Keys \ broken : ctx[k].cfg = cfgs[k]

\* A SIGHUP is never lost: until the file has been read after it, the reload is pending
\* or about to read (run clears reload_event before it reads the file).
NoReloadLost == unread /\ Alive => reload \/ pc = "load"

\* What /metrics says of the decoders of a context, between rounds, is what
\* active_decoders holds, and a context with an error is not healthy, whichever of the
\* several places wrote the entry last.
ReportedCount ==
  pc = "wait" => \A k \in Contexts :
    /\ metrics[k].n = Cardinality(active[k])
    /\ metrics[k].healthy => Healthy(k)

\* Repeated crashes are held back (help text of --decoder-crash-threshold): a decoder that
\* has been found dead in Threshold rounds running is not started again in that round.
\* This needs a backoff window that is longer than a round.
BackoffHolds ==
  [][ \A k \in Keys, t \in Topics :
        t \notin active[k] /\ t \in active'[k] => streak[k][t] < Threshold ]_vars

\* Nothing is held back for good: again and again every topic the flow asks for has a
\* decoder that runs, once decoders have stopped dying and calls have stopped failing
\* (both are bounded), also after repeated crashes (_restart_allowed forgets them when the
\* window is over) and after a Popen that failed.  A context that a failed reload has left
\* without probes is another matter.
AllServed ==
  \A k \in Keys : ctx[k].probed => \A t \in want[k] : proc[k][t] = "up"
Served == []<>(AllServed \/ ~Alive)

\* SIGTERM ends the adjuster, whatever it is doing.
StopEnds == stop ~> ~Alive

\* The HELP text of plc_context_health: a context that is reported healthy has its probes
\* attached.  Not so after a reload whose attach failed.
HealthyMeansAttached ==
  pc = "wait" => \A k \in Keys : metrics[k].healthy => ctx[k].probed
=============================================================================
