---------------------------- MODULE Adjuster_proofs ----------------------------
(***************************************************************************)
(* Theorems about Adjuster, for any contexts, settings, interval, window,  *)
(* threshold and any number of edits, signals, crashes and failures.       *)
(***************************************************************************)
EXTENDS Adjuster, FiniteSetTheorems, SequenceTheorems, TLAPS

-----------------------------------------------------------------------------
(***************************************************************************)
(* Topics.                                                                 *)
(***************************************************************************)
LEMMA TopicShape ==
  ASSUME NEW t \in Topics
  PROVE  \/ t = <<>>
         \/ \E m \in Nat \ {0} : t = <<m>>
         \/ \E m \in Nat \ {0}, u \in Nat \ {0} : t = <<m, u>>
<1>1. CASE t = <<>>
  BY <1>1
<1>2. ASSUME NEW c \in Cfgs, t \in Modules(c) PROVE \E m \in Nat \ {0} : t = <<m>>
  BY <1>2, AdjusterAssumption DEF Modules
<1>3. ASSUME NEW c \in Cfgs, t \in Units(c)
      PROVE  \E m \in Nat \ {0}, u \in Nat \ {0} : t = <<m, u>>
  BY <1>3, AdjusterAssumption DEF Units
<1>. QED  BY <1>1, <1>2, <1>3 DEF Topics

LEMMA NoTopicIsNone == NoTopic \notin Topics
<1>. SUFFICES ASSUME NoTopic \in Topics PROVE FALSE
  OBVIOUS
<1>1. /\ NoTopic # <<>>
      /\ \A m \in Nat \ {0} : NoTopic # <<m>>
      /\ \A m \in Nat \ {0}, u \in Nat \ {0} : NoTopic # <<m, u>>
  BY DEF NoTopic
<1>. QED  BY <1>1, TopicShape

\* A set of topics none of which is above another.
Apart(S) == \A s, t \in S : Above(s, t) => s = t

LEMMA ApartSubset ==
  ASSUME NEW S, NEW T, S \subseteq T, Apart(T)
  PROVE  Apart(S)
BY DEF Apart

\* Topics as deep as each other are not above each other.
LEMMA SameDepth ==
  ASSUME NEW s \in Seq(Nat), NEW t \in Seq(Nat), Len(s) = Len(t), Above(s, t)
  PROVE  s = t
<1>1. SubSeq(t, 1, Len(t)) = t
  BY SubSeqFull
<1>. QED  BY <1>1 DEF Above

\* Whatever the flow, the topics it asks for are apart, and topics of the settings.
LEMMA DetermineApart ==
  ASSUME NEW c \in Cfgs, NEW flow \in Flows
  PROVE  /\ Apart(DetermineTopics(flow, c))
         /\ DetermineTopics(flow, c) \subseteq Topics
<1>1. flow \in {"low", "mid", "high"}
  BY AdjusterAssumption
<1>2. CASE flow = "low"
  BY <1>2 DEF DetermineTopics, Apart, Topics
<1>3. CASE flow = "mid"
  <2>1. DetermineTopics(flow, c) = Modules(c)
    BY <1>3 DEF DetermineTopics
  <2>2. ASSUME NEW s \in Modules(c), NEW t \in Modules(c), Above(s, t) PROVE s = t
    <3>1. PICK m, n \in Nat : s = <<m>> /\ t = <<n>>
      BY AdjusterAssumption DEF Modules
    <3>2. s \in Seq(Nat) /\ t \in Seq(Nat) /\ Len(s) = Len(t)
      BY <3>1
    <3>. QED  BY <2>2, <3>2, SameDepth
  <2>. QED  BY <2>1, <2>2 DEF Apart, Topics
<1>4. CASE flow = "high"
  <2>1. DetermineTopics(flow, c) = Units(c)
    BY <1>4 DEF DetermineTopics
  <2>2. ASSUME NEW s \in Units(c), NEW t \in Units(c), Above(s, t) PROVE s = t
    <3>1. PICK m, u, n, v \in Nat : s = <<m, u>> /\ t = <<n, v>>
      BY AdjusterAssumption DEF Units
    <3>2. s \in Seq(Nat) /\ t \in Seq(Nat) /\ Len(s) = Len(t)
      BY <3>1
    <3>. QED  BY <2>2, <3>2, SameDepth
  <2>. QED  BY <2>1, <2>2 DEF Apart, Topics
<1>. QED  BY <1>1, <1>2, <1>3, <1>4

-----------------------------------------------------------------------------
(***************************************************************************)
(* Where the thread is, and what it holds.                                 *)
(***************************************************************************)
Places == {"load", "apply", "attach", "sweep", "drop", "wait", "ended", "refused"} \cup Closing

\* The places at which one context is in hand.
Handling == {"attach", "drop"} \cup Closing

Control ==
  /\ pc \in Places /\ at \in Keys \cup {NoKey}
  /\ todo \subseteq Keys /\ term \in Topics \cup {NoTopic}
  /\ file \in Files \cup {Bad} /\ cfgs \in [Keys -> Cfgs \cup {NoCfg}]

Table ==
  /\ ctx \in [Keys -> [cfg : Cfgs \cup {NoCfg}, probed : BOOLEAN, err : BOOLEAN]]
  /\ \A k \in Keys : ctx[k].cfg = NoCfg => ctx[k] = NoCtx

Decoders ==
  /\ want \in [Keys -> SUBSET Topics] /\ active \in [Keys -> SUBSET Topics]
  /\ proc \in [Keys -> [Topics -> {"none", "up", "dying", "dead"}]]

\* Which context is in hand, and which ones a loop has still to visit.
InHand ==
  /\ at # NoKey => pc \in Handling
  /\ pc \in Handling \ {"shutdown"} => at \in Keys
  /\ pc \in {"attach", "replace"} => cfgs[at] # NoCfg
  /\ pc = "remove" => cfgs[at] = NoCfg
  /\ pc \in {"drop"} \cup Closing /\ at # NoKey => ctx[at] # NoCtx
  /\ term # NoTopic => at # NoKey /\ pc # "attach"

Ahead ==
  /\ pc \in {"apply", "remove", "replace", "attach"} => \A k \in todo : cfgs[k] # NoCfg
  /\ pc \in {"sweep", "drop", "shutdown"} => todo \subseteq Contexts
  /\ pc \in {"drop", "shutdown"} => at \notin todo

Shape == Control /\ Table /\ Decoders /\ InHand /\ Ahead

LEMMA ShapeInit == Init => Shape
<1>. SUFFICES ASSUME Init PROVE Shape
  OBVIOUS
<1>1. Control
  BY FileAssumption DEF Init, Control, Places, Closing
<1>2. Table
  BY DEF Init, Table, NoCtx
<1>3. Decoders
  BY DEF Init, Decoders
<1>4. InHand /\ Ahead
  BY AdjusterAssumption DEF Init, InHand, Ahead, Handling, Closing
<1>. QED  BY <1>1, <1>2, <1>3, <1>4 DEF Shape

\* The step of the loops around one context: where a reload leads to.
LEMMA ReloadedPlace ==
  ASSUME Reloaded
  PROVE  /\ pc' \in {"sweep", "refused", "wait"}
         /\ todo' = IF pc' = "sweep" THEN Contexts ELSE {}
         /\ pc' = "refused" => Contexts = {}
         /\ reload' = reload
BY DEF Reloaded

LEMMA ShapeStep == Shape /\ [Next]_vars => Shape'
<1>. SUFFICES ASSUME Shape, [Next]_vars PROVE Shape'
  OBVIOUS
<1>. USE DEF Shape, signals, loop, state, history
<1>1. CASE Wake
  <2>1. Control' /\ Table' /\ Decoders'
    BY <1>1 DEF Wake, Control, Table, Decoders, Contexts, Places, Closing
  <2>2. InHand' /\ Ahead'
    BY <1>1, AdjusterAssumption DEF Wake, Control, InHand, Ahead, Handling, Closing, Contexts
  <2>. QED  BY <2>1, <2>2
<1>2. CASE Round
  <2>1. Control' /\ Table' /\ Decoders'
    BY <1>2 DEF Round, Control, Table, Decoders, Contexts, Places, Closing
  <2>2. InHand' /\ Ahead'
    BY <1>2 DEF Round, Control, InHand, Ahead, Handling, Closing, Contexts
  <2>. QED  BY <2>1, <2>2
<1>3. CASE Swept
  <2>1. Control' /\ Table' /\ Decoders'
    BY <1>3 DEF Swept, Control, Table, Decoders, Places, Closing
  <2>2. InHand' /\ Ahead'
    BY <1>3 DEF Swept, Control, InHand, Ahead, Handling, Closing
  <2>. QED  BY <2>1, <2>2
<1>4. CASE Load
  <2>1. Control'
    BY <1>4 DEF Load, Control, Files, Places
  <2>2. Table' /\ Decoders'
    BY <1>4 DEF Load, Table, Decoders
  <2>3. InHand' /\ Ahead'
    BY <1>4 DEF Load, Control, InHand, Ahead, Handling, Closing
  <2>. QED  BY <2>1, <2>2, <2>3
<1>5. CASE LoadFails
  <2>0. /\ pc' \in {"sweep", "refused", "wait"}
        /\ todo' = IF pc' = "sweep" THEN Contexts ELSE {}
    BY <1>5, ReloadedPlace DEF LoadFails
  <2>1. Control' /\ Table' /\ Decoders'
    BY <1>5, <2>0 DEF LoadFails, Control, Table, Decoders, Contexts, Places, Closing
  <2>2. InHand' /\ Ahead'
    BY <1>5, <2>0 DEF LoadFails, Control, InHand, Ahead, Handling, Closing, Contexts
  <2>. QED  BY <2>1, <2>2
<1>6. CASE Retire
  <2>1. Control' /\ Table' /\ Decoders'
    BY <1>6 DEF Retire, Obsolete, Control, Table, Decoders, Contexts, Places, Closing
  <2>2. InHand' /\ Ahead'
    BY <1>6 DEF Retire, Obsolete, Control, InHand, Ahead, Handling, Closing, Contexts
  <2>. QED  BY <2>1, <2>2
<1>7. CASE Visit
  <2>1. Control' /\ Table' /\ Decoders'
    BY <1>7 DEF Visit, Control, Table, Decoders, Places, Closing
  <2>2. InHand' /\ Ahead'
    BY <1>7 DEF Visit, Control, InHand, Ahead, Handling, Closing, Contexts
  <2>. QED  BY <2>1, <2>2
<1>8. CASE Applied
  <2>0. /\ pc' \in {"sweep", "refused", "wait"}
        /\ todo' = IF pc' = "sweep" THEN Contexts ELSE {}
    BY <1>8, ReloadedPlace DEF Applied
  <2>1. Control' /\ Table' /\ Decoders'
    BY <1>8, <2>0 DEF Applied, Control, Table, Decoders, Contexts, Places, Closing
  <2>2. InHand' /\ Ahead'
    BY <1>8, <2>0 DEF Applied, Control, InHand, Ahead, Handling, Closing, Contexts
  <2>. QED  BY <2>1, <2>2
<1>9. CASE Attach
  <2>1. Control'
    BY <1>9 DEF Attach, Control, Places
  <2>2. at \in Keys /\ cfgs[at] \in Cfgs
    BY <1>9 DEF Attach, Control, InHand, Handling, Closing
  <2>3. Table'
    BY <1>9, <2>2, AdjusterAssumption DEF Attach, Table
  <2>4. Decoders'
    BY <1>9, <2>2 DEF Attach, Forget, Decoders
  <2>5. InHand' /\ Ahead'
    BY <1>9 DEF Attach, Control, InHand, Ahead, Handling, Closing
  <2>. QED  BY <2>1, <2>3, <2>4, <2>5
<1>10. CASE AttachFails
  <2>1. Control' /\ Table' /\ Decoders'
    BY <1>10 DEF AttachFails, Control, Table, Decoders, Places
  <2>2. InHand' /\ Ahead'
    BY <1>10 DEF AttachFails, Control, InHand, Ahead, Handling, Closing
  <2>. QED  BY <2>1, <2>2
<1>11. CASE Terminate
  <2>1. PICK t \in Unwanted :
             /\ term' = t
             /\ active' = [active EXCEPT ![at] = @ \ {t}]
             /\ proc' = [proc EXCEPT ![at][t] = IF @ = "up" THEN "dying" ELSE @]
    BY <1>11 DEF Terminate
  <2>2. at \in Keys /\ t \in Topics /\ at # NoKey /\ pc # "attach"
    BY AdjusterAssumption DEF Unwanted, Control, Decoders, InHand, Handling, Closing
  <2>3. Control' /\ Table'
    BY <1>11, <2>1, <2>2 DEF Terminate, Control, Table
  <2>4. Decoders'
    BY <1>11, <2>1, <2>2 DEF Terminate, Decoders
  <2>5. InHand' /\ Ahead'
    BY <1>11, <2>1, <2>2 DEF Terminate, InHand, Ahead, Contexts
  <2>. QED  BY <2>3, <2>4, <2>5
<1>12. CASE Terminated
  <2>1. Control' /\ Table' /\ Decoders'
    BY <1>12 DEF Terminated, Control, Table, Decoders
  <2>2. InHand' /\ Ahead'
    BY <1>12 DEF Terminated, InHand, Ahead, Contexts
  <2>. QED  BY <2>1, <2>2
<1>13. CASE Closed
  <2>1. at \in Keys /\ ctx[at].cfg # NoCfg /\ NoCtx.cfg = NoCfg
    BY <1>13 DEF Closed, Control, Table, InHand, NoCtx
  <2>2. Control'
    BY <1>13 DEF Closed, Control, Places, Closing
  <2>3. Table'
    <3>1. CASE pc = "remove"
      <4>1. NoCtx \in [cfg : Cfgs \cup {NoCfg}, probed : BOOLEAN, err : BOOLEAN]
        BY DEF NoCtx
      <4>. QED  BY <1>13, <2>1, <3>1, <4>1 DEF Closed, Table
    <3>2. CASE pc # "remove"
      BY <1>13, <2>1, <3>2 DEF Closed, Table, NoCtx
    <3>. QED  BY <3>1, <3>2
  <2>4. Decoders'
    BY <1>13 DEF Closed, Decoders, Forget
  <2>5. InHand'
    BY <1>13, <2>1, <2>3 DEF Closed, Table, Control, InHand, Handling, Closing
  <2>6. Ahead'
    <3>1. CASE pc = "remove"
      BY <1>13, <3>1 DEF Closed, Ahead
    <3>2. CASE pc = "replace"
      BY <1>13, <3>2 DEF Closed, Ahead
    <3>3. CASE pc = "shutdown"
      <4>1. \A k \in Keys : ctx[k] # NoCtx => ctx'[k] # NoCtx
        BY <1>13, <2>1, <3>3 DEF Closed, Table
      <4>2. pc' = "shutdown" /\ todo' = todo /\ at' = NoKey
        BY <1>13, <3>3 DEF Closed
      <4>. QED  BY <3>3, <4>1, <4>2, AdjusterAssumption DEF Control, Ahead, Contexts
    <3>. QED  BY <1>13, <3>1, <3>2, <3>3 DEF Closed, Closing
  <2>. QED  BY <2>2, <2>3, <2>4, <2>5, <2>6
<1>14. CASE Shutdown
  <2>1. Control' /\ Table' /\ Decoders'
    BY <1>14 DEF Shutdown, Control, Table, Decoders, Places
  <2>2. InHand' /\ Ahead'
    BY <1>14 DEF Shutdown, Control, InHand, Ahead, Handling, Closing, Contexts
  <2>. QED  BY <2>1, <2>2
<1>15. CASE Measure
  <2>1. PICK k \in todo, flow \in Flows :
             /\ want' = [want EXCEPT ![k] = DetermineTopics(flow, ctx[k].cfg)]
             /\ Reap(k)
             /\ todo' = todo \ {k}
             /\ at' = k
    BY <1>15 DEF Measure
  <2>2. k \in Keys /\ ctx[k] # NoCtx /\ ctx[k].cfg \in Cfgs /\ at = NoKey
    BY <1>15 DEF Measure, Control, Table, InHand, Ahead, Contexts, Handling, Closing
  <2>3. Control' /\ Table'
    BY <1>15, <2>1, <2>2 DEF Measure, Control, Table, Places
  <2>4. DetermineTopics(flow, ctx[k].cfg) \subseteq Topics
    BY <2>2, DetermineApart
  <2>5. Decoders'
    BY <2>1, <2>2, <2>4 DEF Reap, Decoders
  <2>6. InHand' /\ Ahead'
    BY <1>15, <2>1, <2>2 DEF Measure, Control, InHand, Ahead, Handling, Closing, Contexts
  <2>. QED  BY <2>3, <2>5, <2>6
<1>16. ASSUME Dropped, NEW S \in SUBSET Startable, Start(S), UNCHANGED <<want, todo, term, file, cfgs>>
       PROVE  Decoders' /\ Control' /\ at \in Keys /\ at' = NoKey
  <2>1. at \in Keys /\ S \subseteq Topics
    BY <1>16 DEF Dropped, Startable, InHand, Decoders, Handling
  <2>. QED  BY <1>16, <2>1 DEF Start, Decoders, Control, Places
<1>17. CASE Spawn
  <2>1. Decoders' /\ Control'
    BY <1>16, <1>17 DEF Spawn
  <2>2. Table'
    BY <1>17 DEF Spawn, Table
  <2>3. InHand' /\ Ahead'
    BY <1>17 DEF Spawn, Start, Dropped, InHand, Ahead, Handling, Closing, Contexts
  <2>. QED  BY <2>1, <2>2, <2>3
<1>18. CASE SpawnFails
  <2>1. PICK S \in SUBSET Startable \ {Startable} : Start(S)
    BY <1>18 DEF SpawnFails
  <2>2. Decoders' /\ Control' /\ at \in Keys /\ at' = NoKey
    BY <1>16, <1>18, <2>1 DEF SpawnFails
  <2>3. Table' /\ \A k \in Keys : ctx[k] # NoCtx => ctx'[k] # NoCtx
    BY <1>18, <2>2, AdjusterAssumption DEF SpawnFails, Table, NoCtx, InHand, Dropped
  <2>4. InHand' /\ Ahead'
    BY <1>18, <2>1, <2>2, <2>3
       DEF SpawnFails, Start, Dropped, Control, InHand, Ahead, Handling, Closing, Contexts
  <2>. QED  BY <2>2, <2>3, <2>4
<1>19. CASE MeasureFails
  <2>1. PICK k \in todo : /\ ctx' = [ctx EXCEPT ![k].err = TRUE]
                          /\ todo' = todo \ {k}
    BY <1>19 DEF MeasureFails
  <2>2. k \in Keys /\ ctx[k] # NoCtx /\ ctx[k].cfg # NoCfg
    BY <1>19 DEF MeasureFails, Control, Table, Ahead, Contexts
  <2>3. Control' /\ Decoders'
    BY <1>19, <2>1 DEF MeasureFails, Control, Decoders
  <2>4. Table' /\ \A j \in Keys : ctx[j] # NoCtx => ctx'[j] # NoCtx
    BY <2>1, <2>2 DEF Table, NoCtx
  <2>5. InHand' /\ Ahead'
    BY <1>19, <2>1, <2>4 DEF MeasureFails, Control, InHand, Ahead, Handling, Closing, Contexts
  <2>. QED  BY <2>3, <2>4, <2>5
<1>20. CASE EditFile \/ Sighup \/ Sigterm
  <2>1. Control' /\ Table' /\ Decoders'
    BY <1>20 DEF EditFile, Sighup, Sigterm, Control, Table, Decoders
  <2>2. InHand' /\ Ahead'
    BY <1>20 DEF EditFile, Sighup, Sigterm, InHand, Ahead, Contexts
  <2>. QED  BY <2>1, <2>2
<1>21. ASSUME NEW k \in Keys, NEW t \in Topics, Crash(k, t) PROVE Shape'
  <2>1. Control' /\ Table' /\ Decoders'
    BY <1>21 DEF Crash, Control, Table, Decoders
  <2>2. InHand' /\ Ahead'
    BY <1>21 DEF Crash, InHand, Ahead, Contexts
  <2>. QED  BY <2>1, <2>2
<1>22. CASE UNCHANGED vars
  BY <1>22 DEF vars, Control, Table, Decoders, InHand, Ahead, Contexts
<1>. QED
  BY <1>1, <1>2, <1>3, <1>4, <1>5, <1>6, <1>7, <1>8, <1>9, <1>10, <1>11, <1>12, <1>13,
     <1>14, <1>15, <1>17, <1>18, <1>19, <1>20, <1>21, <1>22
     DEF Next, Main, Failure, Around

-----------------------------------------------------------------------------
(***************************************************************************)
(* Processes: which ones there are, and which ones overlap.                *)
(***************************************************************************)
\* The decoders of a context that may still subscribe: the ones in active_decoders and
\* the one terminate_decoder waits for.
Held(k) == {t \in Topics : t \in active[k] \/ (at = k /\ term = t)}

Owned ==
  /\ \A k \in Keys, t \in Topics : proc[k][t] # "none" => t \in Held(k)
  /\ \A k \in Keys, t \in Topics : t \in active[k] => ctx[k] # NoCtx
  /\ pc \in {"ended", "refused"} => \A k \in Keys : active[k] = {}
  /\ pc = "shutdown" => \A k \in Keys : active[k] # {} => k \in todo \cup {at}

AllApart == \A k \in Keys : Apart(want[k]) /\ Apart(Held(k))

LEMMA OwnedInit == Init => Owned /\ AllApart
<1>. SUFFICES ASSUME Init PROVE Owned /\ AllApart
  OBVIOUS
<1>1. \A k \in Keys : Held(k) = {} /\ want[k] = {} /\ active[k] = {}
  BY NoTopicIsNone DEF Init, Held
<1>2. Owned
  BY <1>1 DEF Init, Owned
<1>. QED  BY <1>1, <1>2 DEF AllApart, Apart

\* What the contexts hold only changes where processes are ended, reaped or started.
LEMMA HeldFrame ==
  ASSUME Shape, UNCHANGED <<active, term>>, at' = at \/ term = NoTopic
  PROVE  \A k \in Keys : Held(k)' = Held(k)
BY NoTopicIsNone DEF Held, Shape, Control

\* When nobody is waited for, a context holds what active_decoders lists.
LEMMA HeldIsActive ==
  ASSUME Shape, term = NoTopic
  PROVE  \A k \in Keys : Held(k) = active[k]
BY NoTopicIsNone DEF Held, Shape, Decoders

\* The steps that change no process and no table of them.
LEMMA QuietStep ==
  ASSUME Shape, Owned, AllApart,
         UNCHANGED <<active, proc, term>>, at' = at \/ term = NoTopic,
         \A k \in Keys : want'[k] \in {want[k], {}},
         \A k \in Keys : active[k] # {} /\ ctx[k] # NoCtx => ctx'[k] # NoCtx,
         pc' \in {"ended", "refused"} => \A k \in Keys : active[k] = {},
         pc' = "shutdown" => \A k \in Keys : active[k] # {} => k \in todo' \cup {at'}
  PROVE  Owned' /\ AllApart'
<1>1. \A k \in Keys : Held(k)' = Held(k)
  BY HeldFrame
<1>2. Owned'
  BY <1>1 DEF Owned, Shape, Decoders
<1>3. \A k \in Keys : Apart(want'[k])
  BY DEF AllApart, Apart
<1>. QED  BY <1>1, <1>2, <1>3 DEF AllApart

\* Start adds topics the last measurement asked for, and the others are gone by then.
LEMMA StartStep ==
  ASSUME Shape, Owned, AllApart, Dropped, NEW S \in SUBSET Startable, Start(S),
         UNCHANGED <<want, term>>, \A k \in Keys : ctx[k] # NoCtx => ctx'[k] # NoCtx
  PROVE  Owned' /\ AllApart'
<1>1. /\ at \in Keys /\ ctx[at] # NoCtx /\ term = NoTopic /\ S \subseteq want[at]
      /\ want[at] \subseteq Topics
  BY AdjusterAssumption DEF Dropped, Startable, Shape, InHand, Decoders, Handling
<1>2. at # NoKey /\ pc' = "sweep" /\ term' = NoTopic
  BY <1>1, AdjusterAssumption DEF Start
<1>3. active'[at] \subseteq want[at]
  BY <1>1 DEF Dropped, Unwanted, Start, Shape, Decoders
<1>4. /\ \A k \in Keys : active[k] \subseteq active'[k]
      /\ \A k \in Keys \ {at} : active'[k] = active[k]
      /\ S \subseteq active'[at]
  BY <1>1 DEF Start, Shape, Decoders
<1>5. \A k \in Keys : Held(k) = active[k] /\ active[k] \subseteq Topics
  BY <1>1, HeldIsActive DEF Shape, Decoders
<1>6. \A k \in Keys : Held(k)' = active'[k]
  <2>1. \A k \in Keys : active'[k] \subseteq Topics
    BY <1>1, <1>3, <1>4, <1>5
  <2>. QED  BY <1>2, <2>1, NoTopicIsNone DEF Held
<1>7. Owned'
  <2>1. \A k \in Keys, t \in Topics : proc'[k][t] # "none" => t \in Held(k)'
    BY <1>1, <1>4, <1>5, <1>6 DEF Start, Owned, Shape, Decoders
  <2>2. \A k \in Keys, t \in Topics : t \in active'[k] => ctx'[k] # NoCtx
    BY <1>1, <1>4 DEF Owned
  <2>. QED  BY <1>2, <2>1, <2>2 DEF Owned
<1>8. AllApart'
  <2>1. \A k \in Keys : Apart(want[k]) /\ Apart(active[k])
    BY <1>5 DEF AllApart
  <2>2. Apart(active'[at])
    BY <1>1, <1>3, <2>1, ApartSubset
  <2>. QED  BY <1>4, <1>6, <2>1, <2>2 DEF AllApart
<1>. QED  BY <1>7, <1>8

LEMMA OwnedStep == Shape /\ Owned /\ AllApart /\ [Next]_vars => Owned' /\ AllApart'
<1>. SUFFICES ASSUME Shape, Owned, AllApart, [Next]_vars PROVE Owned' /\ AllApart'
  OBVIOUS
<1>0. /\ at # NoKey => pc \in Handling
      /\ term # NoTopic => at # NoKey /\ pc # "attach"
  BY DEF Shape, InHand
<1>. USE DEF signals, loop, state, history
<1>1. CASE Wake
  <2>1. \A k \in Keys : active[k] # {} => k \in Contexts
    BY DEF Owned, Shape, Decoders, Contexts
  <2>. QED  BY <1>1, <2>1, QuietStep DEF Wake
<1>2. CASE Round
  BY <1>2, QuietStep DEF Round
<1>3. CASE Load \/ Swept
  BY <1>3, QuietStep DEF Load, Swept
<1>4. CASE LoadFails \/ Applied
  <2>1. /\ pc' \in {"sweep", "refused", "wait"}
        /\ pc' = "refused" => Contexts = {}
    BY <1>4, ReloadedPlace DEF LoadFails, Applied
  <2>2. pc' = "refused" => \A k \in Keys : active[k] = {}
    BY <2>1 DEF Owned, Shape, Decoders, Contexts
  <2>. QED  BY <1>4, <2>1, <2>2, QuietStep DEF LoadFails, Applied
<1>5. CASE Retire \/ Visit
  <2>1. term = NoTopic /\ pc' \notin {"ended", "refused", "shutdown"}
    BY <1>0, <1>5 DEF Retire, Visit, Handling, Closing
  <2>. QED  BY <1>5, <2>1, QuietStep DEF Retire, Visit
<1>6. CASE Attach
  <2>1. at \in Keys /\ cfgs[at] # NoCfg /\ term = NoTopic /\ pc' = "apply"
    BY <1>0, <1>6 DEF Attach, Shape, InHand, Handling
  <2>2. \A k \in Keys : want'[k] \in {want[k], {}}
    BY <1>6, <2>1 DEF Attach, Forget, Shape, Decoders
  <2>3. \A k \in Keys : ctx[k] # NoCtx => ctx'[k] # NoCtx
    BY <1>6, <2>1 DEF Attach, Shape, Table, NoCtx
  <2>. QED  BY <1>6, <2>1, <2>2, <2>3, QuietStep DEF Attach
<1>7. CASE AttachFails
  BY <1>0, <1>7, QuietStep DEF AttachFails
<1>8. CASE Terminate
  <2>1. PICK t \in Unwanted :
             /\ term' = t
             /\ active' = [active EXCEPT ![at] = @ \ {t}]
             /\ proc' = [proc EXCEPT ![at][t] = IF @ = "up" THEN "dying" ELSE @]
    BY <1>8 DEF Terminate
  <2>2. at \in Keys /\ t \in Topics /\ t \in active[at] /\ term = NoTopic
    BY <1>8, AdjusterAssumption
       DEF Terminate, Unwanted, Shape, Control, Decoders, InHand, Handling, Closing
  <2>3. \A k \in Keys : Held(k)' = Held(k)
    BY <1>8, <2>1, <2>2, NoTopicIsNone DEF Terminate, Held, Shape, Decoders
  <2>4. \A k \in Keys : active'[k] \subseteq active[k]
    BY <2>1, <2>2 DEF Shape, Decoders
  <2>5. \A k \in Keys, s \in Topics : proc'[k][s] # "none" => proc[k][s] # "none"
    BY <2>1, <2>2 DEF Shape, Decoders
  <2>6. Owned'
    BY <1>8, <2>3, <2>4, <2>5 DEF Terminate, Owned
  <2>. QED  BY <1>8, <2>3, <2>6 DEF Terminate, AllApart
<1>9. CASE Terminated
  <2>1. at \in Keys /\ term \in Topics
    BY <1>0, <1>9 DEF Terminated, Shape, Control
  <2>2. \A k \in Keys : Held(k)' \subseteq Held(k)
    BY <1>9, NoTopicIsNone DEF Terminated, Held
  <2>3. \A k \in Keys, t \in Topics : proc'[k][t] # "none" => t \in Held(k)'
    BY <1>9, <2>1 DEF Terminated, Owned, Held, Shape, Decoders
  <2>4. Owned'
    BY <1>9, <2>3 DEF Terminated, Owned
  <2>5. AllApart'
    BY <1>9, <2>2, ApartSubset DEF Terminated, AllApart
  <2>. QED  BY <2>4, <2>5
<1>10. CASE Closed
  <2>1. at \in Keys /\ term = NoTopic /\ active[at] = {} /\ pc \in Closing
    BY <1>10 DEF Closed, Shape, Control
  <2>2. \A k \in Keys : want'[k] \in {want[k], {}}
    BY <1>10, <2>1 DEF Closed, Forget, Shape, Decoders
  <2>3. \A k \in Keys \ {at} : ctx'[k] = ctx[k]
    BY <1>10, <2>1 DEF Closed, Shape, Table
  <2>4. /\ pc' \notin {"ended", "refused"}
        /\ pc' = "shutdown" => pc = "shutdown"
    BY <1>10, <2>1 DEF Closed, Closing
  <2>5. pc' = "shutdown" => \A k \in Keys : active[k] # {} => k \in todo' \cup {at'}
    BY <1>10, <2>1, <2>4 DEF Closed, Owned
  <2>. QED  BY <1>10, <2>1, <2>2, <2>3, <2>4, <2>5, QuietStep DEF Closed
<1>11. CASE Shutdown
  <2>1. term = NoTopic /\ NoKey \notin Keys
    BY <1>0, <1>11, AdjusterAssumption DEF Shutdown
  <2>2. CASE todo = {}
    <3>1. \A k \in Keys : active[k] = {}
      BY <1>11, <2>1, <2>2 DEF Shutdown, Owned
    <3>. QED  BY <1>11, <2>2, <3>1, QuietStep DEF Shutdown
  <2>3. CASE todo # {}
    <3>1. \A k \in Keys : active[k] # {} => k \in todo' \cup {at'}
      BY <1>11, <2>1, <2>3 DEF Shutdown, Owned
    <3>. QED  BY <1>11, <2>1, <2>3, <3>1, QuietStep DEF Shutdown
  <2>. QED  BY <2>2, <2>3
<1>12. CASE Measure
  <2>1. PICK k \in todo, flow \in Flows :
             /\ want' = [want EXCEPT ![k] = DetermineTopics(flow, ctx[k].cfg)]
             /\ Reap(k)
             /\ at' = k
    BY <1>12 DEF Measure
  <2>2. /\ k \in Keys /\ ctx[k].cfg \in Cfgs /\ term = NoTopic /\ term' = NoTopic
        /\ UNCHANGED ctx /\ pc' = "drop"
    BY <1>0, <1>12 DEF Measure, Shape, Control, Table, Ahead, Contexts, Handling, Closing
  <2>3. /\ \A j \in Keys : active'[j] \subseteq active[j] /\ active[j] \subseteq Topics
        /\ \A j \in Keys, t \in Topics :
             t \in active[j] /\ proc'[j][t] # "none" => t \in active'[j]
        /\ \A j \in Keys, t \in Topics : proc'[j][t] # "none" => proc[j][t] # "none"
    BY <2>1, <2>2 DEF Reap, Shape, Decoders
  <2>4. \A j \in Keys : Held(j) = active[j] /\ Held(j)' = active'[j]
    <3>1. \A j \in Keys : active'[j] \subseteq Topics
      BY <2>3
    <3>. QED  BY <2>2, <2>3, <3>1, NoTopicIsNone DEF Held
  <2>5. Owned'
    BY <2>2, <2>3, <2>4 DEF Owned
  <2>6. \A j \in Keys : Apart(Held(j)')
    BY <2>3, <2>4, ApartSubset DEF AllApart
  <2>7. \A j \in Keys : Apart(want'[j])
    BY <2>1, <2>2, DetermineApart DEF AllApart, Shape, Decoders
  <2>. QED  BY <2>5, <2>6, <2>7 DEF AllApart
<1>13. CASE Spawn
  BY <1>13, StartStep DEF Spawn
<1>14. CASE SpawnFails
  <2>1. at \in Keys /\ ctx[at].cfg # NoCfg
    BY <1>14, AdjusterAssumption
       DEF SpawnFails, Dropped, Shape, InHand, Table, Handling
  <2>2. \A k \in Keys : ctx[k] # NoCtx => ctx'[k] # NoCtx
    BY <1>14, <2>1 DEF SpawnFails, Shape, Table, NoCtx
  <2>. QED  BY <1>14, <2>2, StartStep DEF SpawnFails
<1>15. CASE MeasureFails
  <2>1. PICK k \in todo : ctx' = [ctx EXCEPT ![k].err = TRUE]
    BY <1>15 DEF MeasureFails
  <2>2. k \in Keys /\ ctx[k].cfg # NoCfg
    BY <1>15 DEF MeasureFails, Shape, Control, Table, Ahead, Contexts
  <2>3. \A j \in Keys : ctx[j] # NoCtx => ctx'[j] # NoCtx
    BY <2>1, <2>2 DEF Shape, Table, NoCtx
  <2>. QED  BY <1>15, <2>3, QuietStep DEF MeasureFails
<1>16. CASE EditFile \/ Sighup \/ Sigterm
  BY <1>16, QuietStep DEF EditFile, Sighup, Sigterm, Owned
<1>17. ASSUME NEW k \in Keys, NEW t \in Topics, Crash(k, t) PROVE Owned' /\ AllApart'
  <2>1. \A j \in Keys, s \in Topics : proc'[j][s] # "none" => proc[j][s] # "none"
    BY <1>17 DEF Crash, Shape, Decoders
  <2>2. \A j \in Keys : Held(j)' = Held(j)
    BY <1>17 DEF Crash, Held
  <2>. QED  BY <1>17, <2>1, <2>2 DEF Crash, Owned, AllApart
<1>18. CASE UNCHANGED vars
  BY <1>18, QuietStep DEF vars, Owned
<1>. QED
  BY <1>1, <1>2, <1>3, <1>4, <1>5, <1>6, <1>7, <1>8, <1>9, <1>10, <1>11, <1>12, <1>13,
     <1>14, <1>15, <1>16, <1>17, <1>18 DEF Next, Main, Failure, Around

-----------------------------------------------------------------------------
(***************************************************************************)
(* What the contexts are, and what is reported of them.                    *)
(***************************************************************************)
\* Between reloads the contexts are those of the list read last; while it is applied the
\* ones that differ are still to be visited, or obsolete, or in hand.
Listed ==
  /\ pc \in {"load", "wait", "sweep", "drop"} =>
       \A k \in Keys \ broken : ctx[k].cfg = cfgs[k]
  /\ pc \in {"apply", "remove", "replace", "attach"} =>
       \A k \in Keys \ broken :
         ctx[k].cfg = cfgs[k] \/ k \in todo \/ k \in Obsolete \/ k = at

\* The entry of every context is up to date, but for the one in hand.
Reported ==
  /\ pc \in {"load", "wait", "sweep", "drop", "apply", "remove", "replace", "attach"} =>
       \A k \in Contexts \ {at} :
         /\ metrics[k].n = Cardinality(active[k])
         /\ metrics[k].healthy => Healthy(k)
  /\ pc = "attach" => active[at] = {}

Pending == unread /\ Alive => reload \/ pc = "load"

LEMMA PendingStep == Pending /\ [Next]_vars => Pending'
<1>. SUFFICES ASSUME Pending, [Next]_vars PROVE Pending'
  OBVIOUS
<1>. USE DEF Pending, Alive, signals, loop, state, history
<1>1. CASE Wake \/ Round \/ Swept
  BY <1>1 DEF Wake, Round, Swept
<1>2. CASE Load \/ LoadFails
  BY <1>2 DEF Load, LoadFails
<1>3. CASE Retire \/ Visit
  BY <1>3 DEF Retire, Visit
<1>4. CASE Applied
  BY <1>4, ReloadedPlace DEF Applied
<1>5. CASE Attach \/ AttachFails
  BY <1>5 DEF Attach, AttachFails
<1>6. CASE Terminate \/ Terminated
  BY <1>6 DEF Terminate, Terminated
<1>7. CASE Closed
  BY <1>7 DEF Closed, Closing
<1>8. CASE Shutdown
  BY <1>8 DEF Shutdown
<1>9. CASE Measure \/ MeasureFails
  BY <1>9 DEF Measure, MeasureFails
<1>10. CASE Spawn \/ SpawnFails
  BY <1>10 DEF Spawn, SpawnFails, Start, Dropped
<1>11. CASE EditFile \/ Sighup \/ Sigterm
  BY <1>11 DEF EditFile, Sighup, Sigterm
<1>12. ASSUME NEW k \in Keys, NEW t \in Topics, Crash(k, t) PROVE Pending'
  BY <1>12 DEF Crash
<1>13. CASE UNCHANGED vars
  BY <1>13 DEF vars
<1>. QED
  BY <1>1, <1>2, <1>3, <1>4, <1>5, <1>6, <1>7, <1>8, <1>9, <1>10, <1>11, <1>12, <1>13
     DEF Next, Main, Failure, Around

LEMMA ListedStep == Shape /\ Listed /\ [Next]_vars => Listed'
<1>. SUFFICES ASSUME Shape, Listed, [Next]_vars PROVE Listed'
  OBVIOUS
<1>0. /\ at # NoKey => pc \in Handling
      /\ pc \in {"attach", "drop", "remove", "replace"} => at \in Keys
      /\ \A k \in Keys : ctx[k].cfg = NoCfg => ctx[k] = NoCtx
      /\ NoCtx.cfg = NoCfg
  BY DEF Shape, InHand, Table, NoCtx, Handling, Closing
<1>. USE DEF signals, loop, state, history
<1>1. CASE Wake \/ Round \/ Swept
  BY <1>1 DEF Wake, Round, Swept, Listed
<1>2. CASE Load
  <2>1. \A k \in Keys \ broken : k \in todo' \/ k \in Obsolete' \/ ctx[k].cfg = cfgs'[k]
    BY <1>0, <1>2 DEF Load, Obsolete, Contexts
  <2>. QED  BY <1>2, <2>1 DEF Load, Listed
<1>3. CASE LoadFails
  BY <1>3, ReloadedPlace DEF LoadFails, Listed
<1>4. CASE Retire
  <2>1. at = NoKey /\ NoKey \notin Keys /\ UNCHANGED <<ctx, cfgs, todo, broken>>
    BY <1>0, <1>4, AdjusterAssumption DEF Retire, Handling, Closing
  <2>2. Obsolete' = Obsolete
    BY <2>1 DEF Obsolete, Contexts
  <2>. QED  BY <1>4, <2>1, <2>2 DEF Retire, Listed
<1>5. CASE Visit
  <2>1. at = NoKey /\ NoKey \notin Keys /\ UNCHANGED <<ctx, cfgs, broken>>
    BY <1>0, <1>5, AdjusterAssumption DEF Visit, Handling, Closing
  <2>2. Obsolete' = Obsolete
    BY <2>1 DEF Obsolete, Contexts
  <2>. QED  BY <1>5, <2>1, <2>2 DEF Visit, Listed
<1>6. CASE Applied
  <2>1. \A k \in Keys \ broken : ctx[k].cfg = cfgs[k]
    BY <1>0, <1>6, AdjusterAssumption DEF Applied, Listed, Handling, Closing
  <2>. QED  BY <1>6, <2>1, ReloadedPlace DEF Applied, Listed
<1>7. CASE Attach
  <2>1. ctx'[at].cfg = cfgs[at] /\ \A k \in Keys \ {at} : ctx'[k] = ctx[k]
    BY <1>0, <1>7 DEF Attach, Shape, Table
  <2>2. \A k \in Keys \ {at} : k \in Obsolete <=> k \in Obsolete'
    BY <1>7, <2>1 DEF Attach, Obsolete, Contexts
  <2>. QED  BY <1>7, <2>1, <2>2 DEF Attach, Listed
<1>8. CASE AttachFails
  <2>1. Obsolete' = Obsolete
    BY <1>8 DEF AttachFails, Obsolete, Contexts
  <2>. QED  BY <1>8, <2>1 DEF AttachFails, Listed
<1>9. CASE Terminate \/ Terminated
  <2>1. Obsolete' = Obsolete /\ UNCHANGED <<pc, at, todo, ctx, cfgs, broken>>
    BY <1>9 DEF Terminate, Terminated, Obsolete, Contexts
  <2>. QED  BY <2>1 DEF Listed
<1>10. CASE Closed
  <2>1. at \in Keys /\ UNCHANGED <<cfgs, todo>>
    BY <1>10 DEF Closed, Shape, Control
  <2>2. CASE pc = "remove"
    <3>1. cfgs[at] = NoCfg
      BY <2>2 DEF Shape, InHand
    <3>2. ctx'[at].cfg = NoCfg /\ \A k \in Keys \ {at} : ctx'[k] = ctx[k]
      BY <1>0, <1>10, <2>1, <2>2 DEF Closed, Shape, Table
    <3>3. \A k \in Keys \ {at} : k \in Obsolete <=> k \in Obsolete'
      BY <2>1, <3>2 DEF Obsolete, Contexts
    <3>. QED  BY <1>10, <2>1, <2>2, <3>1, <3>2, <3>3 DEF Closed, Listed
  <2>3. CASE pc = "replace"
    <3>1. \A k \in Keys \ {at} : ctx'[k] = ctx[k]
      BY <1>10, <2>1, <2>3 DEF Closed, Shape, Table
    <3>2. \A k \in Keys \ {at} : k \in Obsolete <=> k \in Obsolete'
      BY <2>1, <3>1 DEF Obsolete, Contexts
    <3>. QED  BY <1>10, <2>1, <2>3, <3>1, <3>2 DEF Closed, Listed
  <2>4. CASE pc = "shutdown"
    BY <1>10, <2>4 DEF Closed, Listed
  <2>. QED  BY <1>10, <2>2, <2>3, <2>4 DEF Closed, Closing
<1>11. CASE Shutdown
  BY <1>11 DEF Shutdown, Listed
<1>12. CASE Measure \/ Spawn
  BY <1>12 DEF Measure, Spawn, Start, Dropped, Listed
<1>13. CASE MeasureFails \/ SpawnFails
  <2>1. /\ pc \in {"sweep", "drop"} /\ pc' \in {"sweep", "drop"} /\ UNCHANGED <<cfgs, broken>>
        /\ \E j \in Keys : ctx' = [ctx EXCEPT ![j].err = TRUE]
    BY <1>0, <1>13 DEF MeasureFails, SpawnFails, Start, Dropped, Shape, Control
  <2>2. \A k \in Keys : ctx'[k].cfg = ctx[k].cfg
    BY <2>1 DEF Shape, Table
  <2>. QED  BY <2>1, <2>2 DEF Listed
<1>14. CASE EditFile \/ Sighup \/ Sigterm
  BY <1>14 DEF EditFile, Sighup, Sigterm, Listed, Obsolete, Contexts
<1>15. ASSUME NEW k \in Keys, NEW t \in Topics, Crash(k, t) PROVE Listed'
  BY <1>15 DEF Crash, Listed, Obsolete, Contexts
<1>16. CASE UNCHANGED vars
  BY <1>16 DEF vars, Listed, Obsolete, Contexts
<1>. QED
  BY <1>1, <1>2, <1>3, <1>4, <1>5, <1>6, <1>7, <1>8, <1>9, <1>10, <1>11, <1>12, <1>13,
     <1>14, <1>15, <1>16 DEF Next, Main, Failure, Around

\* A context outside the step keeps what is reported of it.
LEMMA KeptReport ==
  ASSUME Reported, NEW k \in Contexts \ {at},
         pc \in {"load", "wait", "sweep", "drop", "apply", "remove", "replace", "attach"},
         UNCHANGED <<ctx[k], active[k], metrics[k]>>
  PROVE  /\ metrics'[k].n = Cardinality(active'[k])
         /\ metrics'[k].healthy => Healthy(k)'
BY DEF Reported, Healthy

LEMMA ReportedStep == TypeOK /\ Shape /\ Owned /\ Reported /\ [Next]_vars => Reported'
<1>. SUFFICES ASSUME TypeOK, Shape, Owned, Reported, [Next]_vars PROVE Reported'
  OBVIOUS
<1>0. /\ at # NoKey => pc \in Handling
      /\ pc \in {"attach", "drop", "remove", "replace"} => at \in Keys
      /\ NoKey \notin Keys
      /\ \A k \in Keys : active[k] # {} => ctx[k] # NoCtx
  BY AdjusterAssumption DEF Shape, InHand, Handling, Closing, Owned, Decoders
<1>. USE DEF signals, loop, state, history
<1>1. CASE Wake
  BY <1>1 DEF Wake, Reported
<1>2. CASE Round \/ Swept \/ Load \/ Retire
  BY <1>0, <1>2 DEF Round, Swept, Load, Retire, Reported, Healthy, Contexts, Obsolete,
                   Handling, Closing
<1>3. CASE LoadFails \/ Applied
  BY <1>0, <1>3, ReloadedPlace
     DEF LoadFails, Applied, Reported, Healthy, Contexts, Handling, Closing
<1>4. CASE Visit
  BY <1>0, <1>4 DEF Visit, Reported, Healthy, Contexts, Handling, Closing, Shape, Control
<1>5. CASE Attach \/ AttachFails
  <2>1. at \in Keys /\ active[at] = {} /\ pc' = "apply" /\ UNCHANGED active
    BY <1>0, <1>5 DEF Attach, AttachFails, Reported
  <2>2. \A k \in Keys \ {at} : UNCHANGED <<ctx[k], active[k], metrics[k]>>
    BY <1>5, <2>1 DEF Attach, AttachFails, Report, TypeOK
  <2>3. ASSUME NEW k \in Keys, k = at
        PROVE  metrics'[k].n = Cardinality(active'[k]) /\ (metrics'[k].healthy => Healthy(k)')
    <3>1. Cardinality({}) = 0
      BY FS_EmptySet
    <3>2. CASE Attach
      <4>1. metrics'[k] = [healthy |-> TRUE, n |-> 0]
        BY <2>1, <2>3, <3>2 DEF Attach, Report, TypeOK
      <4>2. ctx'[k] = [cfg |-> cfgs[at], probed |-> TRUE, err |-> FALSE]
        BY <2>1, <2>3, <3>2 DEF Attach, TypeOK
      <4>. QED  BY <2>1, <2>3, <3>1, <4>1, <4>2 DEF Healthy, NoCtx
    <3>3. CASE AttachFails
      BY <2>1, <2>3, <3>1, <3>3 DEF AttachFails, Report, TypeOK
    <3>. QED  BY <1>5, <3>2, <3>3
  <2>4. ASSUME NEW k \in Contexts'
        PROVE  metrics'[k].n = Cardinality(active'[k]) /\ (metrics'[k].healthy => Healthy(k)')
    <3>1. k \in Keys
      BY <2>4 DEF Contexts
    <3>2. CASE k = at
      BY <2>3, <3>1, <3>2, Zenon
    <3>3. CASE k # at
      <4>1. UNCHANGED <<ctx[k], active[k], metrics[k]>>
        BY <2>2, <3>1, <3>3
      <4>2. k \in Contexts \ {at}
        BY <2>4, <3>1, <3>3, <4>1 DEF Contexts
      <4>3. pc = "attach"
        BY <1>5 DEF Attach, AttachFails
      <4>. QED  BY <4>1, <4>2, <4>3, KeptReport
    <3>. QED  BY <3>2, <3>3
  <2>. QED  BY <2>1, <2>4 DEF Reported
<1>6. CASE Terminate
  <2>1. at # NoKey /\ at \in Keys /\ pc # "attach" /\ UNCHANGED <<pc, at, ctx, metrics>>
    BY <1>0, <1>6 DEF Terminate, Unwanted, Shape, Control, Closing
  <2>2. \A k \in Keys \ {at} : UNCHANGED <<ctx[k], active[k], metrics[k]>>
    BY <1>6, <2>1 DEF Terminate, Shape, Decoders
  <2>. QED  BY <2>1, <2>2, KeptReport DEF Reported, Contexts
<1>7. CASE Terminated
  BY <1>7 DEF Terminated, Reported, Contexts, Healthy
<1>8. CASE Closed
  <2>1. at \in Keys /\ active[at] = {} /\ UNCHANGED active
    BY <1>8 DEF Closed, Shape, Control
  <2>2. \A k \in Keys \ {at} : UNCHANGED <<ctx[k], active[k], metrics[k]>>
    BY <1>8, <2>1 DEF Closed, TypeOK
  <2>3. CASE pc = "remove"
    <3>1. at \notin Contexts' /\ pc' = "apply"
      BY <1>8, <2>1, <2>3 DEF Closed, Contexts, TypeOK
    <3>. QED  BY <2>2, <2>3, <3>1, KeptReport DEF Reported, Contexts
  <2>4. CASE pc = "replace"
    BY <1>8, <2>1, <2>2, <2>4, KeptReport DEF Closed, Reported, Contexts
  <2>5. CASE pc = "shutdown"
    BY <1>8, <2>5 DEF Closed, Reported
  <2>. QED  BY <1>8, <2>3, <2>4, <2>5 DEF Closed, Closing
<1>9. CASE Shutdown
  BY <1>9 DEF Shutdown, Reported
<1>10. CASE Measure
  <2>1. PICK k \in todo : Reap(k) /\ Report(k, Healthy(k), Cardinality(active[k])) /\ at' = k
    BY <1>10 DEF Measure
  <2>2. k \in Keys /\ at = NoKey /\ pc' = "drop" /\ UNCHANGED ctx
    BY <1>0, <1>10 DEF Measure, Shape, Control, Handling, Closing
  <2>3. \A j \in Keys \ {k} : UNCHANGED <<ctx[j], active[j], metrics[j]>>
    BY <2>1, <2>2 DEF Reap, Report, TypeOK
  <2>. QED  BY <1>0, <1>10, <2>1, <2>2, <2>3, KeptReport DEF Measure, Reported, Contexts
<1>11. CASE MeasureFails
  <2>1. PICK k \in todo : Report(k, FALSE, Cardinality(active[k]))
                          /\ ctx' = [ctx EXCEPT ![k].err = TRUE]
    BY <1>11 DEF MeasureFails
  <2>2. k \in Contexts /\ at = NoKey /\ at' = NoKey /\ pc' = "sweep" /\ UNCHANGED active
    BY <1>0, <1>11 DEF MeasureFails, Shape, Ahead, Handling, Closing
  <2>3. \A j \in Keys \ {k} : UNCHANGED <<ctx[j], active[j], metrics[j]>>
    BY <2>1, <2>2 DEF Report, TypeOK, Contexts
  <2>4. metrics'[k].n = Cardinality(active'[k]) /\ ~metrics'[k].healthy
    BY <2>1, <2>2 DEF Report, TypeOK, Contexts
  <2>. QED  BY <1>0, <1>11, <2>2, <2>3, <2>4, KeptReport DEF MeasureFails, Reported, Contexts
<1>12. CASE Spawn
  <2>1. at \in Keys /\ pc = "drop" /\ pc' = "sweep" /\ at' = NoKey
        /\ Report(at, Healthy(at), Cardinality(active'[at])) /\ UNCHANGED ctx
    BY <1>0, <1>12 DEF Spawn, Start, Dropped
  <2>2. \A k \in Keys \ {at} : UNCHANGED <<ctx[k], active[k], metrics[k]>>
    BY <1>12, <2>1 DEF Spawn, Start, Report, TypeOK
  <2>3. metrics'[at].n = Cardinality(active'[at]) /\ metrics'[at].healthy = Healthy(at)
    BY <2>1 DEF Report, TypeOK
  <2>. QED  BY <1>0, <2>1, <2>2, <2>3, KeptReport DEF Reported, Contexts, Healthy
<1>13. CASE SpawnFails
  <2>1. /\ at \in Keys /\ pc = "drop" /\ pc' = "sweep" /\ at' = NoKey
        /\ Report(at, FALSE, Cardinality(active'[at])) /\ ctx' = [ctx EXCEPT ![at].err = TRUE]
        /\ \E S : active' = [active EXCEPT ![at] = @ \cup S]
    BY <1>0, <1>13 DEF SpawnFails, Start, Dropped
  <2>2. \A k \in Keys \ {at} : UNCHANGED <<ctx[k], active[k], metrics[k]>>
    BY <2>1 DEF Report, TypeOK
  <2>3. metrics'[at].n = Cardinality(active'[at]) /\ ~metrics'[at].healthy
    BY <2>1 DEF Report, TypeOK
  <2>. QED  BY <1>0, <2>1, <2>2, <2>3, KeptReport DEF Reported, Contexts
<1>14. CASE EditFile \/ Sighup \/ Sigterm
  BY <1>14 DEF EditFile, Sighup, Sigterm, Reported, Contexts, Healthy
<1>15. ASSUME NEW k \in Keys, NEW t \in Topics, Crash(k, t) PROVE Reported'
  BY <1>15 DEF Crash, Reported, Contexts, Healthy
<1>16. CASE UNCHANGED vars
  BY <1>16 DEF vars, Reported, Contexts, Healthy
<1>. QED
  BY <1>1, <1>2, <1>3, <1>4, <1>5, <1>6, <1>7, <1>8, <1>9, <1>10, <1>11, <1>12, <1>13,
     <1>14, <1>15, <1>16 DEF Next, Main, Failure, Around

-----------------------------------------------------------------------------
(***************************************************************************)
(* Types of the counts, and finite sets of decoders.                       *)
(***************************************************************************)
FailRange == [count : 0 .. Threshold, age : 0 .. Window + 1]

\* A decoder that is in the table was allowed to start.
Failures ==
  /\ fails \in [Keys -> [Topics -> FailRange]]
  /\ streak \in [Keys -> [Topics -> 0 .. Threshold]]
  /\ \A k \in Keys : \A t \in active[k] : Allowed(fails[k][t])

Entries ==
  /\ metrics \in [Keys -> [healthy : BOOLEAN, n : Nat \cup {-1}]]
  /\ \A k \in Keys : IsFiniteSet(want[k]) /\ IsFiniteSet(active[k])

Flags ==
  /\ reload \in BOOLEAN /\ stop \in BOOLEAN /\ ready \in BOOLEAN /\ unread \in BOOLEAN
  /\ broken \subseteq Keys /\ budget \in [Resources -> Nat]

LEMMA TypeParts == Shape /\ Failures /\ Entries /\ Flags => TypeOK
BY DEF Shape, Control, Table, Decoders, Failures, FailRange, Entries, Flags, TypeOK, Places

LEMMA NoFailType == NoFail \in FailRange /\ Allowed(NoFail) /\ NoFails \in [Topics -> FailRange]
BY AdjusterAssumption DEF NoFail, NoFails, FailRange, Allowed

LEMMA LaterType ==
  ASSUME NEW f \in FailRange, NEW d \in Nat
  PROVE  Later(f, d) \in FailRange /\ (Allowed(f) => Allowed(Later(f, d)))
BY AdjusterAssumption DEF Later, FailRange, Allowed

LEMMA MarkType ==
  ASSUME NEW f \in FailRange, Allowed(f)
  PROVE  Mark(f) \in FailRange
BY AdjusterAssumption DEF Mark, FailRange, Allowed

LEMMA DetermineFinite ==
  ASSUME NEW c \in Cfgs, NEW flow \in Flows
  PROVE  IsFiniteSet(DetermineTopics(flow, c))
<1>1. c.modules \in Int /\ c.units \in Int /\ 1 \in Int /\ flow \in {"low", "mid", "high"}
  BY AdjusterAssumption
<1>2. /\ IsFiniteSet(1 .. c.modules)
      /\ IsFiniteSet(1 .. c.units)
  <2>1. \A n \in Int : IsFiniteSet(1 .. n)
    BY FS_Interval
  <2>. QED  BY <1>1, <2>1
<1>3. IsFiniteSet({<<>>})
  BY FS_Singleton
<1>4. IsFiniteSet(Modules(c))
  <2>. DEFINE f == [m \in 1 .. c.modules |-> <<m>>]
  <2>1. f \in Surjection(1 .. c.modules, Modules(c))
    BY DEF Surjection, Modules
  <2>. QED  BY <1>2, <2>1, FS_Surjection
<1>5. IsFiniteSet(Units(c))
  <2>. DEFINE P == (1 .. c.modules) \X (1 .. c.units)
              f == [p \in P |-> <<p[1], p[2]>>]
  <2>1. IsFiniteSet(P)
    BY <1>2, FS_Product
  <2>2. f \in [P -> Units(c)]
    BY DEF Units
  <2>3. ASSUME NEW t \in Units(c) PROVE \E p \in P : f[p] = t
    <3>1. PICK m \in 1 .. c.modules, u \in 1 .. c.units : t = <<m, u>>
      BY DEF Units
    <3>2. <<m, u>> \in P /\ f[<<m, u>>] = t
      BY <3>1
    <3>. QED  BY <3>2
  <2>4. f \in Surjection(P, Units(c))
    BY <2>2, <2>3 DEF Surjection
  <2>. QED  BY <2>1, <2>4, FS_Surjection
<1>. QED  BY <1>1, <1>3, <1>4, <1>5 DEF DetermineTopics

LEMMA SpendType ==
  ASSUME Flags, NEW r \in Resources, Spend(r)
  PROVE  budget' \in [Resources -> Nat]
<1>1. CASE r \in Events
  BY <1>1 DEF Flags, Spend, Resources, Events
<1>2. CASE r \notin Events
  BY <1>2 DEF Flags, Spend, Resources, Events
<1>. QED  BY <1>1, <1>2

LEMMA FlagsStep == Shape /\ Flags /\ [Next]_vars => Flags'
<1>. SUFFICES ASSUME Shape, Flags, [Next]_vars PROVE Flags'
  OBVIOUS
<1>. USE DEF Flags, signals, loop, state, history
<1>0. /\ pc = "attach" => at \in Keys
      /\ ready' = (ready \/ Contexts # {}) => ready' \in BOOLEAN
      /\ \A r \in Resources : Spend(r) => budget' \in [Resources -> Nat]
      /\ {"edit", "hup", "crash", "fault"} \subseteq Resources
  BY SpendType DEF Shape, InHand, Handling, Closing, Resources, Events
<1>1. CASE Wake \/ Swept \/ Retire \/ Visit \/ Shutdown \/ Terminate \/ Terminated \/ Measure \/ Spawn
  BY <1>1 DEF Wake, Swept, Retire, Visit, Shutdown, Terminate, Terminated, Measure, Reap, Spawn
<1>2. CASE Round
  <2>1. reload' \in BOOLEAN
    BY <1>2, Zenon DEF Round
  <2>. QED  BY <1>2, <2>1 DEF Round
<1>3. CASE Load
  <2>1. unread' \in BOOLEAN
    BY <1>3, Zenon DEF Load
  <2>. QED  BY <1>3, <2>1 DEF Load
<1>4. CASE LoadFails
  <2>1. unread' \in BOOLEAN /\ ready' \in BOOLEAN
    BY <1>4, Zenon DEF LoadFails, Reloaded
  <2>. QED  BY <1>4, <2>1 DEF LoadFails, Reloaded
<1>5. CASE Applied
  <2>1. ready' \in BOOLEAN
    BY <1>5, Zenon DEF Applied, Reloaded
  <2>. QED  BY <1>5, <2>1 DEF Applied, Reloaded
<1>6. CASE Attach \/ Closed
  BY <1>6 DEF Attach, Closed
<1>7. CASE AttachFails
  BY <1>0, <1>7 DEF AttachFails
<1>8. CASE MeasureFails \/ SpawnFails
  BY <1>0, <1>8 DEF MeasureFails, SpawnFails
<1>9. CASE EditFile
  BY <1>0, <1>9 DEF EditFile
<1>10. CASE Sighup
  <2>1. reload' \in BOOLEAN /\ unread' \in BOOLEAN
    BY <1>10, Zenon DEF Sighup
  <2>. QED  BY <1>0, <1>10, <2>1 DEF Sighup
<1>11. CASE Sigterm
  <2>1. stop' \in BOOLEAN
    BY <1>11, Zenon DEF Sigterm
  <2>. QED  BY <1>11, <2>1 DEF Sigterm
<1>12. ASSUME NEW k \in Keys, NEW t \in Topics, Crash(k, t) PROVE Flags'
  BY <1>0, <1>12 DEF Crash
<1>13. CASE UNCHANGED vars
  BY <1>13 DEF vars
<1>. QED
  BY <1>1, <1>2, <1>3, <1>4, <1>5, <1>6, <1>7, <1>8, <1>9, <1>10, <1>11, <1>12, <1>13
     DEF Next, Main, Failure, Around

LEMMA EntriesStep == Shape /\ Entries /\ [Next]_vars => Entries'
<1>. SUFFICES ASSUME Shape, Entries, [Next]_vars PROVE Entries'
  OBVIOUS
<1>. USE DEF signals, loop, state, history
<1>0. /\ pc \in {"attach", "drop"} => at \in Keys
      /\ \A k \in Keys, h \in BOOLEAN, n \in Nat \cup {-1} :
           Report(k, h, n) => metrics' \in [Keys -> [healthy : BOOLEAN, n : Nat \cup {-1}]]
  BY DEF Shape, InHand, Handling, Closing, Report, Entries
<1>1. IsFiniteSet({}) /\ \A S : IsFiniteSet(S) => Cardinality(S) \in Nat
  BY FS_EmptySet, FS_CardinalityType
<1>2. \A k \in Keys : Cardinality(active[k]) \in Nat /\ Healthy(k) \in BOOLEAN
  BY <1>1 DEF Entries, Healthy, Shape, Table
<1>3. CASE UNCHANGED <<want, active, metrics>>
  BY <1>3 DEF Entries
<1>4. CASE Attach \/ AttachFails
  <2>1. at \in Keys /\ active' = active /\ metrics' \in [Keys -> [healthy : BOOLEAN, n : Nat \cup {-1}]]
    BY <1>0, <1>4 DEF Attach, AttachFails
  <2>2. \A k \in Keys : want'[k] \in {want[k], {}}
    BY <1>4, <2>1 DEF Attach, AttachFails, Forget, Shape, Decoders
  <2>. QED  BY <1>1, <2>1, <2>2 DEF Entries
<1>5. CASE Terminate
  <2>1. at \in Keys /\ UNCHANGED <<want, metrics>>
    BY <1>5, AdjusterAssumption
       DEF Terminate, Unwanted, Shape, Control, InHand, Handling, Closing
  <2>2. \A k \in Keys : active'[k] \in SUBSET active[k]
    BY <1>5, <2>1 DEF Terminate, Shape, Decoders
  <2>. QED  BY <2>1, <2>2, FS_Subset DEF Entries
<1>6. CASE Closed
  <2>1. at \in Keys /\ active' = active /\ NoMetric \in [healthy : BOOLEAN, n : Nat \cup {-1}]
    BY <1>6 DEF Closed, Shape, Control, NoMetric
  <2>2. \A k \in Keys : want'[k] \in {want[k], {}}
    BY <1>6, <2>1 DEF Closed, Forget, Shape, Decoders
  <2>3. metrics' \in [Keys -> [healthy : BOOLEAN, n : Nat \cup {-1}]]
    BY <1>6, <2>1 DEF Closed, Entries
  <2>. QED  BY <1>1, <2>1, <2>2, <2>3 DEF Entries
<1>7. CASE Measure
  <2>1. PICK k \in todo, flow \in Flows :
             /\ want' = [want EXCEPT ![k] = DetermineTopics(flow, ctx[k].cfg)]
             /\ Reap(k) /\ Report(k, Healthy(k), Cardinality(active[k]))
    BY <1>7 DEF Measure
  <2>2. k \in Keys /\ ctx[k].cfg \in Cfgs
    BY <1>7 DEF Measure, Shape, Control, Table, Ahead, Contexts
  <2>3. \A j \in Keys : active'[j] \in SUBSET active[j]
    BY <2>1, <2>2 DEF Reap, Shape, Decoders
  <2>4. IsFiniteSet(DetermineTopics(flow, ctx[k].cfg))
    BY <2>2, DetermineFinite
  <2>5. metrics' \in [Keys -> [healthy : BOOLEAN, n : Nat \cup {-1}]]
    BY <1>0, <1>2, <2>1, <2>2
  <2>6. \A j \in Keys : IsFiniteSet(want'[j])
    BY <2>1, <2>2, <2>4 DEF Entries, Shape, Decoders
  <2>7. \A j \in Keys : IsFiniteSet(active'[j])
    BY <2>3, FS_Subset DEF Entries
  <2>. QED  BY <2>5, <2>6, <2>7 DEF Entries
<1>8. CASE MeasureFails
  <2>1. metrics' \in [Keys -> [healthy : BOOLEAN, n : Nat \cup {-1}]]
    BY <1>0, <1>2, <1>8 DEF MeasureFails, Shape, Control
  <2>. QED  BY <1>8, <2>1 DEF MeasureFails, Entries
<1>9. CASE Spawn \/ SpawnFails
  <2>1. at \in Keys /\ UNCHANGED want /\ \E S \in SUBSET Startable : Start(S)
    BY <1>0, <1>9 DEF Spawn, SpawnFails, Dropped
  <2>2. PICK S \in SUBSET want[at] : active' = [active EXCEPT ![at] = @ \cup S]
    BY <2>1 DEF Start, Startable
  <2>3. IsFiniteSet(active[at] \cup S)
    BY <2>1, FS_Subset, FS_Union DEF Entries
  <2>4. \A k \in Keys : IsFiniteSet(active'[k])
    BY <2>1, <2>2, <2>3 DEF Entries, Shape, Decoders
  <2>5. Cardinality(active'[at]) \in Nat
    BY <1>1, <2>1, <2>4
  <2>6. metrics' \in [Keys -> [healthy : BOOLEAN, n : Nat \cup {-1}]]
    BY <1>0, <1>2, <1>9, <2>1, <2>5 DEF Spawn, SpawnFails
  <2>. QED  BY <2>1, <2>4, <2>6 DEF Entries
<1>10. CASE Wake \/ Round \/ Swept \/ Load \/ LoadFails \/ Retire \/ Visit \/ Applied
  BY <1>3, <1>10 DEF Wake, Round, Swept, Load, LoadFails, Retire, Visit, Applied
<1>11. CASE Terminated \/ Shutdown \/ EditFile \/ Sighup \/ Sigterm \/ UNCHANGED vars
  BY <1>3, <1>11 DEF Terminated, Shutdown, EditFile, Sighup, Sigterm, vars
<1>12. ASSUME NEW k \in Keys, NEW t \in Topics, Crash(k, t) PROVE Entries'
  BY <1>3, <1>12 DEF Crash
<1>. QED
  BY <1>4, <1>5, <1>6, <1>7, <1>8, <1>9, <1>10, <1>11, <1>12 DEF Next, Main, Failure, Around

LEMMA FailuresStep == Shape /\ Failures /\ [Next]_vars => Failures'
<1>. SUFFICES ASSUME Shape, Failures, [Next]_vars PROVE Failures'
  OBVIOUS
<1>. USE DEF signals, loop, state, history
<1>1. ASSUME UNCHANGED <<fails, streak>>, \A k \in Keys : active'[k] \subseteq active[k]
      PROVE  Failures'
  BY <1>1 DEF Failures
<1>2. CASE Round
  <2>1. PICK d \in 1 .. Slack :
             fails' = [k \in Keys |-> [t \in Topics |-> Later(fails[k][t], Interval + d)]]
    BY <1>2 DEF Round, Elapse
  <2>2. Interval + d \in Nat
    BY AdjusterAssumption
  <2>3. fails' \in [Keys -> [Topics -> FailRange]]
    BY <2>1, <2>2, LaterType DEF Failures
  <2>4. ASSUME NEW k \in Keys, NEW t \in active[k] PROVE Allowed(fails'[k][t])
    BY <2>1, <2>2, LaterType DEF Failures, Shape, Decoders
  <2>. QED  BY <1>2, <2>3, <2>4 DEF Round, Failures
<1>3. ASSUME NEW k \in Keys, Forget(k), UNCHANGED active PROVE Failures'
  <2>1. [t \in Topics |-> 0] \in [Topics -> 0 .. Threshold]
    BY AdjusterAssumption
  <2>2. /\ fails' \in [Keys -> [Topics -> FailRange]]
        /\ streak' \in [Keys -> [Topics -> 0 .. Threshold]]
    BY <1>3, <2>1, NoFailType DEF Forget, Failures
  <2>3. ASSUME NEW j \in Keys, NEW t \in active[j] PROVE Allowed(fails'[j][t])
    BY <1>3, NoFailType DEF Forget, NoFails, Failures, Shape, Decoders
  <2>. QED  BY <1>3, <2>2, <2>3 DEF Failures
<1>4. CASE Attach
  <2>1. at \in Keys
    BY <1>4 DEF Attach, Shape, InHand, Handling
  <2>. QED  BY <1>3, <1>4, <2>1 DEF Attach
<1>5. CASE Closed
  <2>1. at \in Keys
    BY <1>5 DEF Closed, Shape, Control
  <2>2. CASE pc = "remove"
    BY <1>3, <1>5, <2>1, <2>2 DEF Closed
  <2>3. CASE pc # "remove"
    BY <1>1, <1>5, <2>3 DEF Closed
  <2>. QED  BY <2>2, <2>3
<1>6. CASE Terminate
  <2>1. \A k \in Keys : active'[k] \subseteq active[k]
    BY <1>6 DEF Terminate, Shape, Decoders
  <2>. QED  BY <1>1, <1>6, <2>1 DEF Terminate
<1>7. CASE Measure
  <2>1. PICK k \in todo : Reap(k)
    BY <1>7 DEF Measure
  <2>2. k \in Keys
    BY DEF Shape, Control
  <2>3. /\ active' = [active EXCEPT ![k] = @ \ Exited(k)]
        /\ \A j \in Keys \ {k} : fails'[j] = fails[j] /\ streak'[j] = streak[j]
        /\ DOMAIN fails' = Keys /\ DOMAIN streak' = Keys
    BY <2>1 DEF Reap, Failures
  <2>4. fails'[k] = [t \in Topics |->
                       IF t \in Exited(k) THEN Mark(fails[k][t])
                       ELSE IF t \in active[k] THEN NoFail ELSE fails[k][t]]
    BY <2>1, <2>2 DEF Reap, Failures
  <2>5. \A t \in Topics : fails'[k][t] \in FailRange
    BY <2>2, <2>4, MarkType, NoFailType DEF Failures, Exited
  <2>6. fails' \in [Keys -> [Topics -> FailRange]]
    BY <2>1, <2>2, <2>3, <2>4, <2>5 DEF Failures, Reap
  <2>7. streak' \in [Keys -> [Topics -> 0 .. Threshold]]
    BY <2>1, <2>2, AdjusterAssumption DEF Reap, Failures
  <2>8. ASSUME NEW j \in Keys, NEW t \in active'[j] PROVE Allowed(fails'[j][t])
    <3>1. t \in active[j] /\ t \in Topics /\ (j = k => t \notin Exited(k))
      BY <2>2, <2>3, <2>8 DEF Shape, Decoders
    <3>. QED  BY <2>2, <2>3, <2>4, <3>1, NoFailType DEF Failures
  <2>. QED  BY <2>6, <2>7, <2>8 DEF Failures
<1>8. CASE MeasureFails
  <2>1. PICK k \in todo : streak' = [streak EXCEPT ![k] = [t \in Topics |-> 0]]
    BY <1>8 DEF MeasureFails
  <2>2. [t \in Topics |-> 0] \in [Topics -> 0 .. Threshold]
    BY AdjusterAssumption
  <2>3. streak' \in [Keys -> [Topics -> 0 .. Threshold]]
    BY <2>1, <2>2 DEF Failures
  <2>. QED  BY <1>8, <2>3 DEF MeasureFails, Failures
<1>9. CASE Spawn \/ SpawnFails
  <2>1. at \in Keys /\ UNCHANGED streak /\ \E S \in SUBSET Startable : Start(S)
    BY <1>9 DEF Spawn, SpawnFails, Dropped, Shape, InHand, Handling
  <2>2. PICK S \in SUBSET Startable : Start(S)
    BY <2>1
  <2>3. fails' \in [Keys -> [Topics -> FailRange]]
    BY <2>1, <2>2, NoFailType DEF Start, Failures
  <2>4. ASSUME NEW k \in Keys, NEW t \in active'[k] PROVE Allowed(fails'[k][t])
    <3>1. t \in Topics /\ Allowed(fails[k][t])
      BY <2>1, <2>2, <2>4 DEF Start, Startable, Failures, Shape, Decoders
    <3>. QED  BY <2>1, <2>2, <3>1, NoFailType DEF Start, Failures
  <2>. QED  BY <2>1, <2>3, <2>4 DEF Failures
<1>10. CASE Wake \/ Swept \/ Load \/ LoadFails \/ Retire \/ Visit \/ Applied \/ AttachFails
  BY <1>1, <1>10 DEF Wake, Swept, Load, LoadFails, Retire, Visit, Applied, AttachFails
<1>11. CASE Terminated \/ Shutdown \/ EditFile \/ Sighup \/ Sigterm \/ UNCHANGED vars
  BY <1>1, <1>11 DEF Terminated, Shutdown, EditFile, Sighup, Sigterm, vars
<1>12. ASSUME NEW k \in Keys, NEW t \in Topics, Crash(k, t) PROVE Failures'
  BY <1>1, <1>12 DEF Crash
<1>. QED
  BY <1>2, <1>4, <1>5, <1>6, <1>7, <1>8, <1>9, <1>10, <1>11, <1>12
     DEF Next, Main, Failure, Around

-----------------------------------------------------------------------------
(***************************************************************************)
(* The back-off.                                                           *)
(***************************************************************************)
\* While a decoder is found dead in round after round its crash count keeps up with the
\* rounds, because the last crash is younger than the window when the next one is counted:
\* just counted in this round's measurement, or one round old.
Measured(k) == pc = "wait" \/ (pc \in {"sweep", "drop"} /\ k \notin todo)

Keeping(k, t) ==
  streak[k][t] > 0 =>
    /\ k \in Contexts
    /\ fails[k][t].count >= streak[k][t]
    /\ fails[k][t].age <= IF Measured(k) THEN 0 ELSE Interval + Slack

KeepsUp ==
  /\ \A k \in Keys, t \in Topics : Keeping(k, t)
  /\ ~ready => /\ pc \in {"load", "apply", "attach", "remove", "replace", "refused"}
               /\ \A k \in Keys, t \in Topics : streak[k][t] = 0

\* A step that leaves the counts of a decoder alone, after which its context counts as
\* measured only if it did before.
LEMMA KeepingFrame ==
  ASSUME Failures, NEW k \in Keys, NEW t \in Topics, Keeping(k, t),
         fails'[k][t] = fails[k][t], streak'[k][t] = streak[k][t],
         k \in Contexts => k \in Contexts', Measured(k)' => Measured(k)
  PROVE  Keeping(k, t)'
<1>1. fails[k][t].age \in Nat /\ Interval + Slack \in Nat
  BY AdjusterAssumption DEF Failures, FailRange
<1>. QED  BY <1>1, AdjusterAssumption DEF Keeping

LEMMA KeepsUpStep ==
  ASSUME Window >= Interval + Slack
  PROVE  Shape /\ Failures /\ KeepsUp /\ [Next]_vars => KeepsUp'
<1>. SUFFICES ASSUME Shape, Failures, KeepsUp, [Next]_vars PROVE KeepsUp'
  OBVIOUS
<1>. USE DEF signals, loop, state, history
<1>0. /\ Interval \in Nat /\ Slack \in Nat /\ Window \in Nat
      /\ Threshold \in Nat \ {0} /\ NoKey \notin Keys
  BY AdjusterAssumption
<1>1. ASSUME UNCHANGED <<fails, streak, ready>>,
             \A k \in Contexts : k \in Contexts' /\ (Measured(k)' => Measured(k)),
             ~ready => pc' \in {"load", "apply", "attach", "remove", "replace", "refused"}
      PROVE  KeepsUp'
  <2>1. ASSUME NEW k \in Keys, NEW t \in Topics PROVE Keeping(k, t)'
    <3>1. CASE k \in Contexts
      BY <1>1, <3>1, KeepingFrame DEF KeepsUp
    <3>2. CASE k \notin Contexts
      BY <1>1, <3>2 DEF KeepsUp, Keeping
    <3>. QED  BY <3>1, <3>2
  <2>. QED  BY <1>1, <2>1 DEF KeepsUp
<1>2. CASE Wake \/ Swept \/ Retire \/ Visit \/ Load \/ AttachFails \/ Shutdown
  <2>1. /\ UNCHANGED <<fails, streak, ready>> /\ Contexts' = Contexts
        /\ \A k \in Contexts : Measured(k)' => Measured(k)
        /\ ~ready => pc' \in {"load", "apply", "attach", "remove", "replace", "refused"}
    BY <1>2 DEF Wake, Swept, Retire, Visit, Load, AttachFails, Shutdown, Measured, Contexts,
                KeepsUp
  <2>. QED  BY <1>1, <2>1
<1>3. CASE Round
  <2>1. PICK d \in 1 .. Slack :
             fails' = [k \in Keys |-> [t \in Topics |-> Later(fails[k][t], Interval + d)]]
    BY <1>3 DEF Round, Elapse
  <2>2. ASSUME NEW k \in Keys, NEW t \in Topics, streak[k][t] > 0
        PROVE  /\ k \in Contexts /\ fails'[k][t].count >= streak[k][t]
               /\ fails'[k][t].age <= Interval + Slack
    <3>1. /\ k \in Contexts /\ fails[k][t] \in FailRange /\ streak[k][t] \in Nat
          /\ fails[k][t].count >= streak[k][t] /\ fails[k][t].age <= 0
      BY <1>0, <1>3, <2>2 DEF Round, Measured, KeepsUp, Keeping, Failures
    <3>2. fails'[k][t] = Later(fails[k][t], Interval + d)
      BY <2>1
    <3>. QED  BY <1>0, <3>1, <3>2 DEF Later, FailRange
  <2>3. \A k \in Contexts : k \in Contexts' /\ ~Measured(k)'
    BY <1>3 DEF Round, Measured, Contexts
  <2>. QED  BY <1>3, <2>2, <2>3 DEF Round, KeepsUp, Keeping
<1>4. CASE LoadFails \/ Applied
  <2>1. UNCHANGED <<fails, streak, ctx>> /\ Contexts' = Contexts
    BY <1>4 DEF LoadFails, Applied, Contexts
  <2>2. CASE ready
    <3>1. ready' /\ pc' = "sweep" /\ todo' = Contexts
      BY <1>4, <2>2 DEF LoadFails, Applied, Reloaded
    <3>2. \A k \in Contexts : ~Measured(k)'
      BY <3>1 DEF Measured
    <3>3. ASSUME NEW k \in Keys, NEW t \in Topics PROVE Keeping(k, t)'
      <4>1. CASE k \in Contexts
        BY <2>1, <3>2, <4>1, KeepingFrame DEF KeepsUp
      <4>2. CASE k \notin Contexts
        BY <2>1, <4>2 DEF KeepsUp, Keeping
      <4>. QED  BY <4>1, <4>2
    <3>. QED  BY <3>1, <3>3 DEF KeepsUp
  <2>3. CASE ~ready
    <3>1. \A k \in Keys, t \in Topics : streak'[k][t] = 0
      BY <2>1, <2>3 DEF KeepsUp
    <3>2. ~ready' => pc' = "refused"
      BY <1>4, <2>3 DEF LoadFails, Applied, Reloaded
    <3>. QED  BY <3>1, <3>2 DEF KeepsUp, Keeping
  <2>. QED  BY <2>2, <2>3
\* The counts of a context that is forgotten start again.
<1>5. ASSUME NEW j \in Keys, Forget(j), UNCHANGED ready, pc' = "apply",
             ~ready => pc \in {"attach", "remove"},
             \A k \in Keys \ {j} : ctx'[k] = ctx[k]
      PROVE  KeepsUp'
  <2>1. \A t \in Topics : streak'[j][t] = 0
    BY <1>5 DEF Forget, Failures
  <2>2. \A k \in Keys \ {j} : fails'[k] = fails[k] /\ streak'[k] = streak[k]
    BY <1>5 DEF Forget, Failures
  <2>3. ASSUME NEW k \in Keys \ {j}, NEW t \in Topics PROVE Keeping(k, t)'
    <3>1. (k \in Contexts => k \in Contexts') /\ ~Measured(k)'
      BY <1>5 DEF Contexts, Measured
    <3>. QED  BY <2>2, <3>1, KeepingFrame DEF KeepsUp
  <2>4. \A t \in Topics : Keeping(j, t)'
    BY <2>1 DEF Keeping
  <2>. QED  BY <1>5, <2>1, <2>2, <2>3, <2>4 DEF KeepsUp
<1>6. CASE Attach
  <2>1. at \in Keys /\ \A k \in Keys \ {at} : ctx'[k] = ctx[k]
    BY <1>6 DEF Attach, Shape, InHand, Handling, Table
  <2>. QED  BY <1>5, <1>6, <2>1 DEF Attach
<1>7. CASE Closed
  <2>1. at \in Keys /\ pc \in Closing /\ ctx[at].cfg # NoCfg
    BY <1>7 DEF Closed, Shape, Control, InHand, Table
  <2>2. CASE pc = "remove"
    <3>1. \A k \in Keys \ {at} : ctx'[k] = ctx[k]
      BY <1>7, <2>1, <2>2 DEF Closed, Shape, Table
    <3>. QED  BY <1>5, <1>7, <2>1, <2>2, <3>1 DEF Closed
  <2>3. CASE pc # "remove"
    <3>1. \A k \in Contexts : k \in Contexts' /\ ~Measured(k)'
      BY <1>7, <2>1, <2>3 DEF Closed, Closing, Contexts, Measured, Shape, Table, NoCtx
    <3>2. ~ready => pc' \in {"load", "apply", "attach", "remove", "replace", "refused"}
      BY <1>7, <2>1, <2>3 DEF Closed, Closing, KeepsUp
    <3>. QED  BY <1>1, <1>7, <2>3, <3>1, <3>2 DEF Closed
  <2>. QED  BY <2>2, <2>3
<1>8. CASE Measure
  <2>1. PICK k \in todo : Reap(k) /\ todo' = todo \ {k}
    BY <1>8 DEF Measure
  <2>2. /\ k \in Keys /\ ~Measured(k) /\ ready /\ ready' /\ k \in Contexts
        /\ Contexts' = Contexts
    BY <1>8, <2>1 DEF Measure, Measured, KeepsUp, Shape, Control, Ahead, Contexts
  <2>3. ASSUME NEW j \in Keys \ {k}, NEW t \in Topics PROVE Keeping(j, t)'
    <3>1. fails'[j] = fails[j] /\ streak'[j] = streak[j]
      BY <2>1, <2>2 DEF Reap, Failures
    <3>2. Measured(j)' => Measured(j)
      BY <1>8, <2>1 DEF Measure, Measured
    <3>. QED  BY <2>2, <3>1, <3>2, KeepingFrame DEF KeepsUp
  <2>4. ASSUME NEW t \in Topics PROVE Keeping(k, t)'
    <3>1. CASE t \in Exited(k)
      <4>1. /\ fails'[k][t] = Mark(fails[k][t])
            /\ streak'[k][t] = IF streak[k][t] < Threshold THEN streak[k][t] + 1
                                                            ELSE streak[k][t]
        BY <2>1, <2>2, <3>1 DEF Reap, Failures
      <4>2. streak[k][t] > 0 => /\ fails[k][t].count >= streak[k][t]
                                /\ fails[k][t].age <= Window
        BY <1>0, <2>2 DEF KeepsUp, Keeping, Failures, FailRange
      <4>3. fails[k][t] \in FailRange /\ streak[k][t] \in 0 .. Threshold
        BY <2>2 DEF Failures
      <4>4. fails'[k][t].count >= streak'[k][t] /\ fails'[k][t].age = 0
        BY <1>0, <4>1, <4>2, <4>3 DEF Mark, FailRange
      <4>. QED  BY <1>0, <2>2, <4>4 DEF Keeping
    <3>2. CASE t \notin Exited(k)
      <4>1. streak'[k][t] = 0
        BY <2>1, <2>2, <3>2 DEF Reap, Failures
      <4>. QED  BY <4>1 DEF Keeping
    <3>. QED  BY <3>1, <3>2
  <2>. QED  BY <2>2, <2>3, <2>4 DEF KeepsUp
<1>9. CASE MeasureFails
  <2>1. PICK k \in todo : /\ ctx' = [ctx EXCEPT ![k].err = TRUE]
                          /\ streak' = [streak EXCEPT ![k] = [t \in Topics |-> 0]]
                          /\ todo' = todo \ {k}
    BY <1>9 DEF MeasureFails
  <2>2. k \in Keys /\ ctx[k].cfg # NoCfg /\ ready /\ ready' /\ UNCHANGED <<pc, fails>>
    BY <1>9 DEF MeasureFails, KeepsUp, Shape, Control, Table, Ahead, Contexts
  <2>3. ASSUME NEW j \in Keys \ {k}, NEW t \in Topics PROVE Keeping(j, t)'
    <3>1. /\ fails'[j] = fails[j] /\ streak'[j] = streak[j] /\ ctx'[j] = ctx[j]
          /\ Measured(j)' => Measured(j)
      BY <2>1, <2>2 DEF Failures, Shape, Table, Measured
    <3>. QED  BY <3>1, KeepingFrame DEF KeepsUp, Contexts
  <2>4. ASSUME NEW t \in Topics PROVE Keeping(k, t)'
    <3>1. streak'[k][t] = 0
      BY <2>1, <2>2 DEF Failures
    <3>. QED  BY <3>1 DEF Keeping
  <2>. QED  BY <2>2, <2>3, <2>4 DEF KeepsUp
<1>10. CASE Spawn \/ SpawnFails
  <2>1. /\ at \in Keys /\ ctx[at].cfg # NoCfg /\ pc = "drop" /\ pc' = "sweep" /\ ready /\ ready'
        /\ UNCHANGED <<todo, streak>> /\ \E S \in SUBSET Startable : Start(S)
    BY <1>10, AdjusterAssumption
       DEF Spawn, SpawnFails, Dropped, Start, KeepsUp, Shape, InHand, Handling, Table
  <2>2. PICK S \in SUBSET Startable : Start(S)
    BY <2>1
  <2>3. \A k \in Contexts : k \in Contexts'
    <3>1. CASE Spawn
      BY <3>1 DEF Spawn, Contexts
    <3>2. CASE SpawnFails
      <4>1. \A k \in Keys : ctx[k] # NoCtx => ctx'[k] # NoCtx
        BY <2>1, <3>2 DEF SpawnFails, Shape, Table, NoCtx
      <4>. QED  BY <4>1 DEF Contexts
    <3>. QED  BY <1>10, <3>1, <3>2
  <2>4. ASSUME NEW k \in Keys, NEW t \in Topics PROVE Keeping(k, t)'
    <3>1. CASE streak[k][t] > 0
      <4>1. fails[k][t].age <= Window
        BY <1>0, <3>1 DEF KeepsUp, Keeping, Failures, FailRange
      <4>2. fails'[k][t] = fails[k][t]
        BY <1>0, <2>1, <2>2, <4>1 DEF Start, Failures, FailRange
      <4>3. (k \in Contexts => k \in Contexts') /\ (Measured(k)' => Measured(k))
        BY <2>1, <2>3 DEF Measured
      <4>. QED  BY <2>1, <4>2, <4>3, KeepingFrame DEF KeepsUp
    <3>2. CASE ~(streak[k][t] > 0)
      BY <2>1, <3>2 DEF Keeping
    <3>. QED  BY <3>1, <3>2
  <2>. QED  BY <2>1, <2>4 DEF KeepsUp
<1>11. CASE Terminate \/ Terminated \/ EditFile \/ Sighup \/ Sigterm \/ UNCHANGED vars
  <2>1. UNCHANGED <<pc, todo, ctx, fails, streak, ready>>
    BY <1>11 DEF Terminate, Terminated, EditFile, Sighup, Sigterm, vars
  <2>2. \A k \in Contexts : k \in Contexts' /\ (Measured(k)' => Measured(k))
    BY <2>1 DEF Contexts, Measured
  <2>. QED  BY <1>1, <2>1, <2>2 DEF KeepsUp
<1>12. ASSUME NEW k \in Keys, NEW t \in Topics, Crash(k, t) PROVE KeepsUp'
  <2>1. UNCHANGED <<pc, todo, ctx, fails, streak, ready>>
    BY <1>12 DEF Crash
  <2>2. \A j \in Contexts : j \in Contexts' /\ (Measured(j)' => Measured(j))
    BY <2>1 DEF Contexts, Measured
  <2>. QED  BY <1>1, <2>1, <2>2 DEF KeepsUp
<1>. QED
  BY <1>2, <1>3, <1>4, <1>6, <1>7, <1>8, <1>9, <1>10, <1>11, <1>12
     DEF Next, Main, Failure, Around

-----------------------------------------------------------------------------
(***************************************************************************)
(* Theorems.                                                               *)
(***************************************************************************)
IInv == Shape /\ Owned /\ AllApart /\ Listed /\ Reported /\ Pending
        /\ Failures /\ Entries /\ Flags

LEMMA InvInit == Init => IInv
<1>. SUFFICES ASSUME Init PROVE IInv
  OBVIOUS
<1>1. Shape /\ Owned /\ AllApart
  BY ShapeInit, OwnedInit
<1>2. Listed /\ Reported
  BY DEF Init, Listed, Reported, NoCtx, Contexts
<1>3. Pending
  BY DEF Init, Pending
<1>4. Failures
  BY AdjusterAssumption, NoFailType DEF Init, Failures
<1>5. Entries
  BY FS_EmptySet DEF Init, Entries, NoMetric
<1>6. Flags
  BY AdjusterAssumption DEF Init, Flags
<1>. QED  BY <1>1, <1>2, <1>3, <1>4, <1>5, <1>6 DEF IInv

LEMMA InvStep == IInv /\ [Next]_vars => IInv'
BY ShapeStep, OwnedStep, ListedStep, ReportedStep, PendingStep, FailuresStep, EntriesStep,
   FlagsStep, TypeParts DEF IInv

LEMMA Inductive == Spec => []IInv
BY InvInit, InvStep, PTL DEF Spec

\* Types.  No crash count goes beyond the threshold, because a decoder is started only while
\* its count is below it (_mark_crash, _restart_allowed).
THEOREM AdjusterTypeCorrect == Spec => []TypeOK
<1>1. IInv => TypeOK
  BY TypeParts DEF IInv
<1>. QED  BY <1>1, Inductive, PTL

\* Whatever the flow does and whatever the file is changed to, no point is decoded twice
\* for one context (reconcile_decoders, terminate_decoder).
THEOREM NoPointTwice == Spec => []OneDecoderPerPoint
<1>1. IInv => OneDecoderPerPoint
  <2>. SUFFICES ASSUME IInv, NEW k \in Keys, NEW s \in Topics, NEW t \in Topics,
                       Subscribed(k, s), Subscribed(k, t), Above(s, t)
                PROVE  s = t
    BY DEF OneDecoderPerPoint
  <2>1. s \in Held(k) /\ t \in Held(k)
    BY DEF IInv, Owned, Subscribed
  <2>. QED  BY <2>1 DEF IInv, AllApart, Apart
<1>. QED  BY <1>1, Inductive, PTL

\* Every decoder process is in active_decoders or is being waited for, and an adjuster that
\* has ended leaves none behind (close, shutdown).
THEOREM NoProcessLost == Spec => []NoOrphans
<1>1. IInv => NoOrphans
  <2>. SUFFICES ASSUME IInv PROVE NoOrphans
    OBVIOUS
  <2>1. pc \in {"ended", "refused"} => at = NoKey /\ NoKey \notin Keys
    BY AdjusterAssumption DEF IInv, Shape, InHand, Handling, Closing
  <2>2. pc \in {"ended", "refused"} => \A k \in Keys : Held(k) = {}
    BY <2>1 DEF IInv, Owned, Held
  <2>3. pc \in {"ended", "refused"} => \A k \in Keys, t \in Topics : proc[k][t] = "none"
    BY <2>2 DEF IInv, Owned
  <2>. QED  BY <2>3 DEF NoOrphans, IInv, Owned, Held
<1>. QED  BY <1>1, Inductive, PTL

\* Between reloads the contexts have the settings of the last file that could be read, but
\* for those whose attach failed (reload_configs, reconcile_contexts).
THEOREM ContextsFollowTheFile == Spec => []AsConfigured
<1>1. IInv => AsConfigured
  BY DEF IInv, Listed, AsConfigured
<1>. QED  BY <1>1, Inductive, PTL

\* A SIGHUP is never lost (run clears reload_event before it reads the file).
THEOREM NoHupLost == Spec => []NoReloadLost
<1>1. IInv => NoReloadLost
  BY DEF IInv, Pending, NoReloadLost
<1>. QED  BY <1>1, Inductive, PTL

\* Between rounds /metrics says what active_decoders holds (record_context at each of the
\* places that change it).
THEOREM MetricsAreTrue == Spec => []ReportedCount
<1>1. IInv => ReportedCount
  <2>. SUFFICES ASSUME IInv, pc = "wait" PROVE ReportedCount
    BY DEF ReportedCount
  <2>1. at \notin Contexts
    BY AdjusterAssumption DEF IInv, Shape, InHand, Handling, Closing, Contexts
  <2>. QED  BY <2>1 DEF IInv, Reported, ReportedCount
<1>. QED  BY <1>1, Inductive, PTL

\* A decoder that was found dead in Threshold rounds running is not started in that round,
\* provided the backoff window is at least as long as a round (_restart_allowed).
THEOREM CrashesAreHeldBack ==
  ASSUME Window >= Interval + Slack
  PROVE  Spec => BackoffHolds
<1>1. Init => KeepsUp
  BY DEF Init, KeepsUp, Keeping
<1>2. IInv /\ KeepsUp /\ [Next]_vars => KeepsUp'
  BY KeepsUpStep DEF IInv
<1>3. IInv /\ KeepsUp /\ [Next]_vars =>
        \A k \in Keys, t \in Topics : t \notin active[k] /\ t \in active'[k] => streak[k][t] < Threshold
  <2>. SUFFICES ASSUME IInv, KeepsUp, [Next]_vars, NEW k \in Keys, NEW t \in Topics,
                       t \notin active[k], t \in active'[k]
                PROVE  streak[k][t] < Threshold
    OBVIOUS
  <2>1. Spawn \/ SpawnFails
    <3>1. UNCHANGED vars \/ Terminate \/ Measure => \A j \in Keys : active'[j] \subseteq active[j]
      BY DEF vars, state, Terminate, Measure, Reap, IInv, Shape, Decoders
    <3>2. (\E j \in Keys, s \in Topics : Crash(j, s)) => active' = active
      BY DEF Crash, state
    <3>3. Wake \/ Round \/ Swept \/ Load \/ LoadFails \/ Retire \/ Visit \/ Applied \/ Attach
            => active' = active
      BY DEF Wake, Round, Swept, Load, LoadFails, Retire, Visit, Applied, Attach, state
    <3>4. Terminated \/ Closed \/ Shutdown \/ AttachFails \/ MeasureFails \/ EditFile \/ Sighup
            \/ Sigterm => active' = active
      BY DEF Terminated, Closed, Shutdown, AttachFails, MeasureFails, EditFile, Sighup, Sigterm,
             state
    <3>. QED  BY <3>1, <3>2, <3>3, <3>4 DEF Next, Main, Failure, Around
  <2>2. k = at /\ Allowed(fails[k][t]) /\ Measured(k)
    <3>1. /\ \E S \in SUBSET Startable : active' = [active EXCEPT ![at] = @ \cup S]
          /\ pc = "drop" /\ at \in Keys /\ at \notin todo
      BY <2>1 DEF Spawn, SpawnFails, Start, Dropped, IInv, Shape, InHand, Ahead, Handling
    <3>. QED  BY <3>1 DEF Startable, Measured, IInv, Shape, Decoders
  <2>3. /\ streak[k][t] > 0 => fails[k][t].count >= streak[k][t] /\ fails[k][t].age <= 0
        /\ fails[k][t] \in FailRange /\ streak[k][t] \in 0 .. Threshold
    BY <2>2 DEF KeepsUp, Keeping, IInv, Failures
  <2>. QED  BY <2>2, <2>3, AdjusterAssumption DEF Allowed, FailRange
<1>. QED  BY <1>1, <1>2, <1>3, Inductive, PTL DEF Spec, BackoffHolds
=============================================================================
