---------------------------- MODULE RuncApi_proofs ----------------------------
(***************************************************************************)
(* Theorems about RuncApi, for any number of clients, any grace period and *)
(* any number of calls, time-outs, exits and failures.                     *)
(***************************************************************************)
EXTENDS RuncApi, TLAPS

Locations == Commands \cup {"idle"}

\* What Spend does, for every resource.
LEMMA SpendType ==
  ASSUME TypeOK, NEW r \in Resources, Spend(r)
  PROVE  budget' \in [Resources -> Nat]
BY DEF TypeOK, Spend

\* The answer of a step and the place it goes to keep their types.
LEMMA MoveType ==
  ASSUME TypeOK, NEW c \in Clients,
         \/ \E l \in Commands : Goto(c, l)
         \/ \E a \in Answers : Answer(c, a)
  PROVE  /\ pc' \in [Clients -> Locations]
         /\ ans' \in [Clients -> Answers \cup {NoAnswer}]
BY DEF TypeOK, Goto, Answer, Locations

\* What runc knows keeps its type, whichever command takes effect.
RuncOK ==
  /\ box \in {"absent", "created", "running", "stopped"}
  /\ inc \in Nat /\ dying \in BOOLEAN /\ limit \in Limits \cup {Default}
  /\ (box = "absent" => limit = Default /\ ~dying)

LEMMA EffectType ==
  ASSUME TypeOK, NEW c \in Clients,
         \/ DoCreate \/ DoStart \/ DoKill \/ DoDelete \/ DoUpdate(c)
         \/ UNCHANGED runc
  PROVE  RuncOK' /\ inc' >= inc
<1>1. RuncOK /\ asked[c] \in Limits \cup {Default}
  BY DEF TypeOK, RuncOK
<1>2. CASE DoCreate
  <2>1. dying' \in BOOLEAN /\ (~dying') /\ limit' = Default
    BY <1>2, Zenon DEF DoCreate
  <2>2. inc' \in Nat /\ inc' >= inc
    BY <1>1, <1>2 DEF DoCreate, RuncOK
  <2>3. box' \in {"absent", "created", "running", "stopped"}
    BY <1>2 DEF DoCreate
  <2>. QED  BY <2>1, <2>2, <2>3 DEF RuncOK
<1>3. CASE DoStart
  BY <1>1, <1>3 DEF DoStart, RuncOK
<1>4. CASE DoKill
  BY <1>1, <1>4 DEF DoKill, Live, RuncOK
<1>5. CASE DoDelete
  <2>1. dying' \in BOOLEAN /\ (~dying') /\ limit' = Default
    BY <1>5, Zenon DEF DoDelete
  <2>2. inc' \in Nat /\ inc' >= inc
    BY <1>1, <1>5 DEF DoDelete, RuncOK
  <2>3. box' \in {"absent", "created", "running", "stopped"}
    BY <1>5 DEF DoDelete
  <2>. QED  BY <2>1, <2>2, <2>3 DEF RuncOK
<1>6. CASE DoUpdate(c)
  BY <1>1, <1>6 DEF DoUpdate, Live, RuncOK
<1>7. CASE UNCHANGED runc
  BY <1>1, <1>7 DEF runc, RuncOK
<1>. QED  BY <1>2, <1>3, <1>4, <1>5, <1>6, <1>7

LEMMA EffectCases ==
  ASSUME NEW c \in Clients, Effect(c)
  PROVE  DoCreate \/ DoStart \/ DoKill \/ DoDelete \/ DoUpdate(c)
BY DEF Effect

LEMMA TypeInit == Init => TypeOK
<1>. SUFFICES ASSUME Init PROVE TypeOK
  OBVIOUS
<1>1. /\ polls \in [Clients -> 0 .. Grace]
      /\ termed \in [Clients -> Nat]
      /\ \A c \in Clients : termed[c] <= inc
  BY RuncApiAssumption DEF Init
<1>2. /\ pc \in [Clients -> Commands \cup {"idle"}]
      /\ asked \in [Clients -> Limits \cup {Default}]
      /\ blind \in [Clients -> BOOLEAN]
      /\ ans \in [Clients -> Answers \cup {NoAnswer}]
  BY DEF Init
<1>. QED  BY <1>1, <1>2, RuncApiAssumption DEF Init, TypeOK

LEMMA TypeCall ==
  ASSUME TypeOK, NEW c \in Clients, Call(c)
  PROVE  TypeOK'
<1>1. budget' \in [Resources -> Nat]
  BY SpendType DEF Call, Resources
<1>2. /\ pc' \in [Clients -> Locations]
      /\ asked' \in [Clients -> Limits \cup {Default}]
      /\ ans' \in [Clients -> Answers \cup {NoAnswer}]
  BY DEF Call, TypeOK, Locations, Commands
<1>. QED  BY <1>1, <1>2 DEF Call, TypeOK, runc, Locations

LEMMA TypeRun ==
  ASSUME TypeOK, NEW c \in Clients, Run(c)
  PROVE  TypeOK'
<1>1. /\ pc' \in [Clients -> Locations]
      /\ ans' \in [Clients -> Answers \cup {NoAnswer}]
  <2>1. \/ \E l \in Commands : Goto(c, l)
        \/ \E a \in Answers : Answer(c, a)
        \/ UNCHANGED <<pc, ans>>
    BY DEF Run, Create, Start, Term, Poll, Kill, Delete, Update, Commands, Answers
  <2>. QED  BY <2>1, MoveType DEF TypeOK, Locations
<1>2. RuncOK' /\ inc' >= inc
  <2>1. \/ DoCreate \/ DoStart \/ DoKill \/ DoDelete \/ DoUpdate(c)
        \/ UNCHANGED runc
    BY DEF Run, Create, Start, Term, Poll, Kill, Delete, Update
  <2>. QED  BY <2>1, EffectType
<1>3. polls' \in [Clients -> 0 .. Grace]
  BY RuncApiAssumption
     DEF Run, Create, Start, Term, Poll, Kill, Delete, Update, TypeOK, keep
<1>4. termed' \in [Clients -> Nat] /\ \A d \in Clients : termed'[d] <= inc'
  <2>1. termed' \in [Clients -> Nat] /\ \A d \in Clients : termed'[d] <= inc
    BY DEF Run, Create, Start, Term, Poll, Kill, Delete, Update, TypeOK, keep
  <2>. QED  BY <1>2, <2>1 DEF RuncOK, TypeOK
<1>5. UNCHANGED <<asked, clean, budget>> /\ blind' \in [Clients -> BOOLEAN]
  BY DEF Run, Create, Start, Term, Poll, Kill, Delete, Update, keep, TypeOK
<1>. QED  BY <1>1, <1>2, <1>3, <1>4, <1>5 DEF TypeOK, RuncOK, Locations

\* The commands that bring no result.
Failing(c) == TimeOut(c) \/ Fails(c) \/ CannotRun(c)

LEMMA TypeFailing ==
  ASSUME TypeOK, NEW c \in Clients, Failing(c)
  PROVE  TypeOK'
<1>1. /\ pc' \in [Clients -> Locations]
      /\ ans' \in [Clients -> Answers \cup {NoAnswer}]
  <2>1. \/ Goto(c, "poll") \/ Goto(c, "kill") \/ Goto(c, "delete")
        \/ Answer(c, 504) \/ Answer(c, 500)
    BY DEF Failing, TimeOut, Fails, CannotRun, NoResult
  <2>. QED  BY <2>1, MoveType DEF Commands, Answers
<1>2. RuncOK' /\ inc' >= inc
  <2>1. CASE Effect(c) \/ UNCHANGED runc
    BY <2>1, EffectType, EffectCases
  <2>2. CASE box' = "stopped" /\ box = "created" /\ UNCHANGED <<inc, dying, limit>>
    BY <2>2 DEF TypeOK, RuncOK
  <2>. QED  BY <2>1, <2>2 DEF Failing, TimeOut, Fails, CannotRun
<1>3. budget' \in [Resources -> Nat]
  BY SpendType DEF Failing, TimeOut, Fails, CannotRun, Resources
<1>4. polls' \in [Clients -> 0 .. Grace]
  BY RuncApiAssumption DEF Failing, TimeOut, Fails, CannotRun, NoResult, TypeOK
<1>5. termed' \in [Clients -> Nat] /\ \A d \in Clients : termed'[d] <= inc'
  <2>1. termed' = termed \/ termed' = [termed EXCEPT ![c] = inc]
    BY DEF Failing, TimeOut, Fails, CannotRun, NoResult
  <2>. QED  BY <1>2, <2>1 DEF RuncOK, TypeOK
<1>6. blind' \in [Clients -> BOOLEAN] /\ asked' = asked /\ clean' \in BOOLEAN
  <2>1. clean' = FALSE
    BY Zenon DEF Failing, TimeOut, Fails, CannotRun, NoResult
  <2>2. blind' = [blind EXCEPT ![c] = (pc[c] = "poll")] \/ blind' = [blind EXCEPT ![c] = FALSE]
    BY Zenon DEF Failing, TimeOut, Fails, CannotRun, NoResult
  <2>3. asked' = asked
    BY DEF Failing, TimeOut, Fails, CannotRun, NoResult
  <2>. QED  BY <2>1, <2>2, <2>3 DEF TypeOK
<1>. QED  BY <1>1, <1>2, <1>3, <1>4, <1>5, <1>6 DEF TypeOK, RuncOK, Locations

LEMMA TypeElse == ASSUME TypeOK, Exit \/ Reaped \/ Restart PROVE TypeOK'
<1>1. CASE Exit
  BY <1>1, SpendType DEF Exit, TypeOK, Resources
<1>2. CASE Reaped
  BY <1>2 DEF Reaped, TypeOK, Live
<1>3. CASE Restart
  BY <1>3, SpendType DEF Restart, TypeOK, Resources, runc
<1>. QED  BY <1>1, <1>2, <1>3

LEMMA TypeStep == TypeOK /\ [Next]_vars => TypeOK'
<1>. SUFFICES ASSUME TypeOK, [Next]_vars PROVE TypeOK'
  OBVIOUS
<1>1. CASE UNCHANGED vars
  BY <1>1 DEF vars, runc, TypeOK
<1>2. CASE Next
  BY <1>2, TypeCall, TypeRun, TypeFailing, TypeElse DEF Next, Failing
<1>. QED  BY <1>1, <1>2

\* Every variable keeps its type: a stop never looks at the state more often than its
\* grace period says, and a container that does not exist has the default settings.
THEOREM ApiTypeCorrect == Spec => []TypeOK
BY TypeInit, TypeStep, PTL DEF Spec

-----------------------------------------------------------------------------
(***************************************************************************)
(* Nothing is left half-started.                                           *)
(***************************************************************************)
\* A step of one client leaves the places of the others alone.
LEMMA OthersStay ==
  ASSUME TypeOK, NEW c \in Clients, Call(c) \/ Run(c)
  PROVE  \A d \in Clients \ {c} : pc'[d] = pc[d]
BY DEF TypeOK, Call, Run, Create, Start, Term, Poll, Kill, Delete, Update, Goto, Answer

\* Only a create makes a container that is not started, and it goes on to start it.
LEMMA CreatedByCreate ==
  ASSUME TypeOK, NEW c \in Clients, Run(c), box' = "created"
  PROVE  \/ pc'[c] = "start"
         \/ box = "created" /\ pc[c] # "start"
BY DEF TypeOK, Run, Create, Start, Term, Poll, Kill, Delete, Update, keep, runc,
       Goto, DoCreate, DoStart, DoKill, DoDelete, DoUpdate

LEMMA PendingStep == TypeOK /\ CreatedIsPending /\ [Next]_vars => CreatedIsPending'
<1>. SUFFICES ASSUME TypeOK, CreatedIsPending, [Next]_vars, clean', box' = "created"
              PROVE  \E d \in Clients : pc'[d] = "start"
  BY DEF CreatedIsPending
<1>1. CASE UNCHANGED vars
  BY <1>1 DEF vars, runc, CreatedIsPending
<1>2. ASSUME NEW c \in Clients, Call(c) PROVE \E d \in Clients : pc'[d] = "start"
  <2>1. clean /\ box = "created" /\ pc[c] # "start"
    BY <1>2 DEF Call, runc
  <2>. QED  BY <1>2, <2>1, OthersStay DEF CreatedIsPending
<1>3. ASSUME NEW c \in Clients, Run(c) PROVE \E d \in Clients : pc'[d] = "start"
  <2>1. clean
    BY <1>3 DEF Run, Create, Start, Term, Poll, Kill, Delete, Update, keep
  <2>2. CASE pc'[c] = "start"
    BY <2>2
  <2>3. CASE box = "created" /\ pc[c] # "start"
    BY <1>3, <2>1, <2>3, OthersStay DEF CreatedIsPending
  <2>. QED  BY <1>3, <2>2, <2>3, CreatedByCreate
<1>4. CASE Exit \/ Reaped \/ Restart \/ \E c \in Clients : Failing(c)
  BY <1>4 DEF Exit, Reaped, Restart, Failing, TimeOut, Fails, CannotRun, NoResult
<1>. QED  BY <1>1, <1>2, <1>3, <1>4 DEF Next, Failing

\* As long as nothing times out or fails of its own, no interleaving of requests leaves a
\* container created with nobody about to start it (start_container, stop_container).
THEOREM NothingHalfStarted == Spec => []CreatedIsPending
<1>1. Init => CreatedIsPending
  BY DEF Init, CreatedIsPending
<1>. QED  BY <1>1, PendingStep, ApiTypeCorrect, PTL DEF Spec

-----------------------------------------------------------------------------
(***************************************************************************)
(* The grace period.  A stop goes on to its SIGKILL when its looks are     *)
(* used up, the container is not live, or a look has failed and it is      *)
(* blind; and a container that is not live any more never is again: what   *)
(* is live later has a larger number.                                      *)
(***************************************************************************)
GraceUsed ==
  \A c \in Clients : pc[c] = "kill" /\ Live /\ termed[c] = inc /\ ~blind[c] => polls[c] = 0

LEMMA LiveStays ==
  ASSUME TypeOK, Next, Live', inc' = inc
  PROVE  Live
<1>1. ASSUME NEW c \in Clients,
             DoCreate \/ DoStart \/ DoKill \/ DoDelete \/ DoUpdate(c) \/ UNCHANGED runc
      PROVE  Live
  BY <1>1 DEF TypeOK, Live, runc, DoCreate, DoStart, DoKill, DoDelete, DoUpdate
<1>2. ASSUME NEW c \in Clients, Run(c) \/ Call(c)
      PROVE  DoCreate \/ DoStart \/ DoKill \/ DoDelete \/ DoUpdate(c) \/ UNCHANGED runc
  BY <1>2 DEF Call, Run, Create, Start, Term, Poll, Kill, Delete, Update
<1>3. ASSUME NEW c \in Clients, Failing(c) PROVE Live
  <2>1. CASE Effect(c) \/ UNCHANGED runc
    BY <1>1, <2>1, EffectCases
  <2>. QED  BY <1>3, <2>1 DEF Failing, TimeOut, Fails, CannotRun, Live
<1>4. CASE Exit \/ Reaped \/ Restart
  BY <1>4 DEF Exit, Reaped, Restart, Live, runc
<1>. QED  BY <1>1, <1>2, <1>3, <1>4 DEF Next, Failing

\* What a step of one client does to the others' stops.
LEMMA OtherStops ==
  ASSUME TypeOK, NEW c \in Clients, Call(c) \/ Run(c) \/ Failing(c)
  PROVE  \A d \in Clients \ {c} : /\ pc'[d] = pc[d] /\ polls'[d] = polls[d]
                                  /\ termed'[d] = termed[d] /\ blind'[d] = blind[d]
BY DEF TypeOK, Call, Run, Create, Start, Term, Poll, Kill, Delete, Update, keep,
       Failing, TimeOut, Fails, CannotRun, NoResult, Goto, Answer

\* A stop comes to its SIGKILL from a look at the state, or with a look that failed.
LEMMA KillAfterPoll ==
  ASSUME TypeOK, NEW c \in Clients, Call(c) \/ Run(c) \/ Failing(c),
         pc'[c] = "kill", ~blind'[c]
  PROVE  Poll(c) /\ termed'[c] = termed[c]
<1>1. pc \in [Clients -> Commands \cup {"idle"}] /\ blind \in [Clients -> BOOLEAN]
  BY DEF TypeOK
<1>2. ~(\E l \in Commands \ {"kill"} : Goto(c, l)) /\ ~(\E a : Answer(c, a))
  BY <1>1 DEF Goto, Answer, Commands
<1>3. ~Call(c)
  BY <1>1 DEF Call
<1>4. ASSUME NEW a, NoResult(c, a) PROVE FALSE
  <2>1. pc[c] = "poll"
    BY <1>2, <1>4 DEF NoResult, Commands
  <2>2. blind'[c]
    BY <1>1, <1>4, <2>1 DEF NoResult
  <2>. QED  BY <2>2
<1>5. ~Failing(c)
  BY <1>2, <1>4 DEF Failing, TimeOut, Fails, CannotRun
<1>6. Run(c)
  BY <1>3, <1>5
<1>. QED  BY <1>2, <1>6 DEF Run, Create, Start, Term, Poll, Kill, Delete, Update, Commands

LEMMA GraceStep == TypeOK /\ GraceUsed /\ [Next]_vars => GraceUsed'
<1>. SUFFICES ASSUME TypeOK, GraceUsed, [Next]_vars, NEW d \in Clients,
                     pc'[d] = "kill", Live', termed'[d] = inc', ~blind'[d]
              PROVE  polls'[d] = 0
  BY DEF GraceUsed
<1>1. CASE UNCHANGED vars
  BY <1>1 DEF vars, runc, GraceUsed, Live
<1>2. inc' >= inc
  <2>1. ASSUME NEW c \in Clients,
               \/ DoCreate \/ DoStart \/ DoKill \/ DoDelete \/ DoUpdate(c) \/ UNCHANGED runc
        PROVE  inc' >= inc
    BY <2>1, EffectType
  <2>2. ASSUME NEW c \in Clients, Run(c) \/ Call(c) \/ Failing(c) PROVE inc' >= inc
    <3>1. \/ DoCreate \/ DoStart \/ DoKill \/ DoDelete \/ DoUpdate(c) \/ UNCHANGED runc
          \/ UNCHANGED inc
      BY <2>2, EffectCases DEF Call, Run, Create, Start, Term, Poll, Kill, Delete, Update,
                               Failing, TimeOut, Fails, CannotRun
    <3>. QED  BY <2>1, <3>1 DEF TypeOK
  <2>3. CASE Exit \/ Reaped \/ Restart \/ UNCHANGED vars
    BY <2>3 DEF Exit, Reaped, Restart, vars, runc, TypeOK
  <2>. QED  BY <2>2, <2>3 DEF Next, Failing
<1>3. ASSUME NEW c \in Clients, Call(c) \/ Run(c) \/ Failing(c) PROVE polls'[d] = 0
  <2>1. termed'[d] = termed[d]
    <3>1. CASE c = d
      BY <1>3, <3>1, KillAfterPoll
    <3>2. CASE c # d
      BY <1>3, <3>2, OtherStops
    <3>. QED  BY <3>1, <3>2
  <2>2. inc' = inc
    BY <1>2, <2>1, TypeStep DEF TypeOK
  <2>3. Live
    <3>1. Next
      BY <1>3 DEF Next, Failing
    <3>. QED  BY <2>2, <3>1, LiveStays
  <2>4. CASE c = d
    <3>1. Poll(d)
      BY <1>3, <2>4, KillAfterPoll
    <3>2. ~(Live /\ polls[d] > 0) /\ polls'[d] = polls[d]
      BY <3>1 DEF Poll, TypeOK
    <3>. QED  BY <2>3, <3>2, RuncApiAssumption DEF TypeOK
  <2>5. CASE c # d
    <3>1. pc[d] = "kill" /\ ~blind[d] /\ polls'[d] = polls[d]
      BY <1>3, <2>5, OtherStops
    <3>. QED  BY <2>1, <2>2, <2>3, <3>1 DEF GraceUsed
  <2>. QED  BY <2>4, <2>5
<1>4. CASE Exit \/ Reaped
  BY <1>4 DEF Exit, Reaped, Live, GraceUsed
<1>5. CASE Restart
  BY <1>5 DEF Restart
<1>. QED  BY <1>1, <1>3, <1>4, <1>5 DEF Next, Failing

\* A stop does not send SIGKILL to the container it has sent SIGTERM before it has looked as
\* often as its grace period says, unless one of its own looks failed or timed out, whatever
\* fails or times out elsewhere (stop_container).
THEOREM GraceIsKept == Spec => GraceKept
<1>1. Init => GraceUsed
  BY DEF Init, GraceUsed
<1>2. GraceUsed =>
        [\A c \in Clients :
           pc[c] = "kill" /\ Live /\ pc'[c] = "delete" /\ termed[c] = inc /\ ~blind[c]
             => polls[c] = 0]_vars
  BY DEF GraceUsed
<1>. QED  BY <1>1, <1>2, GraceStep, ApiTypeCorrect, PTL DEF Spec, GraceKept

-----------------------------------------------------------------------------
(***************************************************************************)
(* The endpoints implement ContainerStore.  A call begins a request; a     *)
(* create makes a start's change, a delete and an update make theirs with  *)
(* the answer; the other commands change nothing the store can see.        *)
(***************************************************************************)
LEMMA RequestCases ==
  ASSUME NEW c \in Clients
  PROVE  /\ pc[c] = "idle" => Requests[c] = Store!Idle
         /\ pc[c] \in {"create", "start"} => Requests[c].op = "start"
         /\ pc[c] \in {"term", "poll", "kill", "delete"} => Requests[c].op = "stop"
         /\ pc[c] = "update" => Requests[c].op = "update" /\ Requests[c].limit = asked[c]
         /\ Created[c] = (pc[c] = "start")
         /\ pc[c] \in Commands => Requests[c] # Store!Idle
<1>1. Store!Idle.op = "none"
  BY DEF Store!Idle
<1>. QED  BY <1>1 DEF Requests, Request, Created, Op, Store!Idle, Commands

\* When one client moves, its request is what changes.
LEMMA RequestStep ==
  ASSUME NEW c \in Clients,
         \A d \in Clients \ {c} : pc'[d] = pc[d] /\ asked'[d] = asked[d]
  PROVE  /\ Requests' = [Requests EXCEPT ![c] = Request(pc'[c], asked'[c])]
         /\ Created' = [Created EXCEPT ![c] = (pc'[c] = "start")]
BY DEF Requests, Created, Request

LEMMA AnswerMaps ==
  ASSUME TypeOK, NEW c \in Clients, NEW a \in Answers, Answer(c, a), UNCHANGED asked
  PROVE  Store!Answer(c, a)
<1>1. pc'[c] = "idle" /\ \A d \in Clients \ {c} : pc'[d] = pc[d] /\ asked'[d] = asked[d]
  BY DEF Answer, TypeOK
<1>2. Request("idle", asked'[c]) = Store!Idle
  BY DEF Request, Op, Store!Idle
<1>3. ("idle" = "start") = FALSE
  OBVIOUS
<1>. QED  BY <1>1, <1>2, <1>3, RequestStep DEF Answer, Store!Answer

\* A command whose end is not the request's, and which the store does not see.
LEMMA StutterMaps ==
  ASSUME TypeOK, NEW c \in Clients, NEW l \in Commands, Goto(c, l), UNCHANGED <<asked, limit>>,
         Op(l) = Op(pc[c]), pc[c] # "update", l # "update", pc[c] # "start", l # "start",
         (box' # "absent") = (box # "absent")
  PROVE  UNCHANGED Store!vars
<1>1. pc'[c] = l /\ \A d \in Clients \ {c} : pc'[d] = pc[d]
  BY DEF Goto, TypeOK
<1>2. \A d \in Clients : /\ Request(pc'[d], asked'[d]) = Request(pc[d], asked[d])
                         /\ (pc'[d] = "start") = (pc[d] = "start")
  BY <1>1 DEF Request
<1>3. UNCHANGED <<Requests, Created>>
  BY <1>2 DEF Requests, Created
<1>. QED  BY <1>3 DEF Goto, Store!vars

LEMMA CallMaps ==
  ASSUME TypeOK, NEW c \in Clients, Call(c)
  PROVE  Store!Begin(c)
<1>1. /\ pc[c] = "idle" /\ pc'[c] # "start"
      /\ \A d \in Clients \ {c} : pc'[d] = pc[d] /\ asked'[d] = asked[d]
      /\ UNCHANGED <<box, limit>> /\ ans' = [ans EXCEPT ![c] = NoAnswer]
  BY DEF Call, TypeOK, runc
<1>2. Requests[c] = Store!Idle
  BY <1>1, RequestCases
<1>3. (pc'[c] = "start") = FALSE
  BY <1>1
<1>4. CASE pc'[c] = "create"
  <2>1. Request(pc'[c], asked'[c]) = [op |-> "start", limit |-> Default]
    BY <1>4 DEF Request, Op
  <2>. QED  BY <1>1, <1>2, <1>3, <2>1, RequestStep DEF Store!Begin
<1>5. CASE pc'[c] = "term"
  <2>1. Request(pc'[c], asked'[c]) = [op |-> "stop", limit |-> Default]
    BY <1>5 DEF Request, Op
  <2>. QED  BY <1>1, <1>2, <1>3, <2>1, RequestStep DEF Store!Begin
<1>6. CASE pc'[c] = "update" /\ asked'[c] \in Limits
  <2>1. Request(pc'[c], asked'[c]) = [op |-> "update", limit |-> asked'[c]]
    BY <1>6 DEF Request, Op
  <2>. QED  BY <1>1, <1>2, <1>3, <1>6, <2>1, RequestStep DEF Store!Begin
<1>. QED  BY <1>4, <1>5, <1>6 DEF Call, TypeOK

\* The visible effects of the commands.
LEMMA EffectMaps ==
  ASSUME TypeOK, NEW c \in Clients
  PROVE  /\ pc[c] = "create" /\ DoCreate => Store!Effect(c)
         /\ pc[c] = "delete" /\ DoDelete => Store!Effect(c)
         /\ pc[c] = "update" /\ DoUpdate(c) => Store!Effect(c)
         /\ DoStart \/ DoKill => UNCHANGED limit /\ (box' # "absent") = (box # "absent")
<1>1. Default \notin Limits
  BY RuncApiAssumption
<1>2. CASE pc[c] = "create" /\ DoCreate
  BY <1>2, RequestCases DEF DoCreate, Store!Effect, DoStart, DoKill, Live
<1>3. CASE pc[c] = "delete" /\ DoDelete
  BY <1>3, RequestCases DEF DoDelete, Store!Effect, DoStart, DoKill, Live
<1>4. CASE pc[c] = "update" /\ DoUpdate(c)
  BY <1>4, RequestCases DEF DoUpdate, Live, Store!Effect, DoStart, DoKill
<1>5. ASSUME DoStart \/ DoKill PROVE UNCHANGED limit /\ (box' # "absent") = (box # "absent")
  BY <1>5 DEF DoStart, DoKill
<1>. QED  BY <1>2, <1>3, <1>4, <1>5

LEMMA StartMaps ==
  ASSUME TypeOK, NEW c \in Clients, Create(c) \/ Start(c)
  PROVE  Store!Make(c) \/ Store!Succeed(c) \/ Store!Fail(c) \/ Store!Refuse(c)
<1>1. CASE Create(c) /\ box = "absent"
  <2>1. DoCreate /\ Goto(c, "start") /\ UNCHANGED asked /\ pc[c] = "create"
    BY <1>1 DEF Create, keep
  <2>2. pc'[c] = "start" /\ \A d \in Clients \ {c} : pc'[d] = pc[d] /\ asked'[d] = asked[d]
    BY <2>1 DEF Goto, TypeOK
  <2>3. Requests' = Requests /\ Created' = [Created EXCEPT ![c] = TRUE]
    <3>1. Request(pc'[c], asked'[c]) = Requests[c]
      BY <2>1, <2>2 DEF Requests, Request, Op
    <3>2. (pc'[c] = "start") = TRUE
      BY <2>2
    <3>. QED  BY <2>2, <3>1, <3>2, RequestStep DEF Requests
  <2>4. Requests[c].op = "start" /\ ~Created[c]
    BY <2>1, RequestCases
  <2>. QED  BY <2>1, <2>3, <2>4, EffectMaps DEF Goto, Store!Make
<1>2. CASE Create(c) /\ box # "absent"
  <2>1. Answer(c, 409) /\ UNCHANGED <<box, limit, asked>> /\ pc[c] = "create"
    BY <1>2 DEF Create, keep, runc
  <2>2. Requests[c].op = "start" /\ ~Created[c]
    BY <2>1, RequestCases
  <2>. QED  BY <1>2, <2>1, <2>2, AnswerMaps DEF Store!Refuse, Answers
<1>3. CASE Start(c) /\ box = "created"
  <2>1. Answer(c, 200) /\ UNCHANGED <<limit, asked>> /\ pc[c] = "start" /\ box' = "running"
    BY <1>3 DEF Start, keep, DoStart
  <2>2. Created[c] /\ (box' # "absent") = (box # "absent")
    BY <1>3, <2>1, RequestCases
  <2>. QED  BY <2>1, <2>2, AnswerMaps DEF Store!Succeed, Answers
<1>4. CASE Start(c) /\ box # "created"
  <2>1. /\ Answer(c, 500) /\ UNCHANGED <<limit, asked>> /\ pc[c] = "start"
        /\ (box' # "absent") = (box # "absent")
    BY <1>4 DEF Start, keep, runc
  <2>2. Requests[c] # Store!Idle
    BY <2>1, RequestCases DEF Commands
  <2>. QED  BY <2>1, <2>2, AnswerMaps DEF Store!Fail, Answers
<1>. QED  BY <1>1, <1>2, <1>3, <1>4

LEMMA StopMaps ==
  ASSUME TypeOK, NEW c \in Clients, Term(c) \/ Poll(c) \/ Kill(c) \/ Delete(c)
  PROVE  Store!Succeed(c) \/ Store!Fail(c) \/ Store!Refuse(c) \/ UNCHANGED Store!vars
<1>1. ASSUME NEW l \in {"poll", "kill", "delete"}, Goto(c, l), UNCHANGED <<asked, limit>>,
             (box' # "absent") = (box # "absent"), pc[c] \in {"term", "poll", "kill"}
      PROVE  UNCHANGED Store!vars
  BY <1>1, StutterMaps DEF Op, Commands
<1>2. CASE Term(c)
  BY <1>1, <1>2 DEF Term, runc
<1>3. CASE Poll(c)
  <2>1. CASE Goto(c, "kill")
    BY <1>1, <1>3, <2>1 DEF Poll, runc
  <2>2. CASE UNCHANGED <<pc, ans>>
    BY <1>3, <2>2 DEF Poll, runc, Store!vars, Requests, Created, Request
  <2>. QED  BY <1>3, <2>1, <2>2 DEF Poll
<1>4. CASE Kill(c)
  <2>1. UNCHANGED <<asked, limit>> /\ (box' # "absent") = (box # "absent")
    BY <1>4 DEF Kill, DoKill, runc, keep
  <2>. QED  BY <1>1, <1>4, <2>1 DEF Kill
<1>5. CASE Delete(c)
  <2>1. pc[c] = "delete" /\ UNCHANGED asked
    BY <1>5 DEF Delete, keep
  <2>2. Requests[c].op = "stop" /\ Requests[c] # Store!Idle
    BY <2>1, RequestCases DEF Commands
  <2>3. CASE DoDelete /\ Answer(c, 200)
    BY <2>1, <2>3, EffectMaps, AnswerMaps DEF Store!Succeed, Answers
  <2>4. CASE box = "absent" /\ UNCHANGED runc /\ Answer(c, 404)
    BY <2>1, <2>2, <2>4, AnswerMaps DEF Store!Refuse, Answers, runc
  <2>5. CASE box = "running" /\ UNCHANGED runc /\ Answer(c, 500)
    BY <2>1, <2>2, <2>5, AnswerMaps DEF Store!Fail, Answers, runc
  <2>. QED  BY <1>5, <2>3, <2>4, <2>5 DEF Delete
<1>. QED  BY <1>2, <1>3, <1>4, <1>5

LEMMA UpdateMaps ==
  ASSUME TypeOK, NEW c \in Clients, Update(c)
  PROVE  Store!Succeed(c) \/ Store!Fail(c) \/ Store!Refuse(c)
<1>1. pc[c] = "update" /\ UNCHANGED asked
  BY DEF Update, keep
<1>2. Requests[c].op = "update" /\ Requests[c] # Store!Idle
  BY <1>1, RequestCases DEF Commands
<1>3. CASE DoUpdate(c) /\ Answer(c, 200)
  BY <1>1, <1>3, EffectMaps, AnswerMaps DEF Store!Succeed, Answers
<1>4. CASE box = "absent" /\ UNCHANGED runc /\ Answer(c, 404)
  BY <1>1, <1>2, <1>4, AnswerMaps DEF Store!Refuse, Answers, runc
<1>5. CASE box = "stopped" /\ UNCHANGED runc /\ Answer(c, 500)
  BY <1>1, <1>2, <1>5, AnswerMaps DEF Store!Fail, Answers, runc
<1>. QED  BY <1>3, <1>4, <1>5 DEF Update

\* A command without a result makes its request's change or not; a stop goes on.
LEMMA NoResultMaps ==
  ASSUME TypeOK, NEW c \in Clients, NEW a \in {500, 504}, NoResult(c, a),
         Effect(c) \/ UNCHANGED runc
  PROVE  Store!Fail(c) \/ UNCHANGED Store!vars
<1>1. UNCHANGED asked /\ pc[c] \in Commands
  BY DEF NoResult, TypeOK
<1>2. CASE pc[c] \in {"term", "poll", "kill"}
  <2>1. Goto(c, "poll") \/ Goto(c, "kill") \/ Goto(c, "delete")
    BY <1>2 DEF NoResult
  <2>2. UNCHANGED limit /\ (box' # "absent") = (box # "absent")
    BY <1>1, <1>2, EffectMaps DEF Effect, runc
  <2>. QED  BY <1>1, <1>2, <2>1, <2>2, StutterMaps DEF Op, Commands
<1>3. CASE pc[c] \in {"create", "start", "delete", "update"}
  <2>1. Answer(c, a)
    BY <1>3 DEF NoResult
  <2>2. Store!Answer(c, a) /\ Requests[c] # Store!Idle
    BY <1>1, <2>1, AnswerMaps, RequestCases DEF Answers
  <2>3. CASE UNCHANGED runc
    BY <2>2, <2>3 DEF Store!Fail, runc
  <2>4. CASE pc[c] = "start" /\ DoStart
    <3>1. UNCHANGED limit /\ (box' # "absent") = (box # "absent")
      BY <2>4, EffectMaps
    <3>. QED  BY <2>2, <3>1 DEF Store!Fail
  <2>5. CASE Effect(c) /\ pc[c] # "start"
    <3>1. Store!Effect(c) /\ ~Created[c]
      BY <1>3, <2>5, EffectMaps, RequestCases DEF Effect
    <3>. QED  BY <2>2, <3>1 DEF Store!Fail
  <2>. QED  BY <1>1, <1>3, <2>3, <2>4, <2>5 DEF Effect
<1>. QED  BY <1>1, <1>2, <1>3 DEF Commands

LEMMA FailingMaps ==
  ASSUME TypeOK, NEW c \in Clients, Failing(c)
  PROVE  Store!Fail(c) \/ UNCHANGED Store!vars
<1>1. CASE NoResult(c, 504) /\ (Effect(c) \/ UNCHANGED runc)
  BY <1>1, NoResultMaps
<1>2. CASE NoResult(c, 500) /\ (Effect(c) \/ UNCHANGED runc)
  BY <1>2, NoResultMaps
<1>3. ASSUME Answer(c, 500), pc[c] \in Commands, UNCHANGED <<limit, asked>>,
             (box' # "absent") = (box # "absent")
      PROVE  Store!Fail(c)
  BY <1>3, AnswerMaps, RequestCases DEF Store!Fail, Answers
<1>4. CASE /\ NoResult(c, 500)
           /\ pc[c] = "start" /\ box = "created" /\ box' = "stopped" /\ UNCHANGED <<inc, dying, limit>>
  <2>1. Answer(c, 500) /\ UNCHANGED asked
    BY <1>4 DEF NoResult
  <2>. QED  BY <1>3, <1>4, <2>1 DEF Commands
<1>5. CASE CannotRun(c)
  BY <1>3, <1>5 DEF CannotRun, TypeOK, runc
<1>. QED  BY <1>1, <1>2, <1>4, <1>5 DEF Failing, TimeOut, Fails

LEMMA RestartMaps == ASSUME TypeOK, Restart PROVE Store!Restart
<1>1. \A c \in Clients : pc'[c] = "idle"
  BY DEF Restart
<1>2. Requests' = [c \in Clients |-> Store!Idle]
  BY <1>1 DEF Requests, Request, Op, Store!Idle
<1>3. Created' = [c \in Clients |-> FALSE]
  BY <1>1 DEF Created
<1>. QED  BY <1>2, <1>3 DEF Restart, Store!Restart, runc

LEMMA InitMaps == Init => Store!Init
<1>. SUFFICES ASSUME Init PROVE Store!Init
  OBVIOUS
<1>1. \A c \in Clients : pc[c] = "idle"
  BY DEF Init
<1>2. Requests = [c \in Clients |-> Store!Idle]
  BY <1>1 DEF Requests, Request, Op, Store!Idle
<1>3. Created = [c \in Clients |-> FALSE]
  BY <1>1 DEF Created
<1>. QED  BY <1>2, <1>3 DEF Init, Store!Init

LEMMA NextMaps == TypeOK /\ [Next]_vars => [Store!Next]_(Store!vars)
<1>. SUFFICES ASSUME TypeOK, [Next]_vars PROVE Store!Next \/ UNCHANGED Store!vars
  OBVIOUS
<1>1. CASE UNCHANGED vars
  BY <1>1 DEF vars, runc, Store!vars, Requests, Created, Request
<1>2. CASE Exit \/ Reaped
  <2>1. UNCHANGED <<pc, asked, ans, limit>> /\ (box' # "absent") = (box # "absent")
    BY <1>2 DEF Exit, Reaped, Live
  <2>. QED  BY <2>1 DEF Store!vars, Requests, Created, Request
<1>3. CASE Restart
  BY <1>3, RestartMaps DEF Store!Next
<1>4. ASSUME NEW c \in Clients, Call(c) \/ Run(c) \/ Failing(c)
      PROVE  Store!Next \/ UNCHANGED Store!vars
  <2>1. CASE Call(c)
    BY <2>1, CallMaps DEF Store!Next
  <2>2. CASE Create(c) \/ Start(c)
    BY <2>2, StartMaps DEF Store!Next
  <2>3. CASE Term(c) \/ Poll(c) \/ Kill(c) \/ Delete(c)
    BY <2>3, StopMaps DEF Store!Next
  <2>4. CASE Update(c)
    BY <2>4, UpdateMaps DEF Store!Next
  <2>5. CASE Failing(c)
    BY <2>5, FailingMaps DEF Store!Next
  <2>. QED  BY <1>4, <2>1, <2>2, <2>3, <2>4, <2>5 DEF Run
<1>. QED  BY <1>1, <1>2, <1>3, <1>4 DEF Next, Failing

\* Every answer is true: a request changes the container at most once, at an instant between
\* its call and its answer, and 200, 404 and 409 say what held at that instant, whatever
\* other requests, time-outs, failures and restarts do (start, stop and update).
THEOREM AnswersAreTrue == Spec => ImplementsStore
BY InitMaps, NextMaps, ApiTypeCorrect, PTL DEF Spec, ImplementsStore, Store!Spec
=============================================================================
