-------------------------------- MODULE RuncApi --------------------------------
(***************************************************************************)
(* runtime/runc_edge_api/api.py: requests about one container, each a      *)
(* sequence of runc commands that run in threads, any number of requests   *)
(* at a time and no lock between them.  A command may fail for a reason of *)
(* its own, or outlast its timeout and be killed, and in either case may   *)
(* have done its work or not.  runc and the container's process are the    *)
(* environment.                                                            *)
(***************************************************************************)
EXTENDS Naturals

CONSTANTS Clients,   \* requests in progress, at most one per client
          Limits,    \* resource settings a client may ask for
          Default,   \* those of a new container
          Grace,     \* grace_period: how often a stop looks whether the process has ended
          NoAnswer,
          Budget     \* how many calls, timeouts, exits and failures there are

Resources == {"call", "timeout", "exit", "fault"}

ASSUME RuncApiAssumption ==
  /\ Default \notin Limits
  /\ Grace \in Nat
  /\ NoAnswer \notin Nat
  /\ Budget \in [Resources -> Nat]

VARIABLES
  box,     \* runc's state of the container
  inc,     \* how many containers have been created under the name
  dying,   \* its process has been sent SIGKILL
  limit,   \* its resource settings
  pc,      \* per client: the command its request runs, or "idle"
  asked,   \* per client: the settings an update asks for
  polls,   \* per client: how often a stop will still look at the state
  termed,  \* per client: the container its stop has sent SIGTERM to
  blind,   \* per client: its stop goes on to SIGKILL because a look at the state failed
  ans,     \* per client: the last answer
  clean,   \* history: no command timed out or failed of its own, the server never died
  budget   \* what is left of Budget

runc == <<box, inc, dying, limit>>
vars == <<runc, pc, asked, polls, termed, blind, ans, clean, budget>>

Spend(r) == /\ budget[r] > 0
            /\ budget' = [budget EXCEPT ![r] = @ - 1]

Live == box \in {"created", "running"}

-----------------------------------------------------------------------------
(***************************************************************************)
(* What the runc commands do when they succeed.                            *)
(***************************************************************************)
DoCreate == /\ box = "absent" /\ box' = "created"
            /\ inc' = inc + 1
            /\ limit' = Default /\ dying' = FALSE
DoStart  == box = "created" /\ box' = "running" /\ UNCHANGED <<inc, dying, limit>>
DoKill   == Live /\ dying' = TRUE /\ UNCHANGED <<box, inc, limit>>
DoDelete == /\ box \in {"created", "stopped"} /\ box' = "absent"
            /\ limit' = Default /\ dying' = FALSE
            /\ UNCHANGED inc
DoUpdate(c) == Live /\ limit' = asked[c] /\ UNCHANGED <<box, inc, dying>>

\* The process ends: it was killed, it obeys SIGTERM, or it has finished.
Exit ==
  /\ box = "running" /\ Spend("exit")
  /\ box' = "stopped"
  /\ UNCHANGED <<inc, dying, limit, pc, asked, polls, termed, blind, ans, clean>>

Reaped ==
  /\ Live /\ dying
  /\ box' = "stopped"
  /\ UNCHANGED <<inc, dying, limit, pc, asked, polls, termed, blind, ans, clean, budget>>

-----------------------------------------------------------------------------
(***************************************************************************)
(* The requests.                                                           *)
(***************************************************************************)
Goto(c, l)   == pc' = [pc EXCEPT ![c] = l] /\ UNCHANGED ans
Answer(c, a) == pc' = [pc EXCEPT ![c] = "idle"] /\ ans' = [ans EXCEPT ![c] = a]

Call(c) ==
  /\ pc[c] = "idle" /\ Spend("call")
  /\ \/ pc' = [pc EXCEPT ![c] = "create"] /\ asked' = asked
     \/ pc' = [pc EXCEPT ![c] = "term"] /\ asked' = asked
     \/ /\ pc' = [pc EXCEPT ![c] = "update"]
        /\ \E v \in Limits : asked' = [asked EXCEPT ![c] = v]
  /\ ans' = [ans EXCEPT ![c] = NoAnswer]
  /\ UNCHANGED <<runc, polls, termed, blind, clean>>

keep == <<asked, polls, termed, blind, clean, budget>>

CreateOnly(c) ==                           \* mutant: the answer comes after runc create
  /\ pc[c] = "create"
  /\ IF box = "absent" THEN DoCreate /\ Answer(c, 200)
                       ELSE UNCHANGED runc /\ Answer(c, 409)
  /\ UNCHANGED keep

\* start_container
Create(c) ==
  /\ pc[c] = "create"
  /\ IF box = "absent" THEN DoCreate /\ Goto(c, "start")
                       ELSE UNCHANGED runc /\ Answer(c, 409)
  /\ UNCHANGED keep

Start(c) ==
  /\ pc[c] = "start"
  /\ IF box = "created" THEN DoStart /\ Answer(c, 200)
                        ELSE UNCHANGED runc /\ Answer(c, 500)
  /\ UNCHANGED keep

\* stop_container: SIGTERM, whose failure is of no account
Term(c) ==
  /\ pc[c] = "term"
  /\ termed' = [termed EXCEPT ![c] = IF Live THEN inc ELSE 0]
  /\ polls' = [polls EXCEPT ![c] = Grace]
  /\ Goto(c, "poll")
  /\ UNCHANGED <<runc, asked, blind, clean, budget>>

PollPastEnd(c) ==                          \* mutant: one look more than there is time for
  /\ pc[c] = "poll"
  /\ IF Live /\ polls[c] + 1 > 0
     THEN polls' = [polls EXCEPT ![c] = @ - 1] /\ UNCHANGED <<pc, ans>>
     ELSE Goto(c, "kill") /\ UNCHANGED polls
  /\ UNCHANGED <<runc, asked, termed, blind, clean, budget>>

PollOnce(c) ==                             \* mutant: the state is looked at once
  /\ pc[c] = "poll"
  /\ Goto(c, "kill")
  /\ UNCHANGED <<runc, asked, polls, termed, blind, clean, budget>>

PollForever(c) ==                          \* mutant: the looks are not counted
  /\ pc[c] = "poll"
  /\ IF Live THEN UNCHANGED <<pc, ans>> ELSE Goto(c, "kill")
  /\ UNCHANGED <<runc, asked, polls, termed, blind, clean, budget>>

\* then once a second runc state, until it is "stopped" or there is none, then SIGKILL
Poll(c) ==
  /\ pc[c] = "poll"
  /\ IF Live /\ polls[c] > 0
     THEN polls' = [polls EXCEPT ![c] = @ - 1] /\ UNCHANGED <<pc, ans>>
     ELSE Goto(c, "kill") /\ UNCHANGED polls
  /\ UNCHANGED <<runc, asked, termed, blind, clean, budget>>

Kill(c) ==
  /\ pc[c] = "kill"
  /\ DoKill \/ (~Live /\ UNCHANGED runc)
  /\ Goto(c, "delete")
  /\ blind' = [blind EXCEPT ![c] = FALSE]
  /\ UNCHANGED <<asked, polls, termed, clean, budget>>

DeleteForgiving(c) ==                      \* mutant: a delete that fails is no error
  /\ pc[c] = "delete"
  /\ \/ DoDelete /\ Answer(c, 200)
     \/ box \in {"absent", "running"} /\ UNCHANGED runc /\ Answer(c, 200)
  /\ UNCHANGED keep

Delete(c) ==
  /\ pc[c] = "delete"
  /\ \/ DoDelete /\ Answer(c, 200)
     \/ box = "absent" /\ UNCHANGED runc /\ Answer(c, 404)
     \/ box = "running" /\ UNCHANGED runc /\ Answer(c, 500)
  /\ UNCHANGED keep

\* update_resources
Update(c) ==
  /\ pc[c] = "update"
  /\ \/ DoUpdate(c) /\ Answer(c, 200)
     \/ box = "absent" /\ UNCHANGED runc /\ Answer(c, 404)
     \/ box = "stopped" /\ UNCHANGED runc /\ Answer(c, 500)
  /\ UNCHANGED keep

-----------------------------------------------------------------------------
(***************************************************************************)
(* Commands that fail (_run_runc), and the death of the server.            *)
(***************************************************************************)
Effect(c) ==
  \/ pc[c] = "create" /\ DoCreate
  \/ pc[c] = "start"  /\ DoStart
  \/ pc[c] = "kill"   /\ DoKill
  \/ pc[c] = "delete" /\ DoDelete
  \/ pc[c] = "update" /\ DoUpdate(c)

\* A command brings no result.  Its request has the answer a; but a stop goes on, if
\* the command is not its delete, and at once to SIGKILL if it is a look at the state.
NoResult(c, a) ==
  /\ pc[c] # "idle"
  /\ pc[c] = "poll" => polls[c] > 0
  /\ CASE pc[c] = "term" -> Goto(c, "poll")
       [] pc[c] = "poll" -> Goto(c, "kill")
       [] pc[c] = "kill" -> Goto(c, "delete")
       [] OTHER          -> Answer(c, a)
  /\ polls' = IF pc[c] = "term" THEN [polls EXCEPT ![c] = Grace] ELSE polls
  /\ termed' \in IF pc[c] = "term" /\ Live THEN {termed, [termed EXCEPT ![c] = inc]} ELSE {termed}
  /\ blind' = [blind EXCEPT ![c] = (pc[c] = "poll")]
  /\ clean' = FALSE
  /\ UNCHANGED asked

TimeOut(c) ==
  /\ Spend("timeout")
  /\ Effect(c) \/ UNCHANGED runc
  /\ NoResult(c, 504)

\* It exits with an error for a reason of its own, or runc state prints no JSON; a start
\* that cannot execute the process may leave the container stopped.
Fails(c) ==
  /\ Spend("fault")
  /\ \/ Effect(c) \/ UNCHANGED runc
     \/ pc[c] = "start" /\ box = "created" /\ box' = "stopped" /\ UNCHANGED <<inc, dying, limit>>
  /\ NoResult(c, 500)

\* runc cannot be executed at all: no endpoint catches that.
CannotRun(c) ==
  /\ Spend("fault")
  /\ pc[c] # "idle"
  /\ Answer(c, 500)
  /\ blind' = [blind EXCEPT ![c] = FALSE]
  /\ clean' = FALSE
  /\ UNCHANGED <<runc, asked, polls, termed>>

Restart ==
  /\ Spend("fault")
  /\ pc' = [c \in Clients |-> "idle"]
  /\ blind' = [c \in Clients |-> FALSE]
  /\ clean' = FALSE
  /\ UNCHANGED <<runc, asked, polls, termed, ans>>

-----------------------------------------------------------------------------
Init ==
  /\ box = "absent" /\ inc = 0 /\ dying = FALSE /\ limit = Default
  /\ pc = [c \in Clients |-> "idle"]
  /\ asked = [c \in Clients |-> Default]
  /\ polls = [c \in Clients |-> 0]
  /\ termed = [c \in Clients |-> 0]
  /\ blind = [c \in Clients |-> FALSE]
  /\ ans = [c \in Clients |-> NoAnswer]
  /\ clean = TRUE
  /\ budget = Budget

Run(c) == \/ Create(c) \/ Start(c)
          \/ Term(c) \/ Poll(c) \/ Kill(c) \/ Delete(c)
          \/ Update(c)

Next == \/ \E c \in Clients : Call(c) \/ Run(c) \/ TimeOut(c) \/ Fails(c) \/ CannotRun(c)
        \/ Exit \/ Reaped \/ Restart

Spec     == Init /\ [][Next]_vars
FairSpec == Spec /\ \A c \in Clients : WF_vars(Run(c))

-----------------------------------------------------------------------------
(***************************************************************************)
(* Properties.                                                             *)
(***************************************************************************)
Commands == {"create", "start", "term", "poll", "kill", "delete", "update"}
Answers  == {200, 404, 409, 500, 504}

TypeOK ==
  /\ box \in {"absent", "created", "running", "stopped"}
  /\ inc \in Nat /\ dying \in BOOLEAN /\ limit \in Limits \cup {Default}
  /\ (box = "absent" => limit = Default /\ ~dying)
  /\ pc \in [Clients -> Commands \cup {"idle"}]
  /\ asked \in [Clients -> Limits \cup {Default}]
  /\ polls \in [Clients -> 0 .. Grace]
  /\ termed \in [Clients -> Nat] /\ \A c \in Clients : termed[c] <= inc
  /\ blind \in [Clients -> BOOLEAN]
  /\ ans \in [Clients -> Answers \cup {NoAnswer}]
  /\ clean \in BOOLEAN
  /\ budget \in [Resources -> Nat]

\* Nothing is left half-started by requests that interfere: while no command has timed out
\* or failed of its own, a container that is created and not started belongs to a start
\* that is still about to start one (start_container: create, then start).
CreatedIsPending ==
  clean /\ box = "created" => \E c \in Clients : pc[c] = "start"

\* A container that a stop has sent SIGTERM is not sent SIGKILL by that stop before the
\* grace period is over, unless its process has ended, or a look of that very stop at the
\* state failed or timed out (stop_container: "proceed"); what goes wrong in other
\* requests makes no difference.  A container created in between is another matter.
GraceKept ==
  [][ \A c \in Clients :
        pc[c] = "kill" /\ Live /\ pc'[c] = "delete" /\ termed[c] = inc /\ ~blind[c]
          => polls[c] = 0 ]_vars

\* Every request is answered: each command has a timeout, and a stop looks at the state a
\* bounded number of times.
RequestAnswered == \A c \in Clients : pc[c] # "idle" ~> pc[c] = "idle"

\* The requests change the container as ContainerStore says, whatever else goes on.
Op(l) == CASE l \in {"create", "start"}                 -> "start"
           [] l \in {"term", "poll", "kill", "delete"} -> "stop"
           [] l = "update"                             -> "update"
           [] OTHER                                    -> "none"
Request(l, v) == [op |-> Op(l), limit |-> IF l = "update" THEN v ELSE Default]

Requests == [c \in Clients |-> Request(pc[c], asked[c])]
Created  == [c \in Clients |-> pc[c] = "start"]
Store    == INSTANCE ContainerStore WITH there <- box # "absent", req <- Requests, done <- Created

ImplementsStore == Store!Spec

\* The docstring of stop_container: SIGKILL is sent only after the grace period, to a
\* process that was asked to end.
AskedFirst ==
  [][ \A c \in Clients :
        pc[c] = "kill" /\ Live /\ ~dying /\ dying' /\ pc'[c] = "delete"
        => polls[c] = 0 /\ termed[c] = inc ]_vars
=============================================================================
