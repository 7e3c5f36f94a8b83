---------------------------- MODULE ContainerStore ----------------------------
(***************************************************************************)
(* What the container API promises, for one container: a request changes   *)
(* it at most once, at one instant between the call and the answer; 200    *)
(* means that it has, 409 and 404 mean that at some such instant the       *)
(* container was there, or was not.  500 and 504 promise nothing: the      *)
(* change may have been made or not.                                       *)
(***************************************************************************)
EXTENDS Naturals

CONSTANTS Clients,
          Limits,     \* resource settings
          Default,    \* the settings of a new container
          NoAnswer

VARIABLES
  there,    \* does the container exist?
  limit,    \* its settings
  req,      \* per client: the request it waits for
  done,     \* per client: has its start created the container?
  ans       \* per client: the last answer

vars == <<there, limit, req, done, ans>>

Idle == [op |-> "none", limit |-> Default]

Begin(c) ==
  /\ req[c] = Idle
  /\ \/ \E o \in {"start", "stop"} : req' = [req EXCEPT ![c] = [op |-> o, limit |-> Default]]
     \/ \E v \in Limits : req' = [req EXCEPT ![c] = [op |-> "update", limit |-> v]]
  /\ done' = [done EXCEPT ![c] = FALSE]
  /\ ans' = [ans EXCEPT ![c] = NoAnswer]
  /\ UNCHANGED <<there, limit>>

\* The change a request asks for, where it is possible.
Effect(c) ==
  \/ req[c].op = "start" /\ ~there /\ there' /\ limit' = Default
  \/ req[c].op = "stop" /\ there /\ ~there' /\ limit' = Default
  \/ req[c].op = "update" /\ there /\ there' /\ limit' = req[c].limit

\* A start makes its change some time before it answers.
Make(c) ==
  /\ req[c].op = "start" /\ ~done[c]
  /\ Effect(c)
  /\ done' = [done EXCEPT ![c] = TRUE]
  /\ UNCHANGED <<req, ans>>

Answer(c, a) == /\ ans' = [ans EXCEPT ![c] = a]
                /\ req' = [req EXCEPT ![c] = Idle]
                /\ done' = [done EXCEPT ![c] = FALSE]

\* Success, with the change; an answer that leaves it open; a refusal that is true.
Succeed(c) == /\ \/ Effect(c)
                 \/ done[c] /\ UNCHANGED <<there, limit>>
              /\ Answer(c, 200)
Fail(c)    == /\ req[c] # Idle
              /\ \/ ~done[c] /\ Effect(c)
                 \/ UNCHANGED <<there, limit>>
              /\ \E a \in {500, 504} : Answer(c, a)
Refuse(c)  == /\ \/ req[c].op = "start" /\ there /\ ~done[c] /\ Answer(c, 409)
                 \/ req[c].op \in {"stop", "update"} /\ ~there /\ Answer(c, 404)
              /\ UNCHANGED <<there, limit>>

\* The server dies: nobody is answered any more.
Restart == /\ req' = [c \in Clients |-> Idle]
           /\ done' = [c \in Clients |-> FALSE]
           /\ UNCHANGED <<there, limit, ans>>

Init == /\ there = FALSE /\ limit = Default
        /\ req = [c \in Clients |-> Idle]
        /\ done = [c \in Clients |-> FALSE]
        /\ ans = [c \in Clients |-> NoAnswer]

Next == Restart \/ \E c \in Clients : Begin(c) \/ Make(c) \/ Succeed(c) \/ Fail(c) \/ Refuse(c)

Spec == Init /\ [][Next]_vars
=============================================================================
