-------------------------------- MODULE Decoder --------------------------------
(***************************************************************************)
(* autoscale/decoder.py: one MQTT subscriber.  The main thread opens the   *)
(* SQLite connections, connects, and waits for SIGTERM; the client's       *)
(* network thread keeps the session up, subscribes, and runs on_message:   *)
(* parse, hand over to the processor, or record a failure in the dead-     *)
(* letter queue.  The broker, the network and the adjuster, which sends    *)
(* SIGTERM and later SIGKILL, are the environment.                         *)
(***************************************************************************)
EXTENDS Naturals, Sequences, FiniteSets

CONSTANTS Msgs,       \* what is published, each once
          Malformed,  \* those of Msgs that cannot be parsed or normalised
          Processor,  \* --processor: "lineprotocol" or "sqlite"
          NoMsg,      \* the network thread handles nothing
          MaxDrops    \* how often the connection is lost or refused

ASSUME DecoderAssumption ==
  /\ Malformed \subseteq Msgs /\ NoMsg \notin Msgs
  /\ Processor \in {"lineprotocol", "sqlite"}
  /\ MaxDrops \in Nat

VARIABLES
  mpc,      \* the main thread, in run()
  npc,      \* the network thread
  cur,      \* the message on_message handles
  link,     \* the connection: "down", "open" (no CONNACK yet), "sub" (subscribed)
  flight,   \* messages the broker has sent on it
  fate,     \* history: what became of each message
  stop,     \* stop_event
  bye,      \* client.disconnect() has been called
  quit,     \* loop_stop() has been called
  conns,    \* the SQLite connections are open
  drops     \* what is left of MaxDrops

broker == <<link, flight>>
flags  == <<stop, bye, quit>>
vars   == <<mpc, npc, cur, broker, fate, flags, conns, drops>>

Handling == npc \in {"parse", "dlq"}
Running  == mpc # "exited"

-----------------------------------------------------------------------------
(***************************************************************************)
(* The main thread.                                                        *)
(***************************************************************************)
\* client.connect opens the connection, and forgets a disconnect() before it;
\* loop_start starts the thread that reads the CONNACK.
Connect ==
  /\ mpc = "connect"
  /\ link' = "open" /\ bye' = FALSE
  /\ npc' = "idle"
  /\ mpc' = "wait"
  /\ UNCHANGED <<cur, flight, fate, stop, quit, conns, drops>>

ConnectFails ==
  /\ mpc = "connect" /\ drops > 0
  /\ drops' = drops - 1
  /\ mpc' = "close"
  /\ UNCHANGED <<npc, cur, broker, fate, flags, conns>>

\* stop_event.wait returns, and loop_stop tells the thread to end.
Stopped ==
  /\ mpc = "wait" /\ stop
  /\ quit' = TRUE
  /\ mpc' = "join"
  /\ UNCHANGED <<npc, cur, broker, fate, stop, bye, conns, drops>>

JoinNot ==                                  \* mutant: nobody waits for the thread
  /\ mpc = "join"
  /\ mpc' = "close"
  /\ UNCHANGED <<npc, cur, broker, fate, flags, conns, drops>>

\* loop_stop joins it; a thread that died of an exception is joined at once.
Join ==
  /\ mpc = "join" /\ npc \in {"ended", "dead"}
  /\ mpc' = "close"
  /\ UNCHANGED <<npc, cur, broker, fate, flags, conns, drops>>

\* close() of the processor and of the dead-letter queue, and return.
Close ==
  /\ mpc = "close"
  /\ conns' = FALSE
  /\ mpc' = "exited"
  /\ link' = "down" /\ flight' = <<>>
  /\ UNCHANGED <<npc, cur, fate, flags, drops>>

\* The handler of SIGTERM and SIGINT runs on the main thread.
Sigterm ==
  /\ Running /\ ~stop
  /\ stop' = TRUE
  /\ bye' = TRUE
  /\ UNCHANGED <<mpc, npc, cur, broker, fate, quit, conns, drops>>

\* terminate_decoder of the adjuster kills what has not ended after five seconds.
Sigkill ==
  /\ Running /\ stop
  /\ mpc' = "exited" /\ npc' = "dead" /\ conns' = FALSE
  /\ link' = "down" /\ flight' = <<>>
  /\ fate' = [m \in Msgs |-> IF m = cur THEN "killed" ELSE fate[m]]
  /\ cur' = NoMsg
  /\ UNCHANGED <<flags, drops>>

-----------------------------------------------------------------------------
(***************************************************************************)
(* The network thread.                                                     *)
(***************************************************************************)
SubscribeOnce ==                            \* mutant: the subscription is left to the session
  /\ npc = "idle" /\ link = "open"
  /\ link' = IF drops = MaxDrops THEN "sub" ELSE "open"
  /\ UNCHANGED <<mpc, npc, cur, flight, fate, flags, conns, drops>>

\* on_connect subscribes, at the first CONNACK and at every later one: the session
\* is a clean one and the broker remembers nothing.
OnConnect ==
  /\ npc = "idle" /\ link = "open"
  /\ link' = "sub"
  /\ UNCHANGED <<mpc, npc, cur, flight, fate, flags, conns, drops>>

\* The loop reconnects by itself, with a growing delay; a disconnect() that comes
\* while it does so is forgotten.
Reconnect ==
  /\ npc = "idle" /\ link = "down" /\ ~quit
  /\ link' = "open" /\ bye' = FALSE
  /\ UNCHANGED <<mpc, npc, cur, flight, fate, stop, quit, conns, drops>>

OnMessage ==
  /\ npc = "idle" /\ link = "sub" /\ flight # <<>>
  /\ cur' = Head(flight)
  /\ flight' = Tail(flight)
  /\ fate' = [fate EXCEPT ![cur'] = "taken"]
  /\ npc' = "parse"
  /\ UNCHANGED <<mpc, link, flags, conns, drops>>

\* sqlite3.connect without check_same_thread: only the thread that has opened a
\* connection may use it.  The main thread has.
Usable(thread) == conns /\ thread = "main"

\* json.loads, normalize_payload and the processor; any exception goes to the queue.
Accepted(m) == m \notin Malformed /\ (Processor = "sqlite" => Usable("network"))

Process ==
  /\ npc = "parse"
  /\ IF Accepted(cur)
     THEN /\ fate' = [fate EXCEPT ![cur] = "processed"]
          /\ npc' = "idle" /\ cur' = NoMsg
     ELSE npc' = "dlq" /\ UNCHANGED <<fate, cur>>
  /\ UNCHANGED <<mpc, broker, flags, conns, drops>>

RecordGoesOn ==                            \* mutant: the failure is swallowed half-way
  /\ npc = "dlq"
  /\ fate' = [fate EXCEPT ![cur] = "lost"]
  /\ npc' = "idle"
  /\ UNCHANGED <<mpc, cur, broker, flags, conns, drops>>

\* dlq.record.  If it raises, the exception leaves on_message and ends the thread.
Record ==
  /\ npc = "dlq"
  /\ fate' = [fate EXCEPT ![cur] = IF Usable("network") THEN "dead letter" ELSE "lost"]
  /\ npc' = IF Usable("network") THEN "idle" ELSE "dead"
  /\ cur' = NoMsg
  /\ UNCHANGED <<mpc, broker, flags, conns, drops>>

LoopEndsOnBye ==                            \* mutant: only the DISCONNECT ends the loop
  /\ npc = "idle" /\ bye /\ link # "down"
  /\ npc' = "ended"
  /\ UNCHANGED <<mpc, cur, broker, fate, flags, conns, drops>>

\* The loop looks at both between two packets.
LoopEnds ==
  /\ npc = "idle" /\ (bye \/ quit)
  /\ npc' = "ended"
  /\ UNCHANGED <<mpc, cur, broker, fate, flags, conns, drops>>

-----------------------------------------------------------------------------
(***************************************************************************)
(* The broker and the network.                                             *)
(***************************************************************************)
\* QoS 0: whoever is not subscribed when a message is published misses it.
Publish(m) ==
  /\ fate[m] = "new"
  /\ IF link = "sub" THEN /\ flight' = Append(flight, m)
                          /\ fate' = [fate EXCEPT ![m] = "sent"]
     ELSE fate' = [fate EXCEPT ![m] = "missed"] /\ UNCHANGED flight
  /\ UNCHANGED <<mpc, npc, cur, link, flags, conns, drops>>

\* The connection breaks, or the broker refuses it; what it carried is lost.
Drop ==
  /\ link # "down" /\ drops > 0
  /\ link' = "down" /\ flight' = <<>>
  /\ drops' = drops - 1
  /\ UNCHANGED <<mpc, npc, cur, fate, flags, conns>>

-----------------------------------------------------------------------------
Init ==
  /\ mpc = "connect" /\ npc = "none" /\ cur = NoMsg
  /\ link = "down" /\ flight = <<>>
  /\ fate = [m \in Msgs |-> "new"]
  /\ stop = FALSE /\ bye = FALSE /\ quit = FALSE
  /\ conns = TRUE
  /\ drops = MaxDrops

Main    == Connect \/ Stopped \/ Join \/ Close
Network == OnConnect \/ Reconnect \/ OnMessage \/ Process \/ Record \/ LoopEnds

Next == \/ Main \/ Network
        \/ ConnectFails \/ Drop \/ Sigterm \/ Sigkill
        \/ \E m \in Msgs : Publish(m)

Spec     == Init /\ [][Next]_vars
FairSpec == Spec /\ WF_vars(Main) /\ WF_vars(Network)

-----------------------------------------------------------------------------
(***************************************************************************)
(* Properties.                                                             *)
(***************************************************************************)
TypeOK ==
  /\ mpc \in {"connect", "wait", "join", "close", "exited"}
  /\ npc \in {"none", "idle", "parse", "dlq", "ended", "dead"}
  /\ cur \in Msgs \cup {NoMsg} /\ (Handling <=> cur # NoMsg)
  /\ link \in {"down", "open", "sub"} /\ flight \in Seq(Msgs)
  /\ fate \in [Msgs -> {"new", "missed", "sent", "taken", "processed", "dead letter",
                        "lost", "killed"}]
  /\ stop \in BOOLEAN /\ bye \in BOOLEAN /\ quit \in BOOLEAN /\ conns \in BOOLEAN
  /\ drops \in 0 .. MaxDrops

\* The SQLite connections are closed only when no on_message is under way, and a decoder
\* that ends, in whatever order SIGTERM, messages and connection losses come, has finished
\* the message it had begun (run: loop_stop joins the thread before close).
SettledAtExit ==
  /\ ~conns => ~Handling
  /\ mpc = "exited" => \A m \in Msgs : fate[m] # "taken"

\* A decoder that is told to stop ends by itself, also while it is connecting, has lost
\* its broker, is in the middle of a message, or has lost its network thread.
ExitsOnStop == stop ~> mpc = "exited"

\* After every loss of the connection the decoder subscribes again, unless it stops or its
\* network thread has died (on_connect).
SubscribesAgain ==
  npc = "idle" /\ link # "sub" ~> link = "sub" \/ stop \/ npc = "dead"

\* docs/autoscale.md: every message whose processing fails is written to the dead-letter
\* queue.  It is not: the queue's connection belongs to the main thread.
FailuresAreKept == \A m \in Msgs : fate[m] # "lost"
=============================================================================
