---------------------------- MODULE Decoder_proofs ----------------------------
(***************************************************************************)
(* Theorems about Decoder, for any messages, any number of connection      *)
(* losses, and SIGTERM and SIGKILL at any time.                            *)
(***************************************************************************)
EXTENDS Decoder, SequenceTheorems, TLAPS

\* The main thread starts the network thread, and closes the databases only when there
\* is none, or when it has ended or died.
Joined == mpc \in {"close", "exited"} => npc \in {"none", "ended", "dead"}
Begun  == mpc = "connect" => npc = "none"

LEMMA PlacesStep == Joined /\ Begun /\ [Next]_vars => (Joined /\ Begun)'
BY DEF Joined, Begun, vars, Next, Main, Network, Connect, Stopped, Join, Close, OnConnect,
       Reconnect, OnMessage, Process, Record, LoopEnds, ConnectFails, Drop, Sigterm, Sigkill,
       Publish

\* The types in two parts: the flags, and the rest.
FlagsOK == stop \in BOOLEAN /\ bye \in BOOLEAN /\ quit \in BOOLEAN /\ conns \in BOOLEAN

Fates == {"new", "missed", "sent", "taken", "processed", "dead letter", "lost", "killed"}
DataOK ==
  /\ mpc \in {"connect", "wait", "join", "close", "exited"}
  /\ npc \in {"none", "idle", "parse", "dlq", "ended", "dead"}
  /\ cur \in Msgs \cup {NoMsg} /\ (Handling <=> cur # NoMsg)
  /\ link \in {"down", "open", "sub"} /\ flight \in Seq(Msgs)
  /\ fate \in [Msgs -> Fates]
  /\ drops \in 0 .. MaxDrops

LEMMA PlacesInit == Init => Joined /\ Begun
BY DEF Init, Joined, Begun

LEMMA TypeParts == TypeOK <=> FlagsOK /\ DataOK
BY DEF TypeOK, FlagsOK, DataOK, Fates

LEMMA EmptyFlight == <<>> \in Seq(Msgs)
BY EmptySeq

LEMMA FlagsStep == FlagsOK /\ [Next]_vars => FlagsOK'
<1>. SUFFICES ASSUME FlagsOK, [Next]_vars PROVE FlagsOK'
  OBVIOUS
<1>. USE DEF FlagsOK
<1>1. CASE UNCHANGED flags /\ UNCHANGED conns
  BY <1>1 DEF flags
<1>2. CASE Connect \/ Reconnect
  <2>1. bye' \in BOOLEAN
    BY <1>2, Zenon DEF Connect, Reconnect
  <2>. QED  BY <1>2, <2>1 DEF Connect, Reconnect
<1>3. CASE Stopped
  <2>1. quit' \in BOOLEAN
    BY <1>3, Zenon DEF Stopped
  <2>. QED  BY <1>3, <2>1 DEF Stopped
<1>4. CASE Sigterm
  <2>1. stop' \in BOOLEAN /\ bye' \in BOOLEAN
    BY <1>4, Zenon DEF Sigterm
  <2>. QED  BY <1>4, <2>1 DEF Sigterm
<1>5. CASE Close \/ Sigkill
  <2>1. conns' \in BOOLEAN
    BY <1>5, Zenon DEF Close, Sigkill
  <2>. QED  BY <1>5, <2>1 DEF Close, Sigkill, flags
<1>6. CASE Join \/ OnConnect \/ OnMessage \/ Process \/ Record \/ LoopEnds
           \/ ConnectFails \/ Drop \/ \E m \in Msgs : Publish(m)
  BY <1>1, <1>6 DEF Join, OnConnect, OnMessage, Process, Record, LoopEnds, ConnectFails, Drop,
                    Publish, flags
<1>7. CASE UNCHANGED vars
  BY <1>1, <1>7 DEF vars
<1>. QED  BY <1>2, <1>3, <1>4, <1>5, <1>6, <1>7 DEF Next, Main, Network

LEMMA DataInit == Init => DataOK
<1>. SUFFICES ASSUME Init PROVE DataOK
  OBVIOUS
<1>1. drops \in 0 .. MaxDrops
  BY DecoderAssumption DEF Init
<1>2. fate \in [Msgs -> Fates]
  BY DEF Init, Fates
<1>. QED  BY <1>1, <1>2, EmptyFlight, DecoderAssumption DEF Init, DataOK, Handling

LEMMA DataMain ==
  ASSUME DataOK, Begun, Main \/ ConnectFails \/ Drop \/ Sigterm
  PROVE  DataOK'
<1>1. flight' \in Seq(Msgs)
  BY EmptyFlight DEF Main, Connect, Stopped, Join, Close, ConnectFails, Drop, Sigterm, DataOK, broker
<1>2. drops' \in 0 .. MaxDrops
  <2>1. drops \in Nat /\ drops \in 0 .. MaxDrops /\ MaxDrops \in Nat
    BY DecoderAssumption DEF DataOK
  <2>2. drops' = drops \/ (drops > 0 /\ drops' = drops - 1)
    BY DEF Main, Connect, Stopped, Join, Close, ConnectFails, Drop, Sigterm
  <2>. QED  BY <2>1, <2>2
<1>3. UNCHANGED <<cur, fate>>
  BY DEF Main, Connect, Stopped, Join, Close, ConnectFails, Drop, Sigterm
<1>4. CASE Connect \/ Stopped \/ Join \/ Close
  BY <1>1, <1>2, <1>3, <1>4 DEF Begun, Connect, Stopped, Join, Close, DataOK, Handling, broker
<1>5. CASE ConnectFails \/ Drop \/ Sigterm
  BY <1>1, <1>2, <1>3, <1>5 DEF ConnectFails, Drop, Sigterm, DataOK, Handling, broker
<1>. QED  BY <1>4, <1>5 DEF Main

LEMMA DataNetwork == ASSUME DataOK, Network PROVE DataOK'
<1>1. CASE OnConnect \/ Reconnect \/ LoopEnds
  BY <1>1 DEF OnConnect, Reconnect, LoopEnds, DataOK, Handling, broker
<1>2. CASE OnMessage
  <2>1. Head(flight) \in Msgs /\ Tail(flight) \in Seq(Msgs)
    BY <1>2, HeadTailProperties DEF OnMessage, DataOK
  <2>2. fate' \in [Msgs -> Fates]
    BY <1>2, <2>1 DEF OnMessage, DataOK, Fates
  <2>. QED  BY <1>2, <2>1, <2>2, DecoderAssumption DEF OnMessage, DataOK, Handling
<1>3. CASE Process
  BY <1>3 DEF Process, DataOK, Fates, Handling, broker
<1>4. CASE Record
  BY <1>4 DEF Record, DataOK, Fates, Handling, broker
<1>. QED  BY <1>1, <1>2, <1>3, <1>4 DEF Network

LEMMA DataStep == DataOK /\ Begun /\ [Next]_vars => DataOK'
<1>. SUFFICES ASSUME DataOK, Begun, [Next]_vars PROVE DataOK'
  OBVIOUS
<1>1. CASE UNCHANGED vars
  BY <1>1 DEF vars, broker, DataOK, Handling
<1>2. CASE Sigkill
  <2>1. fate' \in [Msgs -> Fates]
    BY <1>2 DEF Sigkill, DataOK, Fates
  <2>. QED  BY <1>2, <2>1, EmptyFlight DEF Sigkill, DataOK, Handling
<1>3. ASSUME NEW m \in Msgs, Publish(m) PROVE DataOK'
  <2>1. flight' \in Seq(Msgs)
    <3>1. flight \in Seq(Msgs)
      BY DEF DataOK
    <3>2. Append(flight, m) \in Seq(Msgs)
      BY <3>1, AppendProperties
    <3>. QED  BY <1>3, <3>1, <3>2 DEF Publish
  <2>2. fate' \in [Msgs -> Fates]
    BY <1>3 DEF Publish, DataOK, Fates
  <2>. QED  BY <1>3, <2>1, <2>2 DEF Publish, DataOK, Handling
<1>. QED  BY <1>1, <1>2, <1>3, DataMain, DataNetwork DEF Next

\* Every variable keeps its type, and on_message handles a message exactly while the
\* network thread is inside it.
THEOREM DecoderTypeCorrect == Spec => []TypeOK
<1>1. Init => FlagsOK
  BY Zenon DEF Init, FlagsOK
<1>. QED
  BY <1>1, PlacesInit, DataInit, PlacesStep, FlagsStep, DataStep, TypeParts, PTL DEF Spec

-----------------------------------------------------------------------------
(***************************************************************************)
(* The two threads: the databases are open until the end, and a message    *)
(* that is taken is the one in on_message.                                 *)
(***************************************************************************)
Open   == conns <=> mpc # "exited"
InHand == \A m \in Msgs : fate[m] = "taken" => m = cur

Threads == Joined /\ Begun /\ Open /\ InHand

LEMMA ThreadsStep == TypeOK /\ Threads /\ [Next]_vars => Threads'
<1>. SUFFICES ASSUME TypeOK, Threads, [Next]_vars PROVE Threads'
  OBVIOUS
<1>. USE DEF Threads
<1>2. Joined' /\ Begun'
  BY PlacesStep
<1>3. Open'
  <2>1. CASE Close \/ Sigkill
    <3>1. ~conns'
      BY <2>1, Zenon DEF Close, Sigkill
    <3>. QED  BY <2>1, <3>1 DEF Close, Sigkill, Open
  <2>2. ASSUME ~Close, ~Sigkill PROVE UNCHANGED conns /\ (mpc' # "exited" <=> mpc # "exited")
    BY <2>2 DEF vars, Next, Main, Network, Connect, Stopped, Join, OnConnect, Reconnect,
                OnMessage, Process, Record, LoopEnds, ConnectFails, Drop, Sigterm, Publish
  <2>. QED  BY <2>1, <2>2 DEF Open
<1>4. InHand'
  <2>1. CASE OnMessage
    <3>1. cur = NoMsg /\ \A m \in Msgs : fate[m] # "taken"
      BY <2>1, DecoderAssumption DEF OnMessage, TypeOK, Handling, InHand
    <3>. QED  BY <2>1, <3>1 DEF OnMessage, InHand, TypeOK
  <2>2. CASE Process
    BY <2>2 DEF Process, InHand, TypeOK, Handling
  <2>3. CASE Record
    BY <2>3 DEF Record, InHand, TypeOK, Handling
  <2>4. CASE Sigkill
    BY <2>4 DEF Sigkill, InHand
  <2>5. ASSUME NEW m \in Msgs, Publish(m) PROVE InHand'
    BY <2>5 DEF Publish, InHand, TypeOK
  <2>6. CASE UNCHANGED <<fate, cur>>
    BY <2>6 DEF InHand
  <2>. QED
    BY <2>1, <2>2, <2>3, <2>4, <2>5, <2>6
       DEF vars, Next, Main, Network, Connect, Stopped, Join, Close, OnConnect, Reconnect,
           LoopEnds, ConnectFails, Drop, Sigterm
<1>. QED  BY <1>2, <1>3, <1>4

\* The databases are closed only when no message is being handled, and a decoder that has
\* ended has finished the message it had begun, whatever the order of SIGTERM, messages and
\* losses (run: loop_stop joins the thread, then close).
THEOREM NothingCutShort == Spec => []SettledAtExit
<1>1. Init => Threads
  BY DEF Init, Threads, Joined, Begun, Open, InHand
<1>2. TypeOK /\ Threads => SettledAtExit
  BY DecoderAssumption DEF TypeOK, Threads, Joined, Open, InHand, SettledAtExit, Handling
<1>. QED  BY <1>1, <1>2, ThreadsStep, DecoderTypeCorrect, PTL DEF Spec
=============================================================================
