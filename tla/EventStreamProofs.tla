--------------------------- MODULE EventStreamProofs ---------------------------
(***************************************************************************)
(* Proofs about the event stream: its server (ApiServer), for any finite   *)
(* set of streams, and its clients (ConfigPropagation), for any clients    *)
(* and any bounds.                                                         *)
(*                                                                         *)
(* The gauge is a number that two callbacks of each stream decrement; that *)
(* it is the number of open streams follows from what connectionCounted    *)
(* means (CountedAreOpen): exactly the streams that have neither ended nor *)
(* been aborted have theirs set.                                           *)
(*                                                                         *)
(* A client runs with the writes it was told of because a reload reads the *)
(* newest revision and the topic names none that is not committed, which   *)
(* is part of PropagationTypeOK; so that and the property are inductive    *)
(* together.                                                               *)
(***************************************************************************)
EXTENDS ApiServer, ConfigPropagation, FiniteSetTheorems, TLAPS

CountedAreOpen ==
    /\ counted = {c \in Streams : Open(c) /\ c \notin aborted}
    /\ \A c \in aborted : phase[c] \notin {"none", "auth"}

\* A stream that nobody missed has its consumer from connect to its abort.
ConsumersAreKnown ==
    \A c \in Streams : c \notin missed =>
        /\ Alive(c) => phase[c] \in {"subscribe", "run", "connected", "loop"}
        /\ c \in aborted => phase[c] \in {"connected", "loop", "done"} /\ ~Alive(c)

IInv ==
    /\ TypeOK
    /\ CountedAreOpen
    /\ gauge = Cardinality(counted)
    /\ ConsumersAreKnown

\* Opening a stream counts it.
LEMMA OpenCounts ==
    ASSUME IInv, NEW c \in Streams, OpenStream(c)
    PROVE  gauge' = Cardinality(counted')
<1>1. IsFiniteSet(counted)
  BY FS_Subset, ServerAssumption DEF IInv, TypeOK
<1>2. c \notin counted
  BY DEF IInv, CountedAreOpen, OpenStream, Open
<1>3. Cardinality(counted \cup {c}) = Cardinality(counted) + 1
  BY <1>1, <1>2, FS_AddElement
<1>4. QED
  BY <1>3 DEF IInv, OpenStream

\* closeConnection takes a stream out of the gauge, the first time.
LEMMA CloseUncounts ==
    ASSUME IInv, NEW c \in Streams, CloseConnection(c)
    PROVE  gauge' = Cardinality(counted') /\ gauge' \in Int
<1>1. IsFiniteSet(counted)
  BY FS_Subset, ServerAssumption DEF IInv, TypeOK
<1>2. CASE c \in counted
  <2>1. Cardinality(counted \ {c}) = Cardinality(counted) - 1
    BY <1>1, <1>2, FS_RemoveElement
  <2>2. QED
    BY <1>2, <2>1 DEF IInv, TypeOK, CloseConnection
<1>3. CASE c \notin counted
  <2>1. counted \ {c} = counted
    BY <1>3
  <2>2. QED
    BY <1>3, <2>1 DEF IInv, TypeOK, CloseConnection
<1>4. QED
  BY <1>2, <1>3

\* Steps that begin or end no stream leave the count alone.
LEMMA PhaseStep ==
    ASSUME IInv, NEW c \in Streams, NEW p \in Phases \ {"none", "auth", "done"},
           Open(c), GoTo(c, p),
           UNCHANGED <<process, left, aborted, counted, gauge>>,
           consumer' \in [Streams -> {"none", "connected", "running", "stopped"}],
           missed' \subseteq Streams,
           ConsumersAreKnown'
    PROVE  IInv'
<1>1. phase' = [phase EXCEPT ![c] = p]
  BY DEF GoTo
<1>2. \A d \in Streams : Open(d)' <=> Open(d)
  BY <1>1 DEF IInv, TypeOK, Open, Phases
<1>3. TypeOK'
  BY <1>1, <1>2 DEF IInv, TypeOK, process, Phases
<1>4. CountedAreOpen' /\ gauge' = Cardinality(counted')
  BY <1>1, <1>2 DEF IInv, TypeOK, CountedAreOpen
<1>5. QED
  BY <1>3, <1>4 DEF IInv

\* Every step of a stream keeps the invariant.
LEMMA StreamKeeps ==
    ASSUME IInv, NEW c \in Streams, StreamStep(c)
    PROVE  IInv'
<1> USE DEF IInv, Phases
<1>1. CASE Refuse(c)
  BY <1>1 DEF Refuse, GoTo, TypeOK, CountedAreOpen, ConsumersAreKnown, Open, Alive, process
<1>2. CASE OpenStream(c)
  <2>1. /\ phase' \in [Streams -> Phases]
        /\ \A d \in Streams : d # c => phase'[d] = phase[d]
        /\ Open(c)' /\ phase[c] = "auth" /\ phase'[c] \in {"connect", "unavailable"}
    BY <1>2 DEF OpenStream, GoTo, TypeOK, Open
  <2>2. c \notin missed => c \notin aborted /\ ~Alive(c)
    BY <2>1 DEF ConsumersAreKnown
  <2>3. ConsumersAreKnown'
    BY <1>2, <2>1, <2>2 DEF OpenStream, ConsumersAreKnown, Alive
  <2>4. TypeOK'
    BY <1>2, <2>1 DEF OpenStream, TypeOK, Open, process
  <2>5. CountedAreOpen'
    BY <1>2, <2>1 DEF OpenStream, TypeOK, CountedAreOpen, ConsumersAreKnown, Open
  <2>6. QED
    BY <1>2, <2>3, <2>4, <2>5, OpenCounts
<1>3. CASE ConnectConsumer(c)
  <2>1. ConsumersAreKnown'
    BY <1>3 DEF ConnectConsumer, GoTo, TypeOK, ConsumersAreKnown, Alive
  <2>2. QED
    BY <1>3, <2>1, PhaseStep DEF ConnectConsumer, TypeOK, Open
<1>4. CASE ConnectFails(c)
  <2>1. ConsumersAreKnown'
    BY <1>4 DEF ConnectFails, GoTo, TypeOK, ConsumersAreKnown, Alive
  <2>2. QED
    BY <1>4, <2>1, PhaseStep DEF ConnectFails, TypeOK, Open
<1>5. CASE SubscribeTopic(c)
  <2>1. ConsumersAreKnown'
    BY <1>5 DEF SubscribeTopic, GoTo, TypeOK, ConsumersAreKnown, Alive
  <2>2. QED
    BY <1>5, <2>1, PhaseStep DEF SubscribeTopic, TypeOK, Open
<1>6. CASE SubscribeFails(c)
  <2>1. ConsumersAreKnown'
    BY <1>6 DEF SubscribeFails, GoTo, TypeOK, ConsumersAreKnown, Alive
  <2>2. QED
    BY <1>6, <2>1, PhaseStep DEF SubscribeFails, TypeOK, Open
<1>7. CASE RunConsumer(c)
  <2>1. ConsumersAreKnown'
    BY <1>7 DEF RunConsumer, GoTo, TypeOK, ConsumersAreKnown, Alive
  <2>2. QED
    BY <1>7, <2>1, PhaseStep DEF RunConsumer, TypeOK, Open
<1>8. CASE AnnounceConnected(c)
  <2>1. ConsumersAreKnown'
    BY <1>8 DEF AnnounceConnected, GoTo, TypeOK, ConsumersAreKnown, Alive
  <2>2. QED
    BY <1>8, <2>1, PhaseStep DEF AnnounceConnected, TypeOK, Open
<1>9. CASE EndStream(c)
  <2>1. /\ phase' = [phase EXCEPT ![c] = "done"]
        /\ counted' = counted \ {c}
        /\ UNCHANGED <<server, shutdown, exited, producer, left, aborted, consumer, missed>>
    BY <1>9 DEF EndStream, GoTo, CloseConnection, process
  <2>2. gauge' = Cardinality(counted') /\ gauge' \in Int
    BY <1>9, CloseUncounts DEF EndStream
  <2>3. TypeOK' /\ CountedAreOpen'
    BY <2>1, <2>2 DEF TypeOK, CountedAreOpen, Open
  <2>4. ConsumersAreKnown'
    BY <1>9, <2>1 DEF EndStream, TypeOK, ConsumersAreKnown, Alive
  <2>5. QED
    BY <2>2, <2>3, <2>4
<1>10. QED
  BY <1>1, <1>2, <1>3, <1>4, <1>5, <1>6, <1>7, <1>8, <1>9 DEF StreamStep

\* So does an abort, whenever it comes.
LEMMA AbortKeeps ==
    ASSUME IInv, NEW c \in Streams, Abort(c)
    PROVE  IInv'
<1> USE DEF IInv
<1>1. /\ Open(c) /\ c \in left
      /\ aborted' = aborted \cup {c} /\ counted' = counted \ {c}
      /\ UNCHANGED <<server, shutdown, exited, producer, phase, left>>
  BY DEF Abort, CloseConnection, process
<1>2. gauge' = Cardinality(counted') /\ gauge' \in Int
  BY CloseUncounts DEF Abort
<1>3. consumer' \in [Streams -> {"none", "connected", "running", "stopped"}]
  BY DEF Abort, TypeOK
<1>4. missed' \subseteq Streams
  BY DEF Abort, TypeOK
<1>5. TypeOK' /\ CountedAreOpen'
  BY <1>1, <1>2, <1>3, <1>4 DEF TypeOK, CountedAreOpen, Open
<1>6. ConsumersAreKnown'
  BY <1>1 DEF Abort, TypeOK, ConsumersAreKnown, Alive, Relaying
<1>7. QED
  BY <1>2, <1>5, <1>6

\* The invariant holds in every reachable state.
LEMMA Invariance == Spec => []IInv
<1>1. Init => IInv
  <2> SUFFICES ASSUME Init PROVE IInv
    OBVIOUS
  <2>1. TypeOK
    <3>1. phase \in [Streams -> Phases] /\ \A c \in counted : Open(c)
      BY DEF Init, Phases
    <3>2. consumer \in [Streams -> {"none", "connected", "running", "stopped"}]
      BY DEF Init
    <3>3. /\ server \in {"starting"}
          /\ shutdown \in BOOLEAN /\ exited \in BOOLEAN /\ producer \in BOOLEAN
      BY Zenon DEF Init
    <3>4. /\ left \subseteq Streams /\ aborted \subseteq left
          /\ counted \subseteq Streams /\ missed \subseteq Streams /\ gauge \in Int
      BY DEF Init
    <3>5. QED
      BY <3>1, <3>2, <3>3, <3>4 DEF TypeOK
  <2>2. CountedAreOpen /\ ConsumersAreKnown
    BY DEF Init, CountedAreOpen, ConsumersAreKnown, Open, Alive
  <2>3. QED
    BY <2>1, <2>2, FS_EmptySet DEF Init, IInv
<1>2. IInv /\ [Next]_vars => IInv'
  <2> SUFFICES ASSUME IInv, [Next]_vars PROVE IInv'
    OBVIOUS
  <2> USE DEF IInv, TypeOK, CountedAreOpen, ConsumersAreKnown, Open, Alive, Phases
  <2>1. ASSUME NEW c \in Streams, Request(c) PROVE IInv'
    <3>1. /\ phase[c] = "none" /\ phase' = [phase EXCEPT ![c] = "auth"]
          /\ UNCHANGED <<server, shutdown, exited, producer, left, aborted, counted, gauge,
                         consumer, missed>>
      BY <2>1 DEF Request, GoTo, process
    <3>2. \A d \in Streams : Open(d)' <=> Open(d)
      BY <3>1
    <3>3. TypeOK' /\ CountedAreOpen'
      BY <3>1, <3>2
    <3>4. ConsumersAreKnown'
      BY <3>1
    <3>5. QED
      BY <3>1, <3>3, <3>4
  <2>2. ASSUME NEW c \in Streams, StreamStep(c) PROVE IInv'
    BY <2>2, StreamKeeps
  <2>3. ASSUME NEW c \in Streams, Leave(c) PROVE IInv'
    BY <2>3 DEF Leave, process
  <2>4. ASSUME NEW c \in Streams, Abort(c) PROVE IInv'
    BY <2>4, AbortKeeps
  <2>5. CASE Shutdown
    BY <2>5 DEF Shutdown, streams
  <2>6. CASE Listen
    BY <2>6 DEF Listen, streams
  <2>7. CASE CloseCompletes
    BY <2>7 DEF CloseCompletes, streams
  <2>8. CASE CloseTimesOut
    BY <2>8 DEF CloseTimesOut
  <2>9. CASE Exit
    BY <2>9 DEF Exit, streams
  <2>10. CASE EnqueueJob
    BY <2>10 DEF EnqueueJob, streams
  <2>11. CASE UNCHANGED vars
    BY <2>11 DEF vars
  <2>12. QED
    BY <2>1, <2>2, <2>3, <2>4, <2>5, <2>6, <2>7, <2>8, <2>9, <2>10, <2>11
       DEF Next, ServerStep
<1>3. QED
  BY <1>1, <1>2, PTL DEF Spec

\* The gauge of open streams is right at all times.
THEOREM GaugeIsRight == Spec => []GaugeCountsOpenStreams
<1>1. IInv => GaugeCountsOpenStreams
  BY DEF IInv, CountedAreOpen, GaugeCountsOpenStreams
<1>2. QED
  BY <1>1, Invariance, PTL

\* No stream that was aborted after run returned, or that ended for a reason
\* other than a failing subscribe, leaves a consumer behind.
THEOREM LeaksAreMissed == Spec => []ConsumersEndWithStreams
<1>1. IInv => ConsumersEndWithStreams
  BY DEF IInv, ConsumersAreKnown, ConsumersEndWithStreams
<1>2. QED
  BY <1>1, Invariance, PTL

-----------------------------------------------------------------------------
(* The clients of the stream.                                              *)

PInv == PropagationTypeOK /\ ConsumedEventsAreShown

\* A record more leaves the others where they are.
LEMMA AppendStep ==
    ASSUME PInv, NEW n \in 1..revision, topic' = Append(topic, n),
           UNCHANGED <<revision, mode, shown, since, position>>
    PROVE  PInv'
<1> USE PropagationAssumption
<1>1. /\ topic \in Seq(1..revision) /\ revision \in Nat
      /\ topic' \in Seq(1..revision)
      /\ Len(topic) \in Nat /\ Len(topic') = Len(topic) + 1
      /\ \A i \in 1..Len(topic) : topic'[i] = topic[i]
  BY DEF PInv, PropagationTypeOK
<1>2. \A m \in 0..Len(topic) : m \in 0..Len(topic')
  BY <1>1
<1>3. /\ since' \in [Clients -> 0..Len(topic')]
      /\ position' \in [Clients -> 0..Len(topic')]
  BY <1>2 DEF PInv, PropagationTypeOK
<1>4. PropagationTypeOK'
  BY <1>1, <1>3 DEF PInv, PropagationTypeOK
<1>5. ASSUME NEW c \in Clients, mode'[c] = "watching",
             NEW i \in (since'[c] + 1)..position'[c]
      PROVE  topic'[i] <= shown'[c]
  <2>1. since[c] \in Nat /\ position[c] \in 0..Len(topic) /\ i \in 1..Len(topic)
    BY <1>1, <1>5 DEF PInv, PropagationTypeOK
  <2>2. topic[i] <= shown[c]
    BY <1>5 DEF PInv, ConsumedEventsAreShown
  <2>3. QED
    BY <1>1, <2>1, <2>2
<1>6. QED
  BY <1>4, <1>5 DEF PInv, ConsumedEventsAreShown

\* The answer of a snapshot request covers every record there is.
LEMMA SnapshotCoversTopic ==
    ASSUME PropagationTypeOK, NEW c \in Clients, NEW i \in (since[c] + 1)..position[c]
    PROVE  topic[i] <= revision
BY DEF PropagationTypeOK

\* Every step of a client keeps the invariant.
LEMMA ClientKeeps ==
    ASSUME PInv, NEW c \in Clients, ClientStep(c) \/ GiveUp(c)
    PROVE  PInv'
<1> USE DEF PInv
<1>1. CASE LoadSnapshot(c)
  BY <1>1 DEF LoadSnapshot, PropagationTypeOK, Modes, ConsumedEventsAreShown
<1>2. CASE Subscribe(c)
  <2>1. Len(topic) \in Nat
    BY DEF PropagationTypeOK
  <2>2. PropagationTypeOK'
    BY <1>2, <2>1 DEF Subscribe, PropagationTypeOK, Modes
  <2>3. ConsumedEventsAreShown'
    BY <1>2, <2>1 DEF Subscribe, PropagationTypeOK, ConsumedEventsAreShown
  <2>4. QED
    BY <2>2, <2>3
<1>3. CASE ReceiveEvent(c)
  <2>1. Len(topic) \in Nat
    BY DEF PropagationTypeOK
  <2>2. QED
    BY <1>3, <2>1 DEF ReceiveEvent, PropagationTypeOK, Modes, ConsumedEventsAreShown
<1>4. CASE Reload(c)
  <2>1. PropagationTypeOK'
    BY <1>4 DEF Reload, PropagationTypeOK, Modes
  <2>2. ConsumedEventsAreShown'
    BY <1>4, SnapshotCoversTopic DEF Reload, PropagationTypeOK, ConsumedEventsAreShown
  <2>3. QED
    BY <2>1, <2>2
<1>5. CASE GiveUp(c)
  BY <1>5 DEF GiveUp, PropagationTypeOK, Modes, ConsumedEventsAreShown
<1>6. QED
  BY <1>1, <1>2, <1>3, <1>4, <1>5 DEF ClientStep

\* The invariant holds in every reachable state.
LEMMA PropagationInvariance == PropagationSpec => []PInv
<1> USE PropagationAssumption
<1>1. PropagationInit => PInv
  BY DEF PropagationInit, PInv, PropagationTypeOK, Modes, ConsumedEventsAreShown
<1>2. PInv /\ [PropagationNext]_propagationVars => PInv'
  <2> SUFFICES ASSUME PInv, [PropagationNext]_propagationVars PROVE PInv'
    OBVIOUS
  <2>1. CASE Write
    BY <2>1 DEF Write, PInv, PropagationTypeOK, ConsumedEventsAreShown
  <2>2. ASSUME NEW n \in Revisions, Publish(n) PROVE PInv'
    BY <2>2, AppendStep DEF Publish, Revisions
  <2>3. ASSUME NEW n \in Revisions, PublishAgain(n) PROVE PInv'
    <3>1. n \in 1..revision
      BY <2>3 DEF PublishAgain, Published, PInv, PropagationTypeOK
    <3>2. QED
      BY <2>3, <3>1, AppendStep DEF PublishAgain
  <2>4. ASSUME NEW c \in Clients, ClientStep(c) \/ GiveUp(c) PROVE PInv'
    BY <2>4, ClientKeeps
  <2>5. CASE UNCHANGED propagationVars
    BY <2>5 DEF propagationVars, PInv, PropagationTypeOK, ConsumedEventsAreShown
  <2>6. QED
    BY <2>1, <2>2, <2>3, <2>4, <2>5 DEF PropagationNext
<1>3. QED
  BY <1>1, <1>2, PTL DEF PropagationSpec

\* Whatever the order and the number of the events, a watching client runs with
\* every write it was sent an event of.
THEOREM EventsBringTheirWrite == PropagationSpec => []ConsumedEventsAreShown
BY PropagationInvariance, PTL DEF PInv

\* A client never replaces its snapshot by an older one.
THEOREM SnapshotsMoveForward == PropagationSpec => NoClientGoesBack
<1>1. PInv /\ [PropagationNext]_propagationVars => [\A c \in Clients : shown'[c] >= shown[c]]_propagationVars
  <2> SUFFICES ASSUME PInv, PropagationNext PROVE \A c \in Clients : shown'[c] >= shown[c]
    OBVIOUS
  <2>1. revision \in Nat /\ shown \in [Clients -> 0..revision]
    BY PropagationAssumption DEF PInv, PropagationTypeOK
  <2>2. \/ shown' = shown
        \/ \E c \in Clients : shown' = [shown EXCEPT ![c] = revision]
    BY DEF PropagationNext, Write, Publish, PublishAgain, ClientStep, LoadSnapshot, Subscribe,
           ReceiveEvent, Reload, GiveUp
  <2>3. QED
    BY <2>1, <2>2
<1>2. QED
  BY <1>1, PropagationInvariance, PTL DEF PropagationSpec, NoClientGoesBack

================================================================================
