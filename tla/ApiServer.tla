------------------------------- MODULE ApiServer -------------------------------
(***************************************************************************)
(* The API process: requests for an event stream of the service clients    *)
(* and of the dashboard, the Kafka consumer behind each stream, the gauge  *)
(* of open streams, and the shutdown of the process around them.           *)
(*                                                                         *)
(* Nothing calls process.exit: the process ends when no socket, no timer,  *)
(* no consumer and no connection to Redis keeps its event loop alive.      *)
(*                                                                         *)
(* A stream is the callback of streamSSE; phase[c] is what it awaits.      *)
(* Heartbeats and relayed events change nothing here and have no action.   *)
(***************************************************************************)
EXTENDS Integers, FiniteSets

CONSTANTS
    Streams,            \* requests for an event stream, each of a new client
    KafkaConfigured,    \* KAFKA_BROKERS is set
    RedisConfigured     \* REDIS_URL is set

ASSUME ServerAssumption ==
    IsFiniteSet(Streams) /\ KafkaConfigured \in BOOLEAN /\ RedisConfigured \in BOOLEAN

VARIABLES
    server,     \* the HTTP server: "starting", "listening", "closing", "closed"
    shutdown,   \* shutdownPromise is set
    exited,     \* the process has ended
    producer,   \* the cached connection of the job queues to Redis is open
    phase,      \* stream -> what its callback awaits
    left,       \* streams whose client, or the server, has closed the socket
    aborted,    \* streams whose AbortController has fired
    counted,    \* streams whose connectionCounted is true
    gauge,      \* configSseConnections
    consumer,   \* stream -> its Kafka consumer
    missed      \* streams whose end nobody will tell their consumer of

vars == <<server, shutdown, exited, producer, phase, left, aborted, counted, gauge,
          consumer, missed>>

process == <<server, shutdown, exited, producer>>

streams == <<phase, left, aborted, counted, gauge, consumer, missed>>

-----------------------------------------------------------------------------
Phases == {"none", "auth", "connect", "subscribe", "run", "connected", "loop",
           "unavailable", "done"}

\* The callback of streamSSE has begun and has not returned.
Open(c) == phase[c] \notin {"none", "auth", "done"}

\* run has returned and events are relayed.
Relaying(c) == phase[c] \in {"connected", "loop"}

Alive(c) == consumer[c] \in {"connected", "running"}

Init ==
    /\ server = "starting"
    /\ shutdown = FALSE
    /\ exited = FALSE
    /\ producer = FALSE
    /\ phase = [c \in Streams |-> "none"]
    /\ left = {}
    /\ aborted = {}
    /\ counted = {}
    /\ gauge = 0
    /\ consumer = [c \in Streams |-> "none"]
    /\ missed = {}

GoTo(c, p) == phase' = [phase EXCEPT ![c] = p]

\* Faulty: it does not look at connectionCounted.
CloseConnectionTwice(c) ==
    /\ counted' = counted \ {c}
    /\ gauge' = gauge - 1

\* Called from onAbort and from finally.
CloseConnection(c) ==
    /\ counted' = counted \ {c}
    /\ gauge' = IF c \in counted THEN gauge - 1 ELSE gauge

-----------------------------------------------------------------------------
(* A stream.                                                               *)

Request(c) ==
    /\ server = "listening"
    /\ phase[c] = "none"
    /\ GoTo(c, "auth")
    /\ UNCHANGED <<process, left, aborted, counted, gauge, consumer, missed>>

\* The token or the session is not accepted: an ordinary response.
Refuse(c) ==
    /\ phase[c] = "auth"
    /\ GoTo(c, "done")
    /\ UNCHANGED <<process, left, aborted, counted, gauge, consumer, missed>>

\* streamSSE: count the connection, then call subscribeToConfigEvents, which
\* returns null without brokers.
OpenStream(c) ==
    /\ phase[c] = "auth"
    /\ GoTo(c, IF KafkaConfigured THEN "connect" ELSE "unavailable")
    /\ counted' = counted \cup {c}
    /\ gauge' = gauge + 1
    /\ UNCHANGED <<process, left, aborted, consumer, missed>>

\* await consumer.connect()
ConnectConsumer(c) ==
    /\ phase[c] = "connect"
    /\ GoTo(c, "subscribe")
    /\ consumer' = [consumer EXCEPT ![c] = "connected"]
    /\ UNCHANGED <<process, left, aborted, counted, gauge, missed>>

ConnectFails(c) ==
    /\ phase[c] = "connect"
    /\ GoTo(c, "unavailable")
    /\ UNCHANGED <<process, left, aborted, counted, gauge, consumer, missed>>

\* await consumer.subscribe(); the abort listener is added and run begins.
SubscribeTopic(c) ==
    /\ phase[c] = "subscribe"
    /\ GoTo(c, "run")
    /\ UNCHANGED <<process, left, aborted, counted, gauge, consumer, missed>>

\* The catch of the route knows no consumer that it could disconnect.
SubscribeFails(c) ==
    /\ phase[c] = "subscribe"
    /\ GoTo(c, "unavailable")
    /\ missed' = missed \cup {c}
    /\ UNCHANGED <<process, left, aborted, counted, gauge, consumer>>

\* await consumer.run().  One that was disconnected while it was starting may
\* have joined its group all the same.
RunConsumer(c) ==
    /\ phase[c] = "run"
    /\ GoTo(c, "connected")
    /\ \/ consumer' = [consumer EXCEPT ![c] = "running"]
       \/ consumer[c] = "stopped" /\ UNCHANGED consumer
    /\ UNCHANGED <<process, left, aborted, counted, gauge, missed>>

\* The event "connected" is written; to a stream that was aborted nothing is.
AnnounceConnected(c) ==
    /\ phase[c] = "connected"
    /\ GoTo(c, "loop")
    /\ UNCHANGED <<process, left, aborted, counted, gauge, consumer, missed>>

\* The loop sees the signal after a heartbeat, or "unavailable" is written;
\* then finally, and streamSSE closes the stream.
EndStream(c) ==
    /\ \/ phase[c] = "unavailable"
       \/ phase[c] = "loop" /\ c \in aborted
    /\ GoTo(c, "done")
    /\ CloseConnection(c)
    /\ UNCHANGED <<process, left, aborted, consumer, missed>>

\* The client closes its socket.
Leave(c) ==
    /\ phase[c] \notin {"none", "done"}
    /\ c \notin left
    /\ left' = left \cup {c}
    /\ UNCHANGED <<process, phase, aborted, counted, gauge, consumer, missed>>

\* Faulty: the signal is not passed on to subscribeToConfigEvents.
AbortUnheard(c) ==
    /\ Open(c)
    /\ c \in left \ aborted
    /\ aborted' = aborted \cup {c}
    /\ CloseConnection(c)
    /\ missed' = IF Relaying(c) THEN missed ELSE missed \cup {c}
    /\ UNCHANGED <<process, phase, left, consumer>>

\* onAbort: the signal fires the listener, if it was added already.
Abort(c) ==
    /\ Open(c)
    /\ c \in left \ aborted
    /\ aborted' = aborted \cup {c}
    /\ CloseConnection(c)
    /\ consumer' = IF phase[c] = "run" \/ Relaying(c)
                   THEN [consumer EXCEPT ![c] = "stopped"] ELSE consumer
    /\ missed' = IF Relaying(c) THEN missed ELSE missed \cup {c}
    /\ UNCHANGED <<process, phase, left>>

-----------------------------------------------------------------------------
(* The process.                                                            *)

\* main() goes on when observability has started, whatever happened meanwhile.
Listen ==
    /\ server = "starting"
    /\ server' = "listening"
    /\ UNCHANGED <<shutdown, exited, producer, streams>>

\* Another request enqueues its first job: getRedisConnection opens a connection
\* and caches it.  Nothing in this process ever closes it.
EnqueueJob ==
    /\ RedisConfigured
    /\ server # "starting"
    /\ ~exited
    /\ ~producer
    /\ producer' = TRUE
    /\ UNCHANGED <<server, shutdown, exited, streams>>

\* A signal or a fatal error; a second one is only logged.
Shutdown ==
    /\ ~shutdown
    /\ ~exited
    /\ shutdown' = TRUE
    /\ server' = IF server = "listening" THEN "closing" ELSE server
    /\ UNCHANGED <<exited, producer, streams>>

SocketOpen(c) == phase[c] \notin {"none", "done"} /\ c \notin left

\* server.close() calls back when the last socket is closed.
CloseCompletes ==
    /\ server = "closing"
    /\ \A c \in Streams : ~SocketOpen(c)
    /\ server' = "closed"
    /\ UNCHANGED <<shutdown, exited, producer, streams>>

\* Faulty: the timeout only rejects.
CloseTimesOutOnly ==
    /\ server = "closing"
    /\ \E c \in Streams : SocketOpen(c)
    /\ server' = "closed"
    /\ UNCHANGED <<shutdown, exited, producer, streams>>

\* Ten seconds later: closeAllConnections().
CloseTimesOut ==
    /\ server = "closing"
    /\ \E c \in Streams : SocketOpen(c)
    /\ server' = "closed"
    /\ left' = left \cup {c \in Streams : SocketOpen(c)}
    /\ UNCHANGED <<shutdown, exited, producer, phase, aborted, counted, gauge, consumer, missed>>

\* Nothing keeps the event loop alive.
Exit ==
    /\ ~exited
    /\ shutdown
    /\ server = "closed"
    /\ ~producer
    /\ \A c \in Streams : phase[c] \in {"none", "done"} /\ ~Alive(c)
    /\ exited' = TRUE
    /\ UNCHANGED <<server, shutdown, producer, streams>>

-----------------------------------------------------------------------------
StreamStep(c) ==
    \/ Refuse(c) \/ OpenStream(c)
    \/ ConnectConsumer(c) \/ ConnectFails(c)
    \/ SubscribeTopic(c) \/ SubscribeFails(c)
    \/ RunConsumer(c) \/ AnnounceConnected(c) \/ EndStream(c)

ServerStep == Listen \/ CloseCompletes \/ CloseTimesOut \/ Exit

Next ==
    \/ \E c \in Streams : Request(c) \/ StreamStep(c) \/ Leave(c) \/ Abort(c)
    \/ EnqueueJob
    \/ Shutdown
    \/ ServerStep

Spec == Init /\ [][Next]_vars

\* The event loop serves every stream, and time passes; no client has to ask or
\* to leave, and nobody has to stop the process.
Fairness ==
    /\ \A c \in Streams : WF_vars(StreamStep(c)) /\ WF_vars(Abort(c))
    /\ WF_vars(ServerStep)

FairSpec == Spec /\ Fairness

-----------------------------------------------------------------------------
(* Properties.                                                             *)

\* Shapes; a stream is counted only while its callback runs.
TypeOK ==
    /\ server \in {"starting", "listening", "closing", "closed"}
    /\ shutdown \in BOOLEAN /\ exited \in BOOLEAN /\ producer \in BOOLEAN
    /\ phase \in [Streams -> Phases]
    /\ left \subseteq Streams /\ aborted \subseteq left /\ counted \subseteq Streams
    /\ gauge \in Int
    /\ consumer \in [Streams -> {"none", "connected", "running", "stopped"}]
    /\ missed \subseteq Streams
    /\ \A c \in counted : Open(c)

\* Each stream leaves the gauge once, by its abort or its end, whichever comes
\* first: the gauge is the number of streams that are open and not aborted.
GaugeCountsOpenStreams ==
    gauge = Cardinality({c \in Streams : Open(c) /\ c \notin aborted})

\* A consumer outlives its stream only if subscribing failed after it had
\* connected, or the stream was aborted before run returned: an abort that comes
\* later always stops it, and no stream ends without one of these.
ConsumersEndWithStreams ==
    \A c \in Streams : phase[c] = "done" /\ Alive(c) => c \in missed

\* A process that begins to close its server ends, with any number of streams
\* open, unless one of them has left a consumer behind or the process has ever
\* enqueued a job: the shutdown does not close the connection to Redis.
ShutdownEnds ==
    server = "closing" ~>
        \/ exited
        \/ \E c \in missed : Alive(c)
        \/ producer

================================================================================
