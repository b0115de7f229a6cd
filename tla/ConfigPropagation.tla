--------------------------- MODULE ConfigPropagation ---------------------------
(***************************************************************************)
(* From a committed write to the value a running service uses: the outbox, *)
(* the partition of the topic that carries one environment, the event      *)
(* stream an API process relays to a service client, and the client of     *)
(* apps/config-simulator, which loads a snapshot and then watches.         *)
(*                                                                         *)
(* ConfigRepository gives the writes and the snapshots: a write makes      *)
(* revision n and its event in one step, and a snapshot holds every write  *)
(* of the revision it was read at.  OutboxPublisher gives the publication: *)
(* at least once, in any order.                                            *)
(*                                                                         *)
(* EventStreamProofs extends this module and ApiServer: where both have a  *)
(* definition of one name, the one here says "Propagation".                *)
(***************************************************************************)
EXTENDS Integers, Sequences, FiniteSets

CONSTANTS
    Clients,        \* running service clients, each with a connection of its own
    MaxRevision,    \* bound on writes
    MaxRecords      \* bound on records in the topic, repeated ones included

ASSUME PropagationAssumption ==
    MaxRevision \in Nat /\ MaxRecords \in Nat /\ MaxRevision <= MaxRecords

VARIABLES
    revision,       \* revision of the environment
    topic,          \* the revisions announced by the records of the partition
    mode,           \* client -> what it is doing
    shown,          \* client -> revision of the snapshot it runs with
    since,          \* client -> records of the topic before its subscription
    position        \* client -> records of the topic before its next one

propagationVars == <<revision, topic, mode, shown, since, position>>

-----------------------------------------------------------------------------
Revisions == 1..MaxRevision

Published == {topic[i] : i \in DOMAIN topic}

Modes == {"loading", "connecting", "watching", "reloading", "ended"}

PropagationInit ==
    /\ revision = 0
    /\ topic = <<>>
    /\ mode = [c \in Clients |-> "loading"]
    /\ shown = [c \in Clients |-> 0]
    /\ since = [c \in Clients |-> 0]
    /\ position = [c \in Clients |-> 0]

\* An upsert or a rollback commits.
Write ==
    /\ revision < MaxRevision
    /\ revision' = revision + 1
    /\ UNCHANGED <<topic, mode, shown, since, position>>

\* The worker sends the event of revision n for the first time.
Publish(n) ==
    /\ n <= revision
    /\ n \notin Published
    /\ topic' = Append(topic, n)
    /\ UNCHANGED <<revision, mode, shown, since, position>>

\* The worker sends it again: an overlapping batch, a failure, a restart.  The
\* bound leaves room for the revisions still to be published.
PublishAgain(n) ==
    /\ n \in Published
    /\ Len(topic) + (MaxRevision - Cardinality(Published)) < MaxRecords
    /\ topic' = Append(topic, n)
    /\ UNCHANGED <<revision, mode, shown, since, position>>

\* The answer of GET /client/config; the client's first step.
LoadSnapshot(c) ==
    /\ mode[c] = "loading"
    /\ mode' = [mode EXCEPT ![c] = "connecting"]
    /\ shown' = [shown EXCEPT ![c] = revision]
    /\ UNCHANGED <<revision, topic, since, position>>

\* GET /client/config/events: the relay's consumer has a group of its own and
\* starts at the end of the partition; "connected" makes the client do nothing.
Subscribe(c) ==
    /\ mode[c] = "connecting"
    /\ mode' = [mode EXCEPT ![c] = "watching"]
    /\ since' = [since EXCEPT ![c] = Len(topic)]
    /\ position' = [position EXCEPT ![c] = Len(topic)]
    /\ UNCHANGED <<revision, topic, shown>>

\* Faulty: an event that is not ahead of the snapshot by one is dropped.
ReceiveEventInOrder(c) ==
    /\ mode[c] = "watching"
    /\ position[c] < Len(topic)
    /\ position' = [position EXCEPT ![c] = @ + 1]
    /\ mode' = [mode EXCEPT ![c] =
                   IF topic[position[c] + 1] = shown[c] + 1 THEN "reloading" ELSE @]
    /\ UNCHANGED <<revision, topic, shown, since>>

\* An event comes down the stream; the client reads no further one until it has
\* reloaded.
ReceiveEvent(c) ==
    /\ mode[c] = "watching"
    /\ position[c] < Len(topic)
    /\ position' = [position EXCEPT ![c] = @ + 1]
    /\ mode' = [mode EXCEPT ![c] = "reloading"]
    /\ UNCHANGED <<revision, topic, shown, since>>

\* Faulty: the client believes the revision the event names.
ReloadFromEvent(c) ==
    /\ mode[c] = "reloading"
    /\ mode' = [mode EXCEPT ![c] = "watching"]
    /\ shown' = [shown EXCEPT ![c] = topic[position[c]]]
    /\ UNCHANGED <<revision, topic, since, position>>

\* The client replaces its snapshot, whatever the event was about.
Reload(c) ==
    /\ mode[c] = "reloading"
    /\ mode' = [mode EXCEPT ![c] = "watching"]
    /\ shown' = [shown EXCEPT ![c] = revision]
    /\ UNCHANGED <<revision, topic, since, position>>

\* A request fails or times out, the stream breaks or says "unavailable": the
\* client of this repository gives up.
GiveUp(c) ==
    /\ mode[c] # "ended"
    /\ mode' = [mode EXCEPT ![c] = "ended"]
    /\ UNCHANGED <<revision, topic, shown, since, position>>

ClientStep(c) == LoadSnapshot(c) \/ Subscribe(c) \/ ReceiveEvent(c) \/ Reload(c)

PropagationNext ==
    \/ Write
    \/ \E n \in Revisions : Publish(n) \/ PublishAgain(n)
    \/ \E c \in Clients : ClientStep(c) \/ GiveUp(c)

PropagationSpec == PropagationInit /\ [][PropagationNext]_propagationVars

\* OutboxPublisher's EventsAreDelivered, and a network that answers.
PropagationFairness ==
    /\ \A n \in Revisions : WF_propagationVars(Publish(n))
    /\ \A c \in Clients : WF_propagationVars(ClientStep(c))

FairPropagationSpec == PropagationSpec /\ PropagationFairness

-----------------------------------------------------------------------------
(* Properties.                                                             *)

\* Clients and topic never name a revision that was not committed, and a client
\* has consumed no more than there is.
PropagationTypeOK ==
    /\ revision \in 0..MaxRevision
    /\ topic \in Seq(1..revision)
    /\ mode \in [Clients -> Modes]
    /\ shown \in [Clients -> 0..revision]
    /\ since \in [Clients -> 0..Len(topic)]
    /\ position \in [Clients -> 0..Len(topic)]
    /\ \A c \in Clients : since[c] <= position[c]

\* A watching client runs with every write whose event it has been sent, though
\* events come late, repeated and out of order.
ConsumedEventsAreShown ==
    \A c \in Clients : mode[c] = "watching" =>
        \A i \in (since[c] + 1)..position[c] : topic[i] <= shown[c]

\* A client never goes back to an older snapshot, in whatever order events come.
NoClientGoesBack ==
    [][\A c \in Clients : shown'[c] >= shown[c]]_propagationVars

\* A write whose event is still to be published when a client watches reaches
\* that client, unless the client gives up.
SubscribedClientsConverge ==
    \A c \in Clients : \A n \in Revisions :
        mode[c] = "watching" /\ revision >= n /\ n \notin Published
            ~> shown[c] >= n \/ mode[c] = "ended"

\* "Runtime clients refetch their snapshot and continue without a restart": every
\* write committed since a client loaded its snapshot reaches that client, unless
\* it gives up.
RunningClientsConverge ==
    \A c \in Clients : \A n \in Revisions :
        mode[c] # "loading" /\ revision >= n
            ~> shown[c] >= n \/ mode[c] = "ended"

================================================================================
