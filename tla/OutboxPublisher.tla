---------------------------- MODULE OutboxPublisher ----------------------------
(***************************************************************************)
(* The worker's ConfigOutboxPublisher: a timer lists rows of               *)
(* config_event_outbox that are due, sends each to the Kafka topic and     *)
(* marks the row.  Nothing keeps two batches apart: the timer fires again  *)
(* while a batch is still waiting for the broker or the database, so the   *)
(* steps of several batches interleave, and the worker may be signalled,   *)
(* fail or be killed between any two of them.                              *)
(*                                                                         *)
(* Events are numbered by created_at, which is the time their transaction  *)
(* began: they become visible in any order.                                *)
(***************************************************************************)
EXTENDS Integers, FiniteSets, Sequences

CONSTANTS
    NumEvents,          \* rows the API ever commits
    Ticks,              \* timer-driven batches that may be open at once
    Limit,              \* rows a batch lists (50 in the code)
    KafkaConfigured,    \* what KAFKA_BROKERS may be when a process starts: set or not
    MaxDisruptions      \* bound on failed calls, signals and kills together

ASSUME PublisherAssumption ==
    /\ NumEvents \in Nat /\ Limit \in Nat \ {0} /\ MaxDisruptions \in Nat
    /\ KafkaConfigured \subseteq BOOLEAN
    /\ IsFiniteSet(Ticks) /\ Ticks # {} /\ "start" \notin Ticks

Events == 1..NumEvents

\* The batch that start() awaits, and those of the timer.
Slots == {"start"} \cup Ticks

VARIABLES
    rows,           \* event -> status of its outbox row, and whether it is due
    copies,         \* event -> records of it in the topic
    worker,         \* the process: "down", "up", "closing", "stopped"
    startup,        \* start(): "none", "first" batch awaited, "done"
    interval,       \* the timer is set
    aborted,        \* the publisher's AbortController
    configured,     \* KAFKA_BROKERS of the process
    signalled,      \* the process got SIGINT or SIGTERM
    batch,          \* slot -> rows left to handle and the call it awaits
    disruptions     \* failed calls, signals and kills so far

process == <<worker, startup, interval, aborted, configured, signalled>>
vars == <<rows, copies, process, batch, disruptions>>

-----------------------------------------------------------------------------
Statuses == {"absent", "pending", "published", "failed"}

NoBatch == [queue |-> <<>>, step |-> "idle"]

Idle(s) == batch[s].step = "idle"

Awaits(s, step) == worker # "down" /\ batch[s].step = step

Await(s, step) == batch' = [batch EXCEPT ![s].step = step]

Current(s) == Head(batch[s].queue)

\* Faulty: a failed row is never listed again.
ListablePendingOnly(e) == rows[e].status = "pending"

\* Faulty: the status is not looked at.
ListableAny(e) == rows[e].status # "absent"

\* listPendingOutboxEvents without a lock: pending rows, and failed rows whose
\* nextAttemptAt has passed.
Listable(e) ==
    \/ rows[e].status = "pending"
    \/ rows[e].status = "failed" /\ rows[e].due

Pending == {e \in Events : Listable(e)}

\* The place of a row in the order of created_at.
Rank(e) == Cardinality({f \in Pending : f <= e})

\* The oldest rows first, no more than the limit.
Listed ==
    LET size == IF Cardinality(Pending) < Limit THEN Cardinality(Pending) ELSE Limit
    IN  [i \in 1..size |-> CHOOSE e \in Pending : Rank(e) = i]

\* A batch with nothing left is over.
BatchOf(queue) == IF queue = <<>> THEN NoBatch ELSE [queue |-> queue, step |-> "publish"]

Disrupt ==
    /\ disruptions < MaxDisruptions
    /\ disruptions' = disruptions + 1

-----------------------------------------------------------------------------
Init ==
    /\ rows = [e \in Events |-> [status |-> "absent", due |-> TRUE]]
    /\ copies = [e \in Events |-> 0]
    /\ worker = "down"
    /\ startup = "none"
    /\ interval = FALSE
    /\ aborted = FALSE
    /\ configured \in KafkaConfigured
    /\ signalled = FALSE
    /\ batch = [s \in Slots |-> NoBatch]
    /\ disruptions = 0

\* A write transaction of the API commits its outbox row.
CommitRow(e) ==
    /\ rows[e].status = "absent"
    /\ rows' = [rows EXCEPT ![e].status = "pending"]
    /\ UNCHANGED <<copies, process, batch, disruptions>>

\* nextAttemptAt of a failed row passes.
BackoffElapses(e) ==
    /\ rows[e].status = "failed" /\ ~rows[e].due
    /\ rows' = [rows EXCEPT ![e].due = TRUE]
    /\ UNCHANGED <<copies, process, batch, disruptions>>

-----------------------------------------------------------------------------
(* The life of the worker process.                                         *)

\* main() reaches start(): the topic is set up, or its failure only logged, and
\* the first batch begins.
Start ==
    /\ worker = "down"
    /\ worker' = "up"
    /\ startup' = "first"
    /\ Await("start", "list")
    /\ configured' \in KafkaConfigured
    /\ UNCHANGED <<rows, copies, interval, aborted, signalled, disruptions>>

\* The awaited first batch is over: the timer is set, whatever became of the
\* publisher in the meantime.
SetTimer ==
    /\ worker # "down"
    /\ startup = "first" /\ Idle("start")
    /\ startup' = "done"
    /\ interval' = TRUE
    /\ UNCHANGED <<rows, copies, worker, aborted, signalled, batch, disruptions, configured>>

\* Faulty: the timer does not look at the abort signal.
TickUnchecked(s) ==
    /\ worker # "down"
    /\ interval
    /\ Idle(s)
    /\ Await(s, "list")
    /\ UNCHANGED <<rows, copies, process, disruptions>>

\* The timer fires: publishBatch returns at once when the publisher is stopped.
Tick(s) ==
    /\ worker # "down"
    /\ interval
    /\ ~aborted
    /\ Idle(s)
    /\ Await(s, "list")
    /\ UNCHANGED <<rows, copies, process, disruptions>>

\* SIGINT or SIGTERM: shutdown() starts by closing the queue workers.  Nothing
\* keeps it from running a second time.
Signal ==
    /\ worker # "down"
    /\ Disrupt
    /\ worker' = "closing"
    /\ signalled' = TRUE
    /\ UNCHANGED <<rows, copies, startup, interval, aborted, batch, configured>>

\* stop(): abort, and clear the timer if there is one.
Stop ==
    /\ worker = "closing"
    /\ worker' = "stopped"
    /\ aborted' = TRUE
    /\ interval' = FALSE
    /\ UNCHANGED <<rows, copies, startup, signalled, batch, disruptions, configured>>

\* What is left of the process when it is gone.
Gone ==
    /\ worker' = "down"
    /\ startup' = "none"
    /\ interval' = FALSE
    /\ aborted' = FALSE
    /\ signalled' = FALSE
    /\ batch' = [s \in Slots |-> NoBatch]
    /\ UNCHANGED <<rows, copies, configured>>

\* Nothing keeps the event loop alive any more.
Exit ==
    /\ worker = "stopped"
    /\ ~interval
    /\ startup # "first"
    /\ \A s \in Slots : Idle(s)
    /\ Gone
    /\ UNCHANGED disruptions

\* Whoever sent the signal loses patience.
KilledAfterSignal ==
    /\ worker = "stopped"
    /\ signalled
    /\ Gone
    /\ UNCHANGED disruptions

\* A crash.
Killed ==
    /\ worker # "down"
    /\ Disrupt
    /\ Gone

\* A call that rejects out of publishBatch: start() fails, or the rejection is
\* unhandled, and either way shutdown() runs.
Reject(s) ==
    /\ batch' = [batch EXCEPT ![s] = NoBatch]
    /\ startup' = IF s = "start" THEN "none" ELSE startup
    /\ worker' = "closing"
    /\ UNCHANGED <<rows, copies, interval, aborted, signalled, configured>>

-----------------------------------------------------------------------------
(* One batch.                                                              *)

\* The batch goes on with its next row.
NextRow(s) == batch' = [batch EXCEPT ![s] = BatchOf(Tail(batch[s].queue))]

List(s) ==
    /\ Awaits(s, "list")
    /\ batch' = [batch EXCEPT ![s] = BatchOf(Listed)]
    /\ UNCHANGED <<rows, copies, process, disruptions>>

ListFails(s) ==
    /\ Awaits(s, "list")
    /\ Disrupt
    /\ Reject(s)

\* The broker acknowledges the record.
Publish(s) ==
    /\ Awaits(s, "publish")
    /\ configured
    /\ copies' = [copies EXCEPT ![Current(s)] = @ + 1]
    /\ Await(s, "markPublished")
    /\ UNCHANGED <<rows, process, disruptions>>

\* The send fails, before or after the broker has stored the record.
PublishFails(s) ==
    /\ Awaits(s, "publish")
    /\ configured
    /\ Disrupt
    /\ copies' \in {copies, [copies EXCEPT ![Current(s)] = @ + 1]}
    /\ Await(s, "markFailed")
    /\ UNCHANGED <<rows, process>>

\* Without brokers publishConfigEvent returns false and the row is marked failed.
PublishSkipped(s) ==
    /\ Awaits(s, "publish")
    /\ ~configured
    /\ Await(s, "markFailed")
    /\ UNCHANGED <<rows, copies, process, disruptions>>

\* The UPDATE has no condition on the status the row has by now.
MarkPublished(s) ==
    /\ Awaits(s, "markPublished")
    /\ rows' = [rows EXCEPT ![Current(s)] = [status |-> "published", due |-> TRUE]]
    /\ NextRow(s)
    /\ UNCHANGED <<copies, process, disruptions>>

\* The catch clause covers the UPDATE too: a record that was sent counts as failed.
MarkPublishedFails(s) ==
    /\ Awaits(s, "markPublished")
    /\ Disrupt
    /\ Await(s, "markFailed")
    /\ UNCHANGED <<rows, copies, process>>

\* Faulty: a failed row is given up.
MarkFailedForGood(s) ==
    /\ Awaits(s, "markFailed")
    /\ rows' = [rows EXCEPT ![Current(s)] = [status |-> "published", due |-> FALSE]]
    /\ NextRow(s)
    /\ UNCHANGED <<copies, process, disruptions>>

\* Sets nextAttemptAt by the backoff, and no condition on the status either: a
\* row another batch has published meanwhile becomes failed again.
MarkFailed(s) ==
    /\ Awaits(s, "markFailed")
    /\ rows' = [rows EXCEPT ![Current(s)] = [status |-> "failed", due |-> FALSE]]
    /\ NextRow(s)
    /\ UNCHANGED <<copies, process, disruptions>>

MarkFailedFails(s) ==
    /\ Awaits(s, "markFailed")
    /\ Disrupt
    /\ Reject(s)

-----------------------------------------------------------------------------
\* What the event loop does of its own accord with a batch.
BatchStep(s) ==
    \/ List(s)
    \/ Publish(s)
    \/ PublishSkipped(s)
    \/ MarkPublished(s)
    \/ MarkFailed(s)

BatchFailure(s) ==
    \/ ListFails(s)
    \/ PublishFails(s)
    \/ MarkPublishedFails(s)
    \/ MarkFailedFails(s)

Next ==
    \/ \E e \in Events : CommitRow(e) \/ BackoffElapses(e)
    \/ \E s \in Slots : BatchStep(s) \/ BatchFailure(s)
    \/ \E s \in Ticks : Tick(s)
    \/ Start \/ SetTimer \/ Signal \/ Stop \/ Exit \/ KilledAfterSignal \/ Killed

Spec == Init /\ [][Next]_vars

\* Time passes, the event loop serves every callback, a terminated process is
\* killed in the end and started again.
Fairness ==
    /\ \A e \in Events : WF_vars(BackoffElapses(e))
    /\ \A s \in Slots : WF_vars(BatchStep(s))
    /\ \A s \in Ticks : WF_vars(Tick(s))
    /\ WF_vars(Start) /\ WF_vars(SetTimer) /\ WF_vars(Stop)
    /\ WF_vars(Exit) /\ WF_vars(KilledAfterSignal)

FairSpec == Spec /\ Fairness

-----------------------------------------------------------------------------
(* Properties.                                                             *)

\* The rows, the process and its batches are well formed: a batch that is not
\* idle has a row to handle and never more rows than the limit.
TypeOK ==
    /\ rows \in [Events -> [status : Statuses, due : BOOLEAN]]
    /\ copies \in [Events -> Nat]
    /\ worker \in {"down", "up", "closing", "stopped"}
    /\ startup \in {"none", "first", "done"}
    /\ {interval, aborted, configured, signalled} \subseteq BOOLEAN
    /\ \A s \in Slots :
         /\ batch[s].step \in {"idle", "list", "publish", "markPublished", "markFailed"}
         /\ \A i \in DOMAIN batch[s].queue : batch[s].queue[i] \in Events
         /\ Len(batch[s].queue) <= Limit
         /\ batch[s].step \in {"idle", "list"} <=> batch[s].queue = <<>>
    /\ disruptions \in 0..MaxDisruptions

\* No event is dropped: a row says published only once the topic has the event,
\* so whatever is not in the topic is still listed again sooner or later.
PublishedIsInTopic ==
    \A e \in Events : rows[e].status = "published" => copies[e] > 0

\* An event is repeated in the topic only through batches that overlap and
\* calls or processes that fail: each disruption costs at most one more round of
\* overlapping batches.  The bound is reached.
DuplicatesAreBounded ==
    \A e \in Events : copies[e] <= Cardinality(Ticks) * (1 + disruptions)

\* A stopped publisher begins no batch, even if a timer was left behind.
StopIsFinal ==
    [][\A s \in Slots : aborted /\ Idle(s) => batch'[s].step = "idle"]_vars

\* If the worker is in the end configured for Kafka and stays so, every committed
\* row is published and stays so, and so is in the topic; batches that overlap or
\* fail may take it back from published to failed on the way.
RowsSettle ==
    <>[]configured =>
        <>[](\A e \in Events : rows[e].status \in {"absent", "published"})

================================================================================
