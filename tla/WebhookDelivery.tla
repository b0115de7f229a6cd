---------------------------- MODULE WebhookDelivery ----------------------------
(***************************************************************************)
(* Outgoing webhooks: the request that records an event and enqueues a job *)
(* for each delivery row, and the webhook worker that attempts it.         *)
(*                                                                         *)
(* Two counters decide when to give up: attempt_count of the row, which    *)
(* the worker writes, and the attempts BullMQ made of the job.  The worker *)
(* reads the row before its request to the receiver and writes it after.   *)
(*                                                                         *)
(* BullMQ is modelled by what the worker relies on: a job is given to one  *)
(* slot at a time as long as that slot renews its lock; a job whose lock   *)
(* was lost is handed out again, MaxStalledCount times; a job that throws  *)
(* is delayed and handed out again, attempts times in all.                 *)
(***************************************************************************)
EXTENDS Integers, FiniteSets

CONSTANTS
    Events,             \* organization access events
    Endpoints,          \* webhook endpoints that subscribe to them
    Slots,              \* concurrent processors of the webhook queue
    NoSlot,
    MaxAttempts,        \* MAX_WEBHOOK_DELIVERY_ATTEMPTS, and "attempts" of the job
    MaxStalledCount,    \* BullMQ's default is 1
    MaxEnqueueFaults,   \* bounds: failures to enqueue, and crashes of the request
    MaxDatabaseFaults,  \* failing queries of the worker
    MaxSecretFaults,    \* changes of BETTER_AUTH_SECRET
    MaxLockFaults,      \* locks that expire under a running processor
    MaxCrashes          \* crashes of a worker

ASSUME WebhookAssumption ==
    /\ NoSlot \notin Slots /\ IsFiniteSet(Slots)
    /\ MaxAttempts \in Nat \ {0} /\ MaxStalledCount \in Nat
    /\ {MaxEnqueueFaults, MaxDatabaseFaults, MaxSecretFaults, MaxLockFaults, MaxCrashes} \subseteq Nat

Deliveries == Events \X Endpoints

Faults == {"enqueue", "database", "secret", "lock", "crash"}

MaxFaults(kind) ==
    CASE kind = "enqueue" -> MaxEnqueueFaults
      [] kind = "database" -> MaxDatabaseFaults
      [] kind = "secret" -> MaxSecretFaults
      [] kind = "lock" -> MaxLockFaults
      [] kind = "crash" -> MaxCrashes

VARIABLES
    endpoint,   \* endpoint -> "none", "active", "sealed", "inactive" or "deleted"
    request,    \* event -> the request that records it: its phase and endpoints
    row,        \* delivery -> its row of webhook_deliveries
    job,        \* delivery -> its job in Redis
    run,        \* slot -> the attempt it is making
    posts,      \* delivery -> requests sent to the receiver
    accepted,   \* delivery -> those the receiver accepted
    unrecorded, \* delivery -> attempts whose result could not be recorded in time
    faults      \* kind -> how often it happened

vars == <<endpoint, request, row, job, run, posts, accepted, unrecorded, faults>>

receiver == <<posts, accepted>>

-----------------------------------------------------------------------------
Rows == [status : {"none", "pending", "delivered", "failed"}, attempts : Nat]

Jobs == [state : {"none", "waiting", "delayed", "active", "completed", "failed"},
         owner : Slots \cup {NoSlot}, made : Nat, stalls : Nat]

Phases == {"find", "inactive", "post", "success", "failure", "complete", "throw"}

Runs == [delivery : Deliveries, phase : Phases, attempt : Nat]

Idle == [phase |-> "idle"]

NoRow == [status |-> "none", attempts |-> 0]
NoJob == [state |-> "none", owner |-> NoSlot, made |-> 0, stalls |-> 0]

Fault(kind) ==
    /\ faults[kind] < MaxFaults(kind)
    /\ faults' = [faults EXCEPT ![kind] = @ + 1]

Init ==
    /\ endpoint = [e \in Endpoints |-> "none"]
    /\ request = [v \in Events |-> [phase |-> "select", targets |-> {}]]
    /\ row = [d \in Deliveries |-> NoRow]
    /\ job = [d \in Deliveries |-> NoJob]
    /\ run = [s \in Slots |-> Idle]
    /\ posts = [d \in Deliveries |-> 0]
    /\ accepted = [d \in Deliveries |-> 0]
    /\ unrecorded = [d \in Deliveries |-> 0]
    /\ faults = [kind \in Faults |-> 0]

-----------------------------------------------------------------------------
(* The request: recordOrganizationAccessEvent, after the audit row.        *)

\* A sealed endpoint is active, and its secret cannot be decrypted any more.
Active(e) == endpoint[e] \in {"active", "sealed"}

SelectEndpoints(v) ==
    /\ request[v].phase = "select"
    /\ LET active == {e \in Endpoints : Active(e)}
       IN request' = [request EXCEPT ![v] =
                        [phase |-> IF active = {} THEN "done" ELSE "insert",
                         targets |-> active]]
    /\ UNCHANGED <<endpoint, row, job, run, receiver, unrecorded, faults>>

\* One INSERT of all rows.
InsertDeliveries(v) ==
    /\ request[v].phase = "insert"
    /\ \A e \in request[v].targets : endpoint[e] # "deleted"
    /\ request' = [request EXCEPT ![v].phase = "enqueue"]
    /\ row' = [d \in Deliveries |->
                 IF d[1] = v /\ d[2] \in request[v].targets
                 THEN [status |-> "pending", attempts |-> 0]
                 ELSE row[d]]
    /\ UNCHANGED <<endpoint, job, run, receiver, unrecorded, faults>>

\* An endpoint deleted since the SELECT fails the foreign key, for all of them.
InsertFails(v) ==
    /\ request[v].phase = "insert"
    /\ \E e \in request[v].targets : endpoint[e] = "deleted"
    /\ request' = [request EXCEPT ![v] = [phase |-> "done", targets |-> {}]]
    /\ UNCHANGED <<endpoint, row, job, run, receiver, unrecorded, faults>>

Unqueued(v, e) ==
    LET left == request[v].targets \ {e}
    IN [phase |-> IF left = {} THEN "done" ELSE "enqueue", targets |-> left]

\* The adds run concurrently: in any order.
EnqueueJob(v, e) ==
    /\ request[v].phase = "enqueue"
    /\ e \in request[v].targets
    /\ request' = [request EXCEPT ![v] = Unqueued(v, e)]
    /\ job' = [job EXCEPT ![<<v, e>>].state = "waiting"]
    /\ UNCHANGED <<endpoint, row, run, receiver, unrecorded, faults>>

\* allSettled: a failure is logged and the others go on.
EnqueueFails(v, e) ==
    /\ request[v].phase = "enqueue"
    /\ e \in request[v].targets
    /\ Fault("enqueue")
    /\ request' = [request EXCEPT ![v] = Unqueued(v, e)]
    /\ UNCHANGED <<endpoint, row, job, run, receiver, unrecorded>>

RequestCrashes(v) ==
    /\ request[v].phase # "done"
    /\ Fault("enqueue")
    /\ request' = [request EXCEPT ![v] = [phase |-> "done", targets |-> {}]]
    /\ UNCHANGED <<endpoint, row, job, run, receiver, unrecorded>>

\* An endpoint is active from its INSERT on.
CreateEndpoint(e) ==
    /\ endpoint[e] = "none"
    /\ endpoint' = [endpoint EXCEPT ![e] = "active"]
    /\ UNCHANGED <<request, row, job, run, receiver, unrecorded, faults>>

\* The rows go with their endpoint.
DeleteEndpoint(e) ==
    /\ endpoint[e] \notin {"none", "deleted"}
    /\ endpoint' = [endpoint EXCEPT ![e] = "deleted"]
    /\ row' = [d \in Deliveries |-> IF d[2] = e THEN NoRow ELSE row[d]]
    /\ UNCHANGED <<request, job, run, receiver, unrecorded, faults>>

\* No code writes the column: an operator does.
Deactivate(e) ==
    /\ Active(e)
    /\ endpoint' = [endpoint EXCEPT ![e] = "inactive"]
    /\ UNCHANGED <<request, row, job, run, receiver, unrecorded, faults>>

\* The worker runs with another BETTER_AUTH_SECRET than the one that encrypted.
ChangeSecret ==
    /\ Fault("secret")
    /\ endpoint' = [e \in Endpoints |->
                       IF endpoint[e] = "active" THEN "sealed" ELSE endpoint[e]]
    /\ UNCHANGED <<request, row, job, run, receiver, unrecorded>>

-----------------------------------------------------------------------------
(* The queue.                                                              *)

Take(s, d) ==
    /\ run[s] = Idle
    /\ job[d].state = "waiting"
    /\ job' = [job EXCEPT ![d].state = "active", ![d].owner = s]
    /\ run' = [run EXCEPT ![s] = [delivery |-> d, phase |-> "find", attempt |-> 0]]
    /\ UNCHANGED <<endpoint, request, row, receiver, unrecorded, faults>>

DelayElapses(d) ==
    /\ job[d].state = "delayed"
    /\ job' = [job EXCEPT ![d].state = "waiting"]
    /\ UNCHANGED <<endpoint, request, row, run, receiver, unrecorded, faults>>

Owns(s) == job[run[s].delivery].owner = s

\* What becomes of a job whose lock nobody renews.
Stalled(d) ==
    [job EXCEPT ![d] = [@ EXCEPT
        !.state = IF job[d].stalls < MaxStalledCount THEN "waiting" ELSE "failed",
        !.owner = NoSlot, !.stalls = job[d].stalls + 1]]

\* The processor is too slow to renew its lock, and goes on.
LockExpires(s) ==
    /\ run[s] # Idle
    /\ Owns(s)
    /\ Fault("lock")
    /\ job' = Stalled(run[s].delivery)
    /\ unrecorded' = [unrecorded EXCEPT ![run[s].delivery] =
                        IF run[s].phase \in {"complete", "throw"} THEN @ ELSE @ + 1]
    /\ UNCHANGED <<endpoint, request, row, run, receiver>>

Crash(s) ==
    /\ run[s] # Idle
    /\ Fault("crash")
    /\ run' = [run EXCEPT ![s] = Idle]
    /\ job' = IF Owns(s) THEN [job EXCEPT ![run[s].delivery].owner = NoSlot] ELSE job
    /\ unrecorded' = [unrecorded EXCEPT ![run[s].delivery] =
                        IF run[s].phase = "success" THEN @ + 1 ELSE @]
    /\ UNCHANGED <<endpoint, request, row, receiver>>

\* A job that was active in a crashed worker.
RecoverStalled(d) ==
    /\ job[d].state = "active"
    /\ job[d].owner = NoSlot
    /\ job' = Stalled(d)
    /\ UNCHANGED <<endpoint, request, row, run, receiver, unrecorded, faults>>

\* The processor returns.
CompleteJob(s) ==
    /\ run[s] # Idle
    /\ run[s].phase = "complete"
    /\ run' = [run EXCEPT ![s] = Idle]
    /\ job' = IF Owns(s)
              THEN [job EXCEPT ![run[s].delivery].state = "completed",
                               ![run[s].delivery].owner = NoSlot]
              ELSE job
    /\ UNCHANGED <<endpoint, request, row, receiver, unrecorded, faults>>

\* The processor throws; "attempts" counts the first attempt too.
FailJob(s) ==
    /\ run[s] # Idle
    /\ run[s].phase = "throw"
    /\ run' = [run EXCEPT ![s] = Idle]
    /\ job' = LET d == run[s].delivery
                  again == job[d].made + 1 < MaxAttempts
              IN IF Owns(s)
                 THEN [job EXCEPT ![d] = [@ EXCEPT
                         !.state = IF again THEN "delayed" ELSE "failed",
                         !.owner = NoSlot, !.made = job[d].made + 1]]
                 ELSE job
    /\ UNCHANGED <<endpoint, request, row, receiver, unrecorded, faults>>

-----------------------------------------------------------------------------
(* The processor.                                                          *)

Go(s, phase) == run' = [run EXCEPT ![s].phase = phase]

At(s, phase) == run[s] # Idle /\ run[s].phase = phase

\* The row and its endpoint are read together; the attempt is numbered here.
GoesTo(s, phase) ==
    /\ At(s, "find")
    /\ run' = [run EXCEPT ![s] = [@ EXCEPT
                  !.phase = phase, !.attempt = row[run[s].delivery].attempts + 1]]
    /\ UNCHANGED <<endpoint, request, row, job, receiver, unrecorded, faults>>

\* Before the try: a secret that cannot be decrypted costs the job an attempt, and
\* nothing is written to the row.
AttemptOf(e) ==
    IF ~Active(e) THEN "inactive" ELSE IF endpoint[e] = "sealed" THEN "throw" ELSE "post"

\* Faulty: a delivered row is attempted again.
FindUnchecked(s) ==
    LET d == run[s].delivery
    IN  GoesTo(s, IF row[d].status = "none" THEN "complete" ELSE AttemptOf(d[2]))

\* Faulty: the endpoint is looked at before the status.
FindInactiveFirst(s) ==
    LET d == run[s].delivery
    IN  GoesTo(s, IF row[d].status # "none" /\ ~Active(d[2]) THEN "inactive"
                  ELSE IF row[d].status \in {"none", "delivered"} THEN "complete"
                  ELSE AttemptOf(d[2]))

Find(s) ==
    LET d == run[s].delivery
    IN  GoesTo(s, IF row[d].status \in {"none", "delivered"} THEN "complete"
                  ELSE AttemptOf(d[2]))

PostAccepted(s) ==
    /\ At(s, "post")
    /\ posts' = [posts EXCEPT ![run[s].delivery] = @ + 1]
    /\ accepted' = [accepted EXCEPT ![run[s].delivery] = @ + 1]
    /\ Go(s, "success")
    /\ UNCHANGED <<endpoint, request, row, job, unrecorded, faults>>

\* No answer, or one that is not ok.
PostRejected(s) ==
    /\ At(s, "post")
    /\ posts' = [posts EXCEPT ![run[s].delivery] = @ + 1]
    /\ Go(s, "failure")
    /\ UNCHANGED <<endpoint, request, row, job, accepted, unrecorded, faults>>

\* The receiver has it, and its answer is lost.
PostAnswerLost(s) ==
    /\ At(s, "post")
    /\ posts' = [posts EXCEPT ![run[s].delivery] = @ + 1]
    /\ accepted' = [accepted EXCEPT ![run[s].delivery] = @ + 1]
    /\ unrecorded' = [unrecorded EXCEPT ![run[s].delivery] = @ + 1]
    /\ Go(s, "failure")
    /\ UNCHANGED <<endpoint, request, row, job, faults>>

\* An UPDATE of a row that was deleted does nothing.
UpdateRow(s, status) ==
    LET d == run[s].delivery
    IN row' = [row EXCEPT ![d] =
                 IF @.status = "none" THEN @
                 ELSE [status |-> status, attempts |-> run[s].attempt]]

MarkSuccess(s) ==
    /\ At(s, "success")
    /\ UpdateRow(s, "delivered")
    /\ Go(s, "complete")
    /\ UNCHANGED <<endpoint, request, job, receiver, unrecorded, faults>>

\* Inside the try: the attempt is marked as failed, though the UPDATE may have been made.
MarkSuccessFails(s) ==
    /\ At(s, "success")
    /\ Fault("database")
    /\ UNCHANGED row \/ UpdateRow(s, "delivered")
    /\ unrecorded' = [unrecorded EXCEPT ![run[s].delivery] = @ + 1]
    /\ Go(s, "failure")
    /\ UNCHANGED <<endpoint, request, job, receiver>>

ShouldRetry(s) == run[s].attempt < MaxAttempts

\* Faulty: the row gets one attempt more than the job.
MarkFailureLate(s) ==
    /\ At(s, "failure")
    /\ UpdateRow(s, IF run[s].attempt <= MaxAttempts THEN "pending" ELSE "failed")
    /\ Go(s, IF run[s].attempt <= MaxAttempts THEN "throw" ELSE "complete")
    /\ UNCHANGED <<endpoint, request, job, receiver, unrecorded, faults>>

\* The catch: a failed attempt throws again only if there is another one.
MarkFailure(s) ==
    /\ At(s, "failure")
    /\ UpdateRow(s, IF ShouldRetry(s) THEN "pending" ELSE "failed")
    /\ Go(s, IF ShouldRetry(s) THEN "throw" ELSE "complete")
    /\ UNCHANGED <<endpoint, request, job, receiver, unrecorded, faults>>

MarkInactive(s) ==
    /\ At(s, "inactive")
    /\ UpdateRow(s, "failed")
    /\ Go(s, "complete")
    /\ UNCHANGED <<endpoint, request, job, receiver, unrecorded, faults>>

\* The SELECT, or an UPDATE that may have been made, fails outside the try.
QueryFails(s) ==
    /\ Fault("database")
    /\ \/ At(s, "find") /\ UNCHANGED row
       \/ At(s, "inactive") /\ (UNCHANGED row \/ UpdateRow(s, "failed"))
       \/ /\ At(s, "failure")
          /\ UNCHANGED row \/ UpdateRow(s, IF ShouldRetry(s) THEN "pending" ELSE "failed")
    /\ Go(s, "throw")
    /\ UNCHANGED <<endpoint, request, job, receiver, unrecorded>>

-----------------------------------------------------------------------------
RequestStep(v) ==
    \/ SelectEndpoints(v) \/ InsertDeliveries(v) \/ InsertFails(v)
    \/ \E e \in Endpoints : EnqueueJob(v, e)

RunStep(s) ==
    \/ Find(s) \/ PostAccepted(s) \/ PostRejected(s) \/ PostAnswerLost(s)
    \/ MarkSuccess(s) \/ MarkFailure(s) \/ MarkInactive(s)
    \/ CompleteJob(s) \/ FailJob(s)

QueueStep(d) == DelayElapses(d) \/ RecoverStalled(d) \/ \E s \in Slots : Take(s, d)

Fails ==
    \/ \E v \in Events : RequestCrashes(v) \/ \E e \in Endpoints : EnqueueFails(v, e)
    \/ \E s \in Slots : QueryFails(s) \/ MarkSuccessFails(s) \/ LockExpires(s) \/ Crash(s)
    \/ ChangeSecret

Next ==
    \/ \E v \in Events : RequestStep(v)
    \/ \E e \in Endpoints : CreateEndpoint(e) \/ DeleteEndpoint(e) \/ Deactivate(e)
    \/ \E d \in Deliveries : QueueStep(d)
    \/ \E s \in Slots : RunStep(s)
    \/ Fails

Spec == Init /\ [][Next]_vars

\* The worker serves its slots, fetch ends, and the queue hands jobs out.
Fairness ==
    /\ \A v \in Events : WF_vars(RequestStep(v))
    /\ \A s \in Slots : WF_vars(RunStep(s))
    /\ \A d \in Deliveries : SF_vars(QueueStep(d))

FairSpec == Spec /\ Fairness

-----------------------------------------------------------------------------
(* Properties.                                                             *)

\* Rows, jobs and attempts have their shapes, and an owner works on its job.
TypeOK ==
    /\ endpoint \in [Endpoints -> {"none", "active", "sealed", "inactive", "deleted"}]
    /\ \A v \in Events :
         /\ request[v].phase \in {"select", "insert", "enqueue", "done"}
         /\ request[v].targets \subseteq Endpoints
    /\ row \in [Deliveries -> Rows]
    /\ job \in [Deliveries -> Jobs]
    /\ run \in [Slots -> Runs \cup {Idle}]
    /\ posts \in [Deliveries -> Nat]
    /\ accepted \in [Deliveries -> Nat]
    /\ unrecorded \in [Deliveries -> Nat]
    /\ \A kind \in Faults : faults[kind] \in 0..MaxFaults(kind)
    /\ \A d \in Deliveries : \A s \in Slots :
         job[d].owner = s => run[s] # Idle /\ run[s].delivery = d

\* A receiver gets an event a second time only if the result of an attempt was
\* lost or came too late.
DuplicatesAreExplained ==
    \A d \in Deliveries : accepted[d] <= 1 + unrecorded[d]

\* A delivered row is set back only after the result of an attempt was lost or came too
\* late: neither a later attempt nor the state of the endpoint does it, however the job is
\* handed out again.
DeliveredRowsStay ==
    [][ \A d \in Deliveries :
          row[d].status = "delivered" /\ row'[d].status \in {"pending", "failed"} =>
              unrecorded[d] > 0 ]_vars

\* A row that waits for an attempt has a job that will make one, unless a failing
\* call, a changed secret or an expired lock took it away: crashes alone do so only
\* when they exceed MaxStalledCount.
PendingRowsHaveJobs ==
    \A d \in Deliveries :
        \/ row[d].status # "pending"
        \/ job[d].state \in {"waiting", "delayed", "active"}
        \/ request[d[1]].phase = "enqueue" /\ d[2] \in request[d[1]].targets
        \/ \E kind \in {"enqueue", "database", "secret", "lock"} : faults[kind] > 0
        \/ job[d].stalls > MaxStalledCount

\* A delivery whose job is in the queue does not stay pending, unless a query of the
\* worker fails, the secret is changed, or locks are lost more often than the queue
\* tolerates.
QueuedDeliveriesSettle ==
    \A d \in Deliveries :
        row[d].status = "pending" /\ job[d].state # "none"
            ~> \/ row[d].status # "pending"
               \/ \E kind \in {"database", "secret", "lock"} : faults[kind] > 0
               \/ job[d].stalls > MaxStalledCount

\* "the worker keeps retrying until the bounded attempt limit is reached": a
\* delivery that was refused is tried again until it is delivered or failed.
RefusedDeliveriesSettle ==
    \A d \in Deliveries :
        row[d].status = "pending" /\ row[d].attempts > 0 ~> row[d].status # "pending"

================================================================================
