------------------------- MODULE WebhookDeliveryProofs -------------------------
(***************************************************************************)
(* Proofs about WebhookDelivery, for any events, endpoints and attempts    *)
(* and any number of processors, faults and crashes.                       *)
(*                                                                         *)
(* DInv is what every state of the rows, jobs and attempts has in common;  *)
(* it holds on its own.  The two properties of the deliveries rest on it:  *)
(* AInv counts the requests that may still be accepted, JInv relates the   *)
(* two counters that decide when to give up.                               *)
(***************************************************************************)
EXTENDS WebhookDelivery, FiniteSetTheorems, TLAPS

Working(s, d) == run[s] # Idle /\ run[s].delivery = d

WTypes ==
    /\ endpoint \in [Endpoints -> {"none", "active", "sealed", "inactive", "deleted"}]
    /\ request \in [Events -> [phase : {"select", "insert", "enqueue", "done"},
                               targets : SUBSET Endpoints]]
    /\ row \in [Deliveries -> Rows]
    /\ job \in [Deliveries -> Jobs]
    /\ run \in [Slots -> Runs \cup {Idle}]
    /\ accepted \in [Deliveries -> Nat]
    /\ unrecorded \in [Deliveries -> Nat]
    /\ faults \in [Faults -> Nat]

\* An active job has at most one owner, who works on it, and only jobs are worked on.
OwnersWork ==
    /\ \A d \in Deliveries, s \in Slots : job[d].owner = s => Working(s, d)
    /\ \A d \in Deliveries : job[d].owner # NoSlot => job[d].state = "active"
    /\ \A s \in Slots : run[s] # Idle => job[run[s].delivery].state # "none"

\* Before its row is inserted a delivery has no row and no job.
Fresh(d) ==
    request[d[1]].phase \in {"select", "insert"} => row[d].status = "none" /\ job[d] = NoJob

\* Its request has still to enqueue it.
Unsent(d) == request[d[1]].phase = "enqueue" /\ d[2] \in request[d[1]].targets

\* A row is enqueued once, and gone only with its endpoint.
RowsAndJobs ==
    \A d \in Deliveries :
        /\ Fresh(d)
        /\ Unsent(d) => job[d] = NoJob
        /\ (job[d].state # "none" \/ Unsent(d)) /\ row[d].status = "none" =>
               endpoint[d[2]] = "deleted"

\* Neither a request nor an attempt that began before an endpoint was deleted leaves a row
\* behind.
DeletedEndpointsHaveNoRows ==
    \A d \in Deliveries : endpoint[d[2]] = "deleted" => row[d].status = "none"

DInv == WTypes /\ OwnersWork /\ RowsAndJobs /\ DeletedEndpointsHaveNoRows

\* A delivery is an event and an endpoint.
LEMMA DeliveryIsPair ==
    /\ \A d \in Deliveries : d[1] \in Events /\ d[2] \in Endpoints /\ d = <<d[1], d[2]>>
    /\ \A v \in Events, e \in Endpoints :
         <<v, e>> \in Deliveries /\ <<v, e>>[1] = v /\ <<v, e>>[2] = e
BY DEF Deliveries

\* An attempt is never idle.
LEMMA RunsAreNotIdle ==
    /\ \A r \in Runs : r # Idle /\ r.phase \in Phases /\ r.delivery \in Deliveries
                       /\ r.attempt \in Nat
    /\ Idle.phase = "idle"
BY DEF Runs, Idle, Phases

\* What an attempt that goes on to another phase becomes.
LEMMA GoesOn ==
    ASSUME WTypes, NEW s \in Slots, run[s] # Idle, NEW phase \in Phases, Go(s, phase)
    PROVE  /\ run' \in [Slots -> Runs \cup {Idle}]
           /\ run[s] \in Runs /\ run'[s] \in Runs
           /\ run'[s].delivery = run[s].delivery /\ run'[s].attempt = run[s].attempt
           /\ run'[s].phase = phase
           /\ \A r \in Slots : r # s => run'[r] = run[r]
<1>1. run[s] \in Runs
  BY DEF WTypes
<1>2. run' = [run EXCEPT ![s] = [run[s] EXCEPT !.phase = phase]]
  BY DEF Go
<1>3. [run[s] EXCEPT !.phase = phase] \in Runs
  BY <1>1 DEF Runs
<1> QED BY <1>1, <1>2, <1>3 DEF WTypes, Runs

\* An UPDATE leaves the other rows alone and inserts none.
LEMMA UpdatesRow ==
    ASSUME WTypes, NEW s \in Slots, run[s] \in Runs,
           NEW status \in {"pending", "delivered", "failed"}, UpdateRow(s, status)
    PROVE  LET d == run[s].delivery
           IN  /\ row' \in [Deliveries -> Rows] /\ d \in Deliveries
               /\ \A f \in Deliveries : f # d => row'[f] = row[f]
               /\ row[d].status = "none" => row'[d] = row[d]
               /\ row[d].status # "none" =>
                    row'[d] = [status |-> status, attempts |-> run[s].attempt]
<1> DEFINE d == run[s].delivery
           new == IF row[d].status = "none" THEN row[d]
                  ELSE [status |-> status, attempts |-> run[s].attempt]
<1>1. d \in Deliveries /\ run[s].attempt \in Nat
  BY RunsAreNotIdle
<1>2. row' = [row EXCEPT ![d] = new]
  BY DEF UpdateRow
<1>3. row[d] \in Rows
  BY <1>1 DEF WTypes
<1>4. new \in Rows
  <2>1. [status |-> status, attempts |-> run[s].attempt] \in Rows
    BY <1>1 DEF Rows
  <2> QED BY <1>3, <2>1
<1> QED BY <1>1, <1>2, <1>4 DEF WTypes

\* Where a processor goes when it has read the row.
LEMMA FindDoes ==
    ASSUME NEW s \in Slots, Find(s)
    PROVE  /\ At(s, "find") /\ UNCHANGED <<endpoint, request, row, job, receiver, unrecorded, faults>>
           /\ \E phase \in {"complete", "inactive", "throw", "post"} :
              /\ row[run[s].delivery].status \in {"none", "delivered"} <=> phase = "complete"
              /\ phase = "throw" => endpoint[run[s].delivery[2]] = "sealed"
              /\ run' = [run EXCEPT ![s] = [run[s] EXCEPT
                            !.phase = phase,
                            !.attempt = row[run[s].delivery].attempts + 1]]
<1> DEFINE d == run[s].delivery
           phase == IF row[d].status \in {"none", "delivered"} THEN "complete"
                    ELSE AttemptOf(d[2])
<1>1. GoesTo(s, phase)
  BY DEF Find
<1>2. /\ phase \in {"complete", "inactive", "throw", "post"}
      /\ row[d].status \in {"none", "delivered"} <=> phase = "complete"
      /\ phase = "throw" => endpoint[d[2]] = "sealed"
  BY DEF AttemptOf
<1> HIDE DEF phase
<1> QED BY <1>1, <1>2 DEF GoesTo

\* The steps of a processor, without those that give the job back.
Processes(s) ==
    \/ Find(s) \/ QueryFails(s)
    \/ PostAccepted(s) \/ PostRejected(s) \/ PostAnswerLost(s)
    \/ MarkSuccess(s) \/ MarkSuccessFails(s) \/ MarkFailure(s) \/ MarkInactive(s)

\* A failing call is counted.
LEMMA FaultCounts ==
    ASSUME WTypes, NEW kind \in Faults, Fault(kind)
    PROVE  /\ faults' \in [Faults -> Nat] /\ faults'[kind] > 0
           /\ \A k \in Faults : faults[k] > 0 => faults'[k] > 0
BY DEF WTypes, Fault

\* What they have in common: one attempt, one row and the counters of one delivery.
LEMMA ProcessorStep ==
    ASSUME WTypes, NEW s \in Slots, Processes(s)
    PROVE  LET d == run[s].delivery
           IN  /\ UNCHANGED <<endpoint, request, job>>
               /\ WTypes'
               /\ run[s] # Idle /\ run[s] \in Runs /\ run'[s] \in Runs /\ d \in Deliveries
               /\ run'[s].delivery = d
               /\ \A r \in Slots : r # s => run'[r] = run[r]
               /\ row[d].status = "none" <=> row'[d].status = "none"
               /\ \A f \in Deliveries : f # d =>
                    /\ row'[f] = row[f] /\ accepted'[f] = accepted[f]
                    /\ unrecorded'[f] = unrecorded[f]
               /\ \A k \in Faults : faults[k] > 0 => faults'[k] > 0
<1> DEFINE d == run[s].delivery
<1>1. run[s] # Idle /\ run[s] \in Runs /\ d \in Deliveries /\ UNCHANGED <<endpoint, request, job>>
  <2>1. run[s] # Idle /\ UNCHANGED <<endpoint, request, job>>
    BY FindDoes DEF Processes, QueryFails, PostAccepted, PostRejected, PostAnswerLost,
       MarkSuccess, MarkSuccessFails, MarkFailure, MarkInactive, At
  <2>2. run[s] \in Runs
    BY <2>1 DEF WTypes
  <2> QED BY <2>1, <2>2, RunsAreNotIdle
<1>2. /\ run' \in [Slots -> Runs \cup {Idle}] /\ run'[s] \in Runs /\ run'[s].delivery = d
      /\ \A r \in Slots : r # s => run'[r] = run[r]
  <2>1. CASE Find(s)
    <3>1. PICK phase \in Phases : run' = [run EXCEPT ![s] = [run[s] EXCEPT
                                            !.phase = phase, !.attempt = row[d].attempts + 1]]
      <4>1. {"complete", "inactive", "throw", "post"} \subseteq Phases
        BY DEF Phases
      <4> QED BY <2>1, <4>1, FindDoes
    <3>2. row[d].attempts + 1 \in Nat
      BY <1>1 DEF WTypes, Rows
    <3>3. [run[s] EXCEPT !.phase = phase, !.attempt = row[d].attempts + 1] \in Runs
      BY <1>1, <3>2 DEF Runs
    <3> QED BY <1>1, <3>1, <3>3 DEF WTypes, Runs
  <2>2. CASE ~Find(s)
    <3>1. PICK phase \in Phases : Go(s, phase)
      BY <2>2 DEF Processes, QueryFails, PostAccepted, PostRejected, PostAnswerLost,
         MarkSuccess, MarkSuccessFails, MarkFailure, MarkInactive, Phases
    <3> QED BY <1>1, <3>1, GoesOn
  <2> QED BY <2>1, <2>2
<1>3. /\ row' \in [Deliveries -> Rows]
      /\ row[d].status = "none" <=> row'[d].status = "none"
      /\ \A f \in Deliveries : f # d => row'[f] = row[f]
  <2>1. CASE row' = row
    BY <2>1 DEF WTypes
  <2>2. ASSUME NEW status \in {"pending", "delivered", "failed"}, UpdateRow(s, status)
        PROVE  /\ row' \in [Deliveries -> Rows]
               /\ row[d].status = "none" <=> row'[d].status = "none"
               /\ \A f \in Deliveries : f # d => row'[f] = row[f]
    <3>1. /\ row' \in [Deliveries -> Rows]
          /\ \A f \in Deliveries : f # d => row'[f] = row[f]
          /\ row[d].status = "none" => row'[d] = row[d]
          /\ row[d].status # "none" =>
               row'[d] = [status |-> status, attempts |-> run[s].attempt]
      BY <1>1, <2>2, UpdatesRow
    <3> QED BY <3>1
  <2>3. \/ row' = row
        \/ \E status \in {"pending", "delivered", "failed"} : UpdateRow(s, status)
    BY FindDoes DEF Processes, QueryFails, PostAccepted, PostRejected,
       PostAnswerLost, MarkSuccess, MarkSuccessFails, MarkFailure, MarkInactive
  <2> QED BY <2>1, <2>2, <2>3
<1>4. /\ accepted' \in [Deliveries -> Nat] /\ unrecorded' \in [Deliveries -> Nat]
      /\ \A f \in Deliveries : f # d =>
           accepted'[f] = accepted[f] /\ unrecorded'[f] = unrecorded[f]
  <2>1. \/ accepted' = accepted
        \/ accepted' = [accepted EXCEPT ![d] = @ + 1]
    BY FindDoes DEF Processes, QueryFails, PostAccepted, PostRejected, PostAnswerLost,
       MarkSuccess, MarkSuccessFails, MarkFailure, MarkInactive, receiver
  <2>2. \/ unrecorded' = unrecorded
        \/ unrecorded' = [unrecorded EXCEPT ![d] = @ + 1]
    BY FindDoes DEF Processes, QueryFails, PostAccepted, PostRejected, PostAnswerLost,
       MarkSuccess, MarkSuccessFails, MarkFailure, MarkInactive
  <2> QED BY <1>1, <2>1, <2>2 DEF WTypes
<1>5. faults' \in [Faults -> Nat] /\ \A k \in Faults : faults[k] > 0 => faults'[k] > 0
  <2>1. faults' = faults \/ Fault("database")
    BY FindDoes DEF Processes, QueryFails, PostAccepted, PostRejected, PostAnswerLost,
       MarkSuccess, MarkSuccessFails, MarkFailure, MarkInactive
  <2> QED BY <2>1, FaultCounts DEF WTypes, Faults
<1> QED BY <1>1, <1>2, <1>3, <1>4, <1>5 DEF WTypes

\* Steps that leave the requests and endpoints alone, insert and delete no row and
\* enqueue nothing.
LEMMA RowsAndJobsKept ==
    ASSUME RowsAndJobs, DeletedEndpointsHaveNoRows, UNCHANGED <<endpoint, request>>,
           \A d \in Deliveries :
             /\ row'[d].status = "none" <=> row[d].status = "none"
             /\ job[d].state = "none" => job'[d] = job[d]
             /\ job[d].state # "none" => job'[d].state # "none"
    PROVE  RowsAndJobs' /\ DeletedEndpointsHaveNoRows'
<1>1. NoJob.state = "none"
  BY DEF NoJob
<1> QED BY <1>1 DEF RowsAndJobs, DeletedEndpointsHaveNoRows, Fresh, Unsent

\* A processor works on the row of its job only.
LEMMA ProcessingKeepsRows ==
    ASSUME DInv, NEW s \in Slots, Processes(s)
    PROVE  DInv'
<1>1. /\ UNCHANGED <<endpoint, request, job>> /\ WTypes'
      /\ run[s] # Idle /\ run'[s] \in Runs /\ run'[s].delivery = run[s].delivery
      /\ \A r \in Slots : r # s => run'[r] = run[r]
      /\ \A d \in Deliveries : row'[d].status = "none" <=> row[d].status = "none"
  BY ProcessorStep DEF DInv
<1>2. OwnersWork'
  BY <1>1, RunsAreNotIdle DEF DInv, OwnersWork, Working
<1>3. RowsAndJobs' /\ DeletedEndpointsHaveNoRows'
  BY <1>1, RowsAndJobsKept DEF DInv
<1> QED BY <1>1, <1>2, <1>3 DEF DInv

\* The steps that give a job to a processor, or take it back.
JobMoves ==
    \/ \E d \in Deliveries : QueueStep(d)
    \/ \E s \in Slots : LockExpires(s) \/ Crash(s) \/ CompleteJob(s) \/ FailJob(s)

\* What a job may become.
LEMMA JobIsTaken ==
    ASSUME DInv, NEW d \in Deliveries, NEW s \in Slots, Take(s, d)
    PROVE  /\ run[s] = Idle /\ job[d].state = "waiting" /\ job[d].owner = NoSlot
           /\ job' = [job EXCEPT ![d] = [job[d] EXCEPT !.state = "active", !.owner = s]]
           /\ [job[d] EXCEPT !.state = "active", !.owner = s] \in Jobs
           /\ run' = [run EXCEPT ![s] = [delivery |-> d, phase |-> "find", attempt |-> 0]]
           /\ [delivery |-> d, phase |-> "find", attempt |-> 0] \in Runs
           /\ UNCHANGED <<endpoint, request, row, accepted, unrecorded, faults>>
<1>1. job[d] \in Jobs
  BY DEF DInv, WTypes
<1>2. [job[d] EXCEPT !.state = "active", !.owner = s] \in Jobs
  BY <1>1 DEF Jobs
<1>3. [delivery |-> d, phase |-> "find", attempt |-> 0] \in Runs
  BY DEF Runs, Phases
<1>4. job' = [job EXCEPT ![d] = [job[d] EXCEPT !.state = "active", !.owner = s]]
  BY <1>1 DEF DInv, WTypes, Jobs, Take
<1> QED BY <1>2, <1>3, <1>4 DEF Take, DInv, OwnersWork, receiver

\* A job that is given back has no owner.
Free(d, new) ==
    /\ new \in Jobs /\ new.owner = NoSlot /\ new.state # "none"
    /\ job' = [job EXCEPT ![d] = new]

\* A job whose lock was lost waits again, or is given up.
LEMMA StalledIsFree ==
    ASSUME DInv, NEW d \in Deliveries, job' = Stalled(d)
    PROVE  \E new : /\ Free(d, new) /\ new.made = job[d].made
                    /\ \/ new.state = "waiting"
                       \/ new.state = "failed" /\ new.stalls > MaxStalledCount
<1>1. job[d] \in Jobs /\ job[d].stalls \in Nat /\ job[d].stalls + 1 \in Nat
  BY DEF DInv, WTypes, Jobs
<1>2. PICK state \in {"waiting", "failed"} :
        state = IF job[d].stalls < MaxStalledCount THEN "waiting" ELSE "failed"
  OBVIOUS
<1>3. PICK stalls \in Nat : stalls = job[d].stalls + 1
  BY <1>1
<1>4. state = "waiting" \/ stalls > MaxStalledCount
  BY <1>1, <1>2, <1>3, WebhookAssumption
<1>5. PICK new : new = [job[d] EXCEPT !.state = state, !.owner = NoSlot, !.stalls = stalls]
  OBVIOUS
<1>6. job' = [job EXCEPT ![d] = new]
  BY <1>2, <1>3, <1>5 DEF Stalled
<1>7. /\ new \in Jobs /\ new.owner = NoSlot /\ new.state = state
      /\ new.made = job[d].made /\ new.stalls = stalls
  <2>1. PICK j \in Jobs : j = job[d]
    BY <1>1
  <2>2. new = [j EXCEPT !.state = state, !.owner = NoSlot, !.stalls = stalls]
    BY <1>5, <2>1
  <2> QED BY <2>1, <2>2 DEF Jobs
<1>8. Free(d, new)
  BY <1>6, <1>7 DEF Free
<1> QED BY <1>4, <1>7, <1>8

\* What the end of an attempt does to its job, if the queue still knows of the attempt.
LEMMA EndFrees ==
    ASSUME DInv, NEW s \in Slots, CompleteJob(s) \/ FailJob(s) \/ Crash(s)
    PROVE  LET d == run[s].delivery
           IN  /\ run[s] # Idle /\ run[s] \in Runs /\ d \in Deliveries
               /\ run' = [run EXCEPT ![s] = Idle]
               /\ UNCHANGED <<endpoint, request, row, accepted>>
               /\ \/ job[d].owner # s /\ job' = job
                  \/ /\ job[d].owner = s
                     /\ \E new \in Jobs :
                          /\ new.owner = NoSlot /\ new.state # "none" /\ new.stalls = job[d].stalls
                          /\ job' = [job EXCEPT ![d] = new]
                          /\ \/ /\ run[s].phase = "complete" /\ CompleteJob(s)
                                /\ new.made = job[d].made
                             \/ /\ Crash(s) /\ new.state = "active" /\ new.made = job[d].made
                             \/ /\ run[s].phase = "throw" /\ FailJob(s)
                                /\ new.made = job[d].made + 1
                                /\ job[d].made + 1 < MaxAttempts => new.state = "delayed"
<1> DEFINE d == run[s].delivery
<1>1. /\ run[s] # Idle /\ run' = [run EXCEPT ![s] = Idle]
      /\ UNCHANGED <<endpoint, request, row, accepted>>
  BY DEF CompleteJob, FailJob, Crash, receiver
<1>2. run[s] \in Runs /\ d \in Deliveries
  BY <1>1, RunsAreNotIdle DEF DInv, WTypes
<1>3. job[d] \in Jobs
  BY <1>2 DEF DInv, WTypes
<1>4. CASE job[d].owner # s
  BY <1>1, <1>2, <1>4 DEF CompleteJob, FailJob, Crash, Owns
<1>5. CASE job[d].owner = s
  <2>1. job[d].state = "active"
    BY <1>2, <1>5, WebhookAssumption DEF DInv, OwnersWork
  <2>2. CASE CompleteJob(s)
    <3>1. run[s].phase = "complete"
      BY <2>2 DEF CompleteJob
    <3>2. PICK new : new = [job[d] EXCEPT !.state = "completed", !.owner = NoSlot]
      OBVIOUS
    <3>3. job' = [job EXCEPT ![d] = new]
      BY <1>2, <1>3, <1>5, <2>2, <3>2 DEF CompleteJob, Owns, DInv, WTypes, Jobs
    <3>4. /\ new \in Jobs /\ new.owner = NoSlot /\ new.state = "completed"
          /\ new.made = job[d].made /\ new.stalls = job[d].stalls
      BY <1>3, <3>2 DEF Jobs
    <3> QED BY <1>1, <1>2, <1>5, <2>2, <3>1, <3>3, <3>4
  <2>3. CASE FailJob(s)
    <3>1. run[s].phase = "throw"
      BY <2>3 DEF FailJob
    <3>0. PICK state \in {"delayed", "failed"} :
            /\ state = IF job[d].made + 1 < MaxAttempts THEN "delayed" ELSE "failed"
            /\ job[d].made + 1 < MaxAttempts => state = "delayed"
      OBVIOUS
    <3>5. PICK made \in Nat : made = job[d].made + 1
      BY <1>3 DEF Jobs
    <3>2. PICK new : new = [job[d] EXCEPT !.state = state, !.owner = NoSlot, !.made = made]
      OBVIOUS
    <3>3. job' = [job EXCEPT ![d] = new]
      BY <1>2, <1>3, <1>5, <2>3, <3>0, <3>2, <3>5 DEF FailJob, Owns
    <3>4. /\ new \in Jobs /\ new.owner = NoSlot /\ new.state = state
          /\ new.made = made /\ new.stalls = job[d].stalls
      <4>1. PICK j \in Jobs : j = job[d]
        BY <1>3
      <4>2. new = [j EXCEPT !.state = state, !.owner = NoSlot, !.made = made]
        BY <3>2, <4>1
      <4> QED BY <4>1, <4>2 DEF Jobs
    <3> QED BY <1>1, <1>2, <1>5, <2>3, <3>0, <3>1, <3>3, <3>4, <3>5
  <2>4. CASE Crash(s)
    <3>1. PICK new : new = [job[d] EXCEPT !.owner = NoSlot]
      OBVIOUS
    <3>2. job' = [job EXCEPT ![d] = new]
      BY <1>2, <1>3, <1>5, <2>4, <3>1 DEF Crash, Owns
    <3>3. /\ new \in Jobs /\ new.owner = NoSlot /\ new.state = "active"
          /\ new.made = job[d].made /\ new.stalls = job[d].stalls
      BY <1>3, <2>1, <3>1 DEF Jobs
    <3> QED BY <1>1, <1>2, <1>5, <2>4, <3>2, <3>3
  <2> QED BY <2>2, <2>3, <2>4
<1> QED BY <1>4, <1>5

\* A job that is given back, and perhaps the attempt that ends with it.
LEMMA FreeKeepsRows ==
    ASSUME DInv, NEW d \in Deliveries, job[d].state # "none", NEW new, Free(d, new),
           run' \in [Slots -> Runs \cup {Idle}],
           \A s \in Slots : \/ run'[s] = run[s]
                            \/ run'[s] = Idle /\ run[s].delivery = d,
           endpoint' = endpoint, request' = request, row' = row, accepted' = accepted,
           unrecorded' \in [Deliveries -> Nat], faults' \in [Faults -> Nat]
    PROVE  DInv'
<1>1. /\ job' \in [Deliveries -> Jobs] /\ job'[d] = new
      /\ \A f \in Deliveries : f # d => job'[f] = job[f]
      /\ new.owner = NoSlot /\ new.state # "none"
  BY DEF Free, DInv, WTypes
<1>2. WTypes'
  BY <1>1 DEF DInv, WTypes
<1>3. OwnersWork'
  <2>1. \A f \in Deliveries, s \in Slots : job'[f].owner = s =>
           f # d /\ job[f].owner = s /\ run'[s] = run[s]
    BY <1>1, WebhookAssumption DEF DInv, OwnersWork, Working
  <2>2. \A s \in Slots : run'[s] # Idle => run'[s] = run[s] /\ run[s].delivery \in Deliveries
    BY RunsAreNotIdle DEF DInv, WTypes
  <2>3. \A f \in Deliveries : /\ job[f].state # "none" => job'[f].state # "none"
                              /\ job'[f].owner # NoSlot => f # d
    BY <1>1
  <2> QED BY <1>1, <2>1, <2>2, <2>3 DEF DInv, OwnersWork, Working
<1>4. RowsAndJobs' /\ DeletedEndpointsHaveNoRows'
  BY <1>1, RowsAndJobsKept DEF DInv
<1> QED BY <1>2, <1>3, <1>4 DEF DInv

\* Jobs that are taken, given back or given up.
LEMMA JobMovesKeepRows ==
    ASSUME DInv, JobMoves
    PROVE  DInv'
<1>1. ASSUME NEW d \in Deliveries, NEW s \in Slots, Take(s, d)
      PROVE  DInv'
  <2>1. /\ run[s] = Idle /\ job[d].state = "waiting" /\ job[d].owner = NoSlot
        /\ UNCHANGED <<endpoint, request, row, accepted, unrecorded, faults>>
    BY <1>1, JobIsTaken
  <2>2. PICK new \in Jobs : /\ job' = [job EXCEPT ![d] = new]
                            /\ new = [job[d] EXCEPT !.state = "active", !.owner = s]
    BY <1>1, JobIsTaken
  <2>3. PICK r \in Runs : /\ run' = [run EXCEPT ![s] = r]
                          /\ r = [delivery |-> d, phase |-> "find", attempt |-> 0]
    BY <1>1, JobIsTaken
  <2>4. new.state = "active" /\ new.owner = s /\ r.delivery = d
    <3>1. PICK j \in Jobs : j = job[d]
      BY DEF DInv, WTypes
    <3>2. new = [j EXCEPT !.state = "active", !.owner = s]
      BY <2>2, <3>1
    <3> QED BY <2>3, <3>1, <3>2 DEF Jobs
  <2>5. /\ job' \in [Deliveries -> Jobs] /\ job'[d] = new
        /\ \A f \in Deliveries : f # d => job'[f] = job[f]
        /\ run' \in [Slots -> Runs \cup {Idle}] /\ run'[s] = r
        /\ \A q \in Slots : q # s => run'[q] = run[q]
    BY <2>2, <2>3 DEF DInv, WTypes
  <2>6. WTypes'
    BY <2>1, <2>5 DEF DInv, WTypes
  <2>7. OwnersWork'
    BY <2>1, <2>4, <2>5, RunsAreNotIdle DEF DInv, OwnersWork, Working
  <2>8. RowsAndJobs' /\ DeletedEndpointsHaveNoRows'
    BY <2>1, <2>4, <2>5, RowsAndJobsKept DEF DInv
  <2> QED BY <2>6, <2>7, <2>8 DEF DInv
<1>2. ASSUME NEW d \in Deliveries, RecoverStalled(d)
      PROVE  DInv'
  <2>1. /\ job' = Stalled(d) /\ job[d].state # "none"
        /\ UNCHANGED <<endpoint, request, row, run, accepted, unrecorded, faults>>
    BY <1>2 DEF RecoverStalled, receiver
  <2>2. PICK new : Free(d, new)
    BY <2>1, StalledIsFree
  <2> QED BY FreeKeepsRows, <2>1, <2>2 DEF DInv, WTypes
<1>3. ASSUME NEW d \in Deliveries, DelayElapses(d)
      PROVE  DInv'
  <2>1. /\ job' = [job EXCEPT ![d] = [job[d] EXCEPT !.state = "waiting"]]
        /\ job[d].state = "delayed" /\ job[d].owner = NoSlot
        /\ UNCHANGED <<endpoint, request, row, run, accepted, unrecorded, faults>>
    BY <1>3 DEF DelayElapses, receiver, DInv, OwnersWork
  <2>2. PICK j \in Jobs : j = job[d]
    BY DEF DInv, WTypes
  <2>3. PICK new : new = [j EXCEPT !.state = "waiting"]
    OBVIOUS
  <2>4. Free(d, new)
    BY <2>1, <2>2, <2>3 DEF Free, Jobs
  <2> QED BY FreeKeepsRows, <2>1, <2>4 DEF DInv, WTypes
<1>4. ASSUME NEW s \in Slots, LockExpires(s)
      PROVE  DInv'
  <2> DEFINE d == run[s].delivery
  <2>1. /\ job' = Stalled(d) /\ run[s] # Idle
        /\ UNCHANGED <<endpoint, request, row, run, accepted>>
        /\ Fault("lock")
    BY <1>4 DEF LockExpires, receiver
  <2>2. d \in Deliveries /\ job[d].state # "none"
    BY <2>1, RunsAreNotIdle DEF DInv, WTypes, OwnersWork
  <2>3. PICK new : Free(d, new)
    BY <2>1, <2>2, StalledIsFree
  <2>4. unrecorded' \in [Deliveries -> Nat] /\ faults' \in [Faults -> Nat]
    BY <1>4, <2>1, <2>2, FaultCounts DEF LockExpires, DInv, WTypes, Faults
  <2> QED BY FreeKeepsRows, <2>1, <2>2, <2>3, <2>4 DEF DInv, WTypes
<1>5. ASSUME NEW s \in Slots, CompleteJob(s) \/ FailJob(s) \/ Crash(s)
      PROVE  DInv'
  <2>0. PICK d \in Deliveries :
          /\ d = run[s].delivery /\ run[s] # Idle
          /\ run' = [run EXCEPT ![s] = Idle]
          /\ UNCHANGED <<endpoint, request, row, accepted>>
          /\ \/ job[d].owner # s /\ job' = job
             \/ /\ job[d].owner = s
                /\ \E new \in Jobs : /\ new.owner = NoSlot /\ new.state # "none"
                                     /\ job' = [job EXCEPT ![d] = new]
    BY <1>5, EndFrees
  <2>1. /\ run' \in [Slots -> Runs \cup {Idle}] /\ run'[s] = Idle
        /\ \A r \in Slots : r # s => run'[r] = run[r]
    BY <2>0 DEF DInv, WTypes
  <2>2. unrecorded' \in [Deliveries -> Nat] /\ faults' \in [Faults -> Nat]
    BY <1>5, <2>0, FaultCounts DEF CompleteJob, FailJob, Crash, DInv, WTypes, Faults
  <2>3. job[d].state # "none"
    BY <2>0 DEF DInv, OwnersWork
  <2>4. CASE job[d].owner # s /\ job' = job
    <3>1. WTypes'
      BY <2>0, <2>1, <2>2, <2>4 DEF DInv, WTypes
    <3>2. OwnersWork'
      BY <2>0, <2>1, <2>4 DEF DInv, OwnersWork, Working
    <3>3. RowsAndJobs' /\ DeletedEndpointsHaveNoRows'
      BY <2>0, <2>4, RowsAndJobsKept DEF DInv
    <3> QED BY <3>1, <3>2, <3>3 DEF DInv
  <2>5. CASE job[d].owner = s /\ job' # job
    <3>1. PICK new : Free(d, new)
      BY <2>0, <2>5 DEF Free
    <3> QED BY FreeKeepsRows, <2>0, <2>1, <2>2, <2>3, <2>5, <3>1
  <2>6. CASE job[d].owner = s /\ job' = job
    <3>1. PICK new : Free(d, new)
      BY <2>0, <2>6 DEF Free
    <3> QED BY FreeKeepsRows, <2>0, <2>1, <2>2, <2>3, <2>6, <3>1
  <2> QED BY <2>0, <2>4, <2>5, <2>6
<1> QED BY <1>1, <1>2, <1>3, <1>4, <1>5 DEF JobMoves, QueueStep

\* A request goes on to a phase with the endpoints it has left.
LEMMA RequestGoesOn ==
    ASSUME WTypes, NEW v \in Events, NEW phase \in {"select", "insert", "enqueue", "done"},
           NEW targets \in SUBSET Endpoints,
           request' = [request EXCEPT ![v] = [phase |-> phase, targets |-> targets]]
    PROVE  /\ request' \in [Events -> [phase : {"select", "insert", "enqueue", "done"},
                                       targets : SUBSET Endpoints]]
           /\ request'[v].phase = phase /\ request'[v].targets = targets
           /\ \A w \in Events : w # v => request'[w] = request[w]
BY DEF WTypes

\* What a request does, in the four shapes it has.
Inserts(v) ==
    /\ request[v].phase = "insert"
    /\ \A e \in request[v].targets : endpoint[e] # "deleted"
    /\ request'[v].phase = "enqueue" /\ request'[v].targets = request[v].targets
    /\ \A d \in Deliveries :
         row'[d] = IF d[1] = v /\ d[2] \in request[v].targets
                   THEN [status |-> "pending", attempts |-> 0] ELSE row[d]
    /\ job' = job

Enqueues(v, e) ==
    /\ request[v].phase = "enqueue" /\ e \in request[v].targets
    /\ \/ request'[v].phase = "done" /\ request'[v].targets = {}
       \/ request'[v].phase = "enqueue"
    /\ request'[v].targets = request[v].targets \ {e}
    /\ row' = row
    /\ \/ job' = [job EXCEPT ![<<v, e>>].state = "waiting"]
       \/ job' = job /\ faults'["enqueue"] > 0

Ends(v) ==
    /\ request'[v].phase = "done" /\ row' = row /\ job' = job
    /\ request[v].phase = "enqueue" => faults'["enqueue"] > 0

Selects(v) ==
    /\ request[v].phase = "select" /\ request'[v].phase \in {"insert", "done"}
    /\ row' = row /\ job' = job

LEMMA RequestDoes ==
    ASSUME DInv, NEW v \in Events,
           \/ RequestStep(v) \/ RequestCrashes(v)
           \/ \E e \in Endpoints : EnqueueFails(v, e)
    PROVE  /\ UNCHANGED <<endpoint, run, accepted, unrecorded>>
           /\ request' \in [Events -> [phase : {"select", "insert", "enqueue", "done"},
                                       targets : SUBSET Endpoints]]
           /\ \A w \in Events : w # v => request'[w] = request[w]
           /\ faults' \in [Faults -> Nat]
           /\ \A k \in Faults : faults[k] > 0 => faults'[k] > 0
           /\ \/ Selects(v) \/ Inserts(v) \/ Ends(v)
              \/ \E e \in Endpoints : Enqueues(v, e)
<1>1. request[v] \in [phase : {"select", "insert", "enqueue", "done"}, targets : SUBSET Endpoints]
  BY DEF DInv, WTypes
<1>2. CASE SelectEndpoints(v)
  <2>1. PICK phase \in {"insert", "done"}, targets \in SUBSET Endpoints :
          request' = [request EXCEPT ![v] = [phase |-> phase, targets |-> targets]]
    BY <1>2 DEF SelectEndpoints
  <2> QED BY <1>2, <2>1, RequestGoesOn DEF DInv, WTypes, SelectEndpoints, Selects, receiver
<1>3. CASE InsertDeliveries(v)
  <2>1. /\ request' = [request EXCEPT ![v] = [request[v] EXCEPT !.phase = "enqueue"]]
        /\ request[v].targets \in SUBSET Endpoints
    BY <1>1, <1>3 DEF InsertDeliveries, DInv, WTypes
  <2>2. [request[v] EXCEPT !.phase = "enqueue"]
          = [phase |-> "enqueue", targets |-> request[v].targets]
    BY <1>1
  <2>3. /\ request' \in [Events -> [phase : {"select", "insert", "enqueue", "done"},
                                    targets : SUBSET Endpoints]]
        /\ request'[v].phase = "enqueue" /\ request'[v].targets = request[v].targets
        /\ \A w \in Events : w # v => request'[w] = request[w]
    BY <2>1, <2>2, RequestGoesOn DEF DInv
  <2>4. Inserts(v)
    BY <1>3, <2>3 DEF InsertDeliveries, Inserts
  <2> QED BY <1>3, <2>3, <2>4 DEF InsertDeliveries, receiver, DInv, WTypes
<1>4. CASE InsertFails(v)
  <2>1. /\ request' = [request EXCEPT ![v] = [phase |-> "done", targets |-> {}]]
        /\ request[v].phase = "insert"
        /\ UNCHANGED <<endpoint, run, accepted, unrecorded, row, job, faults>>
    BY <1>4 DEF InsertFails, receiver
  <2> QED BY <2>1, RequestGoesOn DEF DInv, WTypes, Ends
<1>5. CASE RequestCrashes(v)
  <2>1. /\ request' = [request EXCEPT ![v] = [phase |-> "done", targets |-> {}]]
        /\ Fault("enqueue")
        /\ UNCHANGED <<endpoint, run, accepted, unrecorded, row, job>>
    BY <1>5 DEF RequestCrashes, receiver
  <2>2. /\ request' \in [Events -> [phase : {"select", "insert", "enqueue", "done"},
                                    targets : SUBSET Endpoints]]
        /\ request'[v].phase = "done"
        /\ \A w \in Events : w # v => request'[w] = request[w]
    <3>0. PICK targets \in SUBSET Endpoints : targets = {}
      OBVIOUS
    <3>2. PICK phase \in {"select", "insert", "enqueue", "done"} : phase = "done"
      OBVIOUS
    <3>1. request' = [request EXCEPT ![v] = [phase |-> phase, targets |-> targets]]
      BY <2>1, <3>0, <3>2
    <3> QED BY <3>1, <3>2, RequestGoesOn DEF DInv
  <2>3. /\ faults' \in [Faults -> Nat] /\ faults'["enqueue"] > 0
        /\ \A k \in Faults : faults[k] > 0 => faults'[k] > 0
    BY <2>1, FaultCounts DEF DInv, Faults
  <2> QED BY <2>1, <2>2, <2>3 DEF Ends
<1>6. ASSUME NEW e \in Endpoints, EnqueueJob(v, e) \/ EnqueueFails(v, e)
      PROVE  /\ UNCHANGED <<endpoint, run, accepted, unrecorded>>
             /\ request' \in [Events -> [phase : {"select", "insert", "enqueue", "done"},
                                         targets : SUBSET Endpoints]]
             /\ \A w \in Events : w # v => request'[w] = request[w]
             /\ faults' \in [Faults -> Nat]
             /\ \A k \in Faults : faults[k] > 0 => faults'[k] > 0
             /\ Enqueues(v, e)
  <2>0. PICK targets \in SUBSET Endpoints : targets = request[v].targets \ {e}
    BY <1>1
  <2>5. PICK phase \in {"enqueue", "done"} :
          phase = IF targets = {} THEN "done" ELSE "enqueue"
    OBVIOUS
  <2>1. /\ request' = [request EXCEPT ![v] = [phase |-> phase, targets |-> targets]]
        /\ targets = request[v].targets \ {e}
        /\ phase = "done" => targets = {}
    BY <1>6, <2>0, <2>5 DEF EnqueueJob, EnqueueFails, Unqueued
  <2>2. /\ request[v].phase = "enqueue" /\ e \in request[v].targets
        /\ UNCHANGED <<endpoint, run, accepted, unrecorded, row>>
        /\ \/ faults' = faults /\ job' = [job EXCEPT ![<<v, e>>].state = "waiting"]
           \/ Fault("enqueue") /\ job' = job
    BY <1>6 DEF EnqueueJob, EnqueueFails, receiver
  <2>3. /\ request' \in [Events -> [phase : {"select", "insert", "enqueue", "done"},
                                    targets : SUBSET Endpoints]]
        /\ request'[v].phase \in {"enqueue", "done"}
        /\ request'[v].targets = request[v].targets \ {e}
        /\ request'[v].phase = "done" => request'[v].targets = {}
        /\ \A w \in Events : w # v => request'[w] = request[w]
    <3>1. PICK q : q = [phase |-> phase, targets |-> targets]
      OBVIOUS
    <3>2. /\ q \in [phase : {"select", "insert", "enqueue", "done"}, targets : SUBSET Endpoints]
          /\ q.phase = phase /\ q.targets = targets
      BY <3>1
    <3>3. request' = [request EXCEPT ![v] = q]
      BY <2>1, <3>1
    <3> QED BY <2>1, <3>2, <3>3 DEF DInv, WTypes
  <2>4. /\ faults' \in [Faults -> Nat]
        /\ \A k \in Faults : faults[k] > 0 => faults'[k] > 0
        /\ \/ job' = [job EXCEPT ![<<v, e>>].state = "waiting"]
           \/ job' = job /\ faults'["enqueue"] > 0
    BY <2>2, FaultCounts DEF DInv, WTypes, Faults
  <2> QED BY <2>2, <2>3, <2>4 DEF Enqueues
<1> QED BY <1>2, <1>3, <1>4, <1>5, <1>6 DEF RequestStep

\* A request inserts the rows of its targets once, and enqueues each of them once.
LEMMA RequestKeepsRows ==
    ASSUME DInv, NEW v \in Events,
           \/ RequestStep(v) \/ RequestCrashes(v)
           \/ \E e \in Endpoints : EnqueueFails(v, e)
    PROVE  DInv'
<1>1. /\ endpoint' = endpoint /\ run' = run /\ accepted' = accepted
      /\ unrecorded' = unrecorded
      /\ request' \in [Events -> [phase : {"select", "insert", "enqueue", "done"},
                                  targets : SUBSET Endpoints]]
      /\ \A w \in Events : w # v => request'[w] = request[w]
      /\ faults' \in [Faults -> Nat]
      /\ \/ Selects(v) \/ Inserts(v) \/ Ends(v)
         \/ \E e \in Endpoints : Enqueues(v, e)
  BY RequestDoes
<1>2. CASE Selects(v)
  <2>1. WTypes' /\ OwnersWork' /\ DeletedEndpointsHaveNoRows'
    BY <1>1, <1>2
       DEF Selects, DInv, WTypes, OwnersWork, Working, DeletedEndpointsHaveNoRows
  <2>2. RowsAndJobs'
    BY <1>1, <1>2, DeliveryIsPair DEF Selects, DInv, RowsAndJobs, Fresh, Unsent
  <2> QED BY <2>1, <2>2 DEF DInv
<1>3. CASE Ends(v)
  <2>1. WTypes' /\ OwnersWork' /\ DeletedEndpointsHaveNoRows'
    BY <1>1, <1>3
       DEF Ends, DInv, WTypes, OwnersWork, Working, DeletedEndpointsHaveNoRows
  <2>2. RowsAndJobs'
    BY <1>1, <1>3, DeliveryIsPair DEF Ends, DInv, RowsAndJobs, Fresh, Unsent
  <2> QED BY <2>1, <2>2 DEF DInv
<1>4. CASE Inserts(v)
  <2>1. [status |-> "pending", attempts |-> 0] \in Rows
    BY DEF Rows
  <2>2. row' \in [Deliveries -> Rows]
    <3>1. \A d \in Deliveries : row'[d] \in Rows
      BY <1>4, <2>1 DEF Inserts, DInv, WTypes
    <3>2. row' = [d \in Deliveries |-> row'[d]]
      <4>1. InsertDeliveries(v) \/ row' = row
        BY DEF RequestStep, RequestCrashes, EnqueueFails, SelectEndpoints, InsertFails, EnqueueJob
      <4> QED BY <4>1 DEF InsertDeliveries, DInv, WTypes
    <3> QED BY <3>1, <3>2
  <2>3. WTypes'
    BY <1>1, <1>4, <2>2 DEF Inserts, DInv, WTypes
  <2>4. OwnersWork'
    BY <1>1, <1>4 DEF Inserts, DInv, OwnersWork, Working
  <2>5. DeletedEndpointsHaveNoRows'
    BY <1>1, <1>4 DEF Inserts, DInv, DeletedEndpointsHaveNoRows
  <2>6. ASSUME NEW d \in Deliveries
        PROVE  /\ Fresh(d)'
               /\ Unsent(d)' => job'[d] = NoJob
               /\ (job'[d].state # "none" \/ Unsent(d)') /\ row'[d].status = "none" =>
                    endpoint'[d[2]] = "deleted"
    <3>1. d[1] \in Events /\ d[2] \in Endpoints
      BY DeliveryIsPair
    <3>2. CASE d[1] = v
      <4>1. job[d] = NoJob /\ job'[d] = NoJob /\ NoJob.state = "none"
        BY <1>4, <3>2 DEF Inserts, DInv, RowsAndJobs, Fresh, NoJob
      <4>2. Unsent(d)' => d[2] \in request[v].targets
        BY <1>4, <3>2 DEF Inserts, Unsent
      <4>3. Unsent(d)' => row'[d].status = "pending"
        BY <1>4, <3>2, <4>2 DEF Inserts
      <4> QED BY <1>4, <3>2, <4>1, <4>3 DEF Inserts, Fresh
    <3>3. CASE d[1] # v
      <4>1. row'[d] = row[d] /\ job'[d] = job[d] /\ request'[d[1]] = request[d[1]]
        BY <1>1, <1>4, <3>1, <3>3 DEF Inserts
      <4> QED BY <1>1, <4>1 DEF DInv, RowsAndJobs, Fresh, Unsent
    <3> QED BY <3>2, <3>3
  <2> QED BY <2>3, <2>4, <2>5, <2>6 DEF DInv, RowsAndJobs
<1>5. ASSUME NEW e \in Endpoints, Enqueues(v, e)
      PROVE  DInv'
  <2> DEFINE d0 == <<v, e>>
  <2>1. d0 \in Deliveries /\ d0[1] = v /\ d0[2] = e
    BY DeliveryIsPair
  <2>2. Unsent(d0) /\ job[d0] = NoJob
    BY <1>5, <2>1 DEF Enqueues, Unsent, DInv, RowsAndJobs
  <2>3. /\ job' \in [Deliveries -> Jobs]
        /\ job'[d0].owner = NoSlot
        /\ \A d \in Deliveries : d # d0 => job'[d] = job[d]
    <3>1. CASE job' = job
      BY <2>1, <2>2, <3>1 DEF DInv, WTypes, NoJob
    <3>2. CASE job' = [job EXCEPT ![d0] = [NoJob EXCEPT !.state = "waiting"]]
      <4>1. [NoJob EXCEPT !.state = "waiting"] \in Jobs
        BY DEF NoJob, Jobs
      <4>2. [NoJob EXCEPT !.state = "waiting"].owner = NoSlot
        BY DEF NoJob
      <4> QED BY <2>1, <3>2, <4>1, <4>2 DEF DInv, WTypes
    <3>3. job' = [job EXCEPT ![d0].state = "waiting"] =>
            job' = [job EXCEPT ![d0] = [NoJob EXCEPT !.state = "waiting"]]
      BY <2>1, <2>2 DEF DInv, WTypes
    <3> QED BY <1>5, <3>1, <3>2, <3>3 DEF Enqueues
  <2> HIDE DEF d0
  <2>4. WTypes'
    BY <1>1, <1>5, <2>3 DEF Enqueues, DInv, WTypes
  <2>5. OwnersWork'
    <3>1. \A s \in Slots : run[s] # Idle => run[s].delivery \in Deliveries /\ run[s].delivery # d0
      BY <2>2, RunsAreNotIdle DEF DInv, WTypes, OwnersWork, NoJob
    <3> QED BY <1>1, <2>1, <2>2, <2>3, <3>1, WebhookAssumption DEF DInv, OwnersWork, Working
  <2>6. DeletedEndpointsHaveNoRows'
    BY <1>1, <1>5 DEF Enqueues, DInv, DeletedEndpointsHaveNoRows
  <2>7. ASSUME NEW d \in Deliveries
        PROVE  /\ Fresh(d)'
               /\ Unsent(d)' => job'[d] = NoJob
               /\ (job'[d].state # "none" \/ Unsent(d)') /\ row'[d].status = "none" =>
                    endpoint'[d[2]] = "deleted"
    <3>1. d[1] \in Events /\ d[2] \in Endpoints /\ d = <<d[1], d[2]>>
      BY DeliveryIsPair
    <3>2. row' = row
      BY <1>5 DEF Enqueues
    <3>3. CASE d = d0
      <4>1. ~Unsent(d)'
        BY <1>5, <2>1, <3>3 DEF Enqueues, Unsent
      <4>2. request'[d[1]].phase \in {"enqueue", "done"}
        BY <1>5, <2>1, <3>3 DEF Enqueues
      <4> QED BY <1>1, <2>2, <3>2, <3>3, <4>1, <4>2 DEF Fresh, DInv, RowsAndJobs
    <3>4. CASE d # d0 /\ d[1] = v
      <4>1. job'[d] = job[d] /\ request[d[1]].phase = "enqueue"
        BY <1>5, <2>3, <3>4 DEF Enqueues
      <4>2. Unsent(d)' => Unsent(d)
        BY <1>5, <3>4 DEF Enqueues, Unsent
      <4>3. Fresh(d)'
        BY <1>5, <3>4 DEF Enqueues, Fresh
      <4> QED BY <1>1, <3>2, <4>1, <4>2, <4>3 DEF DInv, RowsAndJobs
    <3>5. CASE d # d0 /\ d[1] # v
      <4>1. job'[d] = job[d] /\ request'[d[1]] = request[d[1]]
        BY <1>1, <2>3, <3>1, <3>5
      <4> QED BY <1>1, <3>2, <4>1 DEF DInv, RowsAndJobs, Fresh, Unsent
    <3> QED BY <3>3, <3>4, <3>5
  <2> QED BY <2>4, <2>5, <2>6, <2>7 DEF DInv, RowsAndJobs
<1> QED BY <1>1, <1>2, <1>3, <1>4, <1>5

\* What happens to endpoints.
EndpointMoves ==
    \/ \E e \in Endpoints : CreateEndpoint(e) \/ DeleteEndpoint(e) \/ Deactivate(e)
    \/ ChangeSecret

\* An endpoint takes its rows along and stays deleted; nothing else moves but the count of
\* the secrets that were changed.
LEMMA EndpointDoes ==
    ASSUME WTypes, EndpointMoves
    PROVE  /\ request' = request /\ job' = job /\ run' = run /\ accepted' = accepted
           /\ unrecorded' = unrecorded
           /\ faults' \in [Faults -> Nat]
           /\ \A k \in Faults : faults[k] > 0 => faults'[k] > 0
           /\ endpoint' \in [Endpoints -> {"none", "active", "sealed", "inactive", "deleted"}]
           /\ \A f \in Endpoints :
                /\ endpoint[f] = "deleted" => endpoint'[f] = "deleted"
                /\ endpoint'[f] = "sealed" => endpoint[f] = "sealed" \/ faults'["secret"] > 0
           /\ row' \in [Deliveries -> Rows]
           /\ \A d \in Deliveries :
                \/ row'[d] = row[d] /\ (endpoint'[d[2]] = "deleted" => endpoint[d[2]] = "deleted")
                \/ row'[d].status = "none" /\ endpoint'[d[2]] = "deleted"
<1>1. ASSUME NEW e \in Endpoints, DeleteEndpoint(e)
      PROVE  /\ row' \in [Deliveries -> Rows]
             /\ \A d \in Deliveries :
                \/ row'[d] = row[d] /\ (endpoint'[d[2]] = "deleted" => endpoint[d[2]] = "deleted")
                \/ row'[d].status = "none" /\ endpoint'[d[2]] = "deleted"
  <2>1. NoRow \in Rows /\ NoRow.status = "none"
    BY DEF NoRow, Rows
  <2>2. /\ row' = [d \in Deliveries |-> IF d[2] = e THEN NoRow ELSE row[d]]
        /\ endpoint' = [endpoint EXCEPT ![e] = "deleted"]
    BY <1>1 DEF DeleteEndpoint
  <2> QED BY <2>1, <2>2, DeliveryIsPair DEF WTypes
<1>2. ASSUME NEW e \in Endpoints, CreateEndpoint(e) \/ Deactivate(e)
      PROVE  row' = row /\ \A f \in Endpoints : endpoint'[f] = "deleted" => endpoint[f] = "deleted"
  BY <1>2 DEF CreateEndpoint, Deactivate, WTypes
<1>3. CASE ChangeSecret
  <2>1. /\ row' = row /\ Fault("secret")
        /\ request' = request /\ job' = job /\ run' = run /\ accepted' = accepted
        /\ unrecorded' = unrecorded
        /\ endpoint' = [e \in Endpoints |->
                          IF endpoint[e] = "active" THEN "sealed" ELSE endpoint[e]]
    BY <1>3 DEF ChangeSecret, receiver
  <2>2. /\ faults' \in [Faults -> Nat] /\ faults'["secret"] > 0
        /\ \A k \in Faults : faults[k] > 0 => faults'[k] > 0
    BY <2>1, FaultCounts DEF Faults
  <2>3. /\ endpoint' \in [Endpoints -> {"none", "active", "sealed", "inactive", "deleted"}]
        /\ \A f \in Endpoints : endpoint[f] = "deleted" <=> endpoint'[f] = "deleted"
    BY <2>1 DEF WTypes
  <2> QED BY <2>1, <2>2, <2>3, DeliveryIsPair DEF WTypes
<1>4. ASSUME NEW e \in Endpoints, CreateEndpoint(e) \/ DeleteEndpoint(e) \/ Deactivate(e)
      PROVE  /\ request' = request /\ job' = job /\ run' = run /\ accepted' = accepted
             /\ unrecorded' = unrecorded /\ faults' = faults
             /\ endpoint' \in [Endpoints -> {"none", "active", "sealed", "inactive", "deleted"}]
             /\ \A f \in Endpoints :
                  /\ endpoint[f] = "deleted" => endpoint'[f] = "deleted"
                  /\ endpoint'[f] = "sealed" => endpoint[f] = "sealed"
  BY <1>4 DEF CreateEndpoint, DeleteEndpoint, Deactivate, Active, WTypes, receiver
<1> QED BY <1>1, <1>2, <1>3, <1>4, DeliveryIsPair DEF EndpointMoves, WTypes

\* A deleted endpoint takes its rows along and stays deleted.
LEMMA EndpointKeepsRows ==
    ASSUME DInv, EndpointMoves
    PROVE  DInv'
<1>1. /\ request' = request /\ job' = job /\ run' = run /\ accepted' = accepted
      /\ unrecorded' = unrecorded /\ faults' \in [Faults -> Nat]
      /\ endpoint' \in [Endpoints -> {"none", "active", "sealed", "inactive", "deleted"}]
      /\ \A f \in Endpoints : endpoint[f] = "deleted" => endpoint'[f] = "deleted"
      /\ row' \in [Deliveries -> Rows]
      /\ \A d \in Deliveries :
           \/ row'[d] = row[d] /\ (endpoint'[d[2]] = "deleted" => endpoint[d[2]] = "deleted")
           \/ row'[d].status = "none" /\ endpoint'[d[2]] = "deleted"
  BY EndpointDoes DEF DInv
<1>2. WTypes' /\ OwnersWork' /\ DeletedEndpointsHaveNoRows'
  BY <1>1, DeliveryIsPair DEF DInv, WTypes, OwnersWork, Working, DeletedEndpointsHaveNoRows
<1>3. RowsAndJobs'
  BY <1>1, DeliveryIsPair DEF DInv, RowsAndJobs, Fresh, Unsent
<1> QED BY <1>2, <1>3 DEF DInv

\* At the start there is no row, no job and no attempt.
LEMMA DInit == Init => DInv
<1> SUFFICES ASSUME Init PROVE DInv
  OBVIOUS
<1>1. /\ NoRow \in Rows /\ NoRow.status = "none"
      /\ NoJob \in Jobs /\ NoJob.state = "none" /\ NoJob.owner = NoSlot
  BY DEF NoRow, NoJob, Rows, Jobs
<1>2. WTypes
  <2>1. request \in [Events -> [phase : {"select", "insert", "enqueue", "done"},
                                targets : SUBSET Endpoints]]
    BY DEF Init
  <2> QED BY <1>1, <2>1 DEF Init, WTypes
<1>3. OwnersWork
  BY <1>1, WebhookAssumption DEF Init, OwnersWork
<1>4. RowsAndJobs /\ DeletedEndpointsHaveNoRows
  BY <1>1, DeliveryIsPair DEF Init, RowsAndJobs, Fresh, Unsent, DeletedEndpointsHaveNoRows
<1> QED BY <1>2, <1>3, <1>4 DEF DInv

\* Every step, by who makes it.
LEMMA StepIsOneOf ==
    ASSUME Next
    PROVE  \/ \E v \in Events : \/ RequestStep(v) \/ RequestCrashes(v)
                                \/ \E e \in Endpoints : EnqueueFails(v, e)
           \/ EndpointMoves
           \/ JobMoves
           \/ \E s \in Slots : Processes(s)
<1>1. CASE \E s \in Slots : RunStep(s)
  BY <1>1 DEF RunStep, JobMoves, Processes
<1>2. CASE Fails
  BY <1>2 DEF Fails, JobMoves, Processes, EndpointMoves
<1> QED BY <1>1, <1>2 DEF Next, JobMoves, EndpointMoves

\* Every step keeps what the rows, jobs and attempts have in common.
LEMMA DStep == DInv /\ [Next]_vars => DInv'
<1> SUFFICES ASSUME DInv, [Next]_vars PROVE DInv'
  OBVIOUS
<1>1. CASE UNCHANGED vars
  BY <1>1 DEF vars, receiver, DInv, WTypes, OwnersWork, Working, RowsAndJobs, Fresh, Unsent,
     DeletedEndpointsHaveNoRows
<1>2. CASE Next
  BY <1>2, StepIsOneOf, RequestKeepsRows, EndpointKeepsRows, JobMovesKeepRows,
     ProcessingKeepsRows
<1> QED BY <1>1, <1>2

-----------------------------------------------------------------------------
(* What a receiver may still accept.                                       *)

\* No attempt after this one sends anything.
Settled(d) == row[d].status = "delivered" \/ endpoint[d[2]] = "deleted"

\* An attempt in one of these phases may have a request before it, or make the row one to
\* be attempted again.
Unfinished == {"find", "inactive", "post", "failure"}

\* Attempts that go on although the queue has given their job away.
Late(d) == {s \in Slots : Working(s, d) /\ job[d].owner # s /\ run[s].phase \in Unfinished}

\* Whether the attempt the queue knows of, or the next one, may be accepted.
OwedIn(phase, settled) ==
    IF phase \in {"inactive", "post", "failure"} THEN 1
    ELSE IF phase = "success" \/ settled THEN 0 ELSE 1

OwnerPhase(d) == IF job[d].owner \in Slots THEN run[job[d].owner].phase ELSE "none"

Owed(d) == OwedIn(OwnerPhase(d), Settled(d))

Accounted(d) == accepted[d] + Cardinality(Late(d)) + Owed(d) <= 1 + unrecorded[d]

AInv == DInv /\ \A d \in Deliveries : Accounted(d)

One(b) == IF b THEN 1 ELSE 0

\* Two sets that differ in one element at most.
LEMMA CardinalityMoves ==
    ASSUME NEW A, NEW B, NEW s, IsFiniteSet(A), IsFiniteSet(B),
           \A r : r # s => (r \in A <=> r \in B)
    PROVE  Cardinality(B) + One(s \in A) = Cardinality(A) + One(s \in B)
<1>1. CASE s \in A <=> s \in B
  <2>1. A = B
    BY <1>1
  <2> QED BY <1>1, <2>1
<1>2. CASE s \in A /\ s \notin B
  <2>1. B = A \ {s}
    BY <1>2
  <2> QED BY <1>2, <2>1, FS_RemoveElement, FS_CardinalityType DEF One
<1>3. CASE s \notin A /\ s \in B
  <2>1. A = B \ {s}
    BY <1>3
  <2> QED BY <1>3, <2>1, FS_RemoveElement, FS_CardinalityType DEF One
<1> QED BY <1>1, <1>2, <1>3

\* There are finitely many attempts, before and after a step.
LEMMA LateIsFinite ==
    \A d : /\ IsFiniteSet(Late(d)) /\ Cardinality(Late(d)) \in Nat
           /\ IsFiniteSet(Late(d)') /\ Cardinality(Late(d)') \in Nat
<1> SUFFICES ASSUME NEW d
             PROVE  /\ IsFiniteSet(Late(d)) /\ Cardinality(Late(d)) \in Nat
                    /\ IsFiniteSet(Late(d)') /\ Cardinality(Late(d)') \in Nat
  OBVIOUS
<1>1. Late(d) \subseteq Slots /\ Late(d)' \subseteq Slots
  BY DEF Late
<1> QED BY <1>1, FS_Subset, FS_CardinalityType, WebhookAssumption

\* At most one request is owed.
LEMMA OwedIsBounded == \A d : Owed(d) \in {0, 1} /\ Owed(d)' \in {0, 1}
BY DEF Owed, OwedIn

\* An account is kept when one attempt pays for what it sends and for what it leaves owed.
LEMMA AccountMoves ==
    ASSUME WTypes, WTypes', NEW d \in Deliveries, NEW s \in Slots, Accounted(d),
           \A r \in Slots : r # s => /\ run'[r] = run[r]
                                     /\ job'[d].owner = r <=> job[d].owner = r,
           accepted'[d] + One(s \in Late(d)') + Owed(d)' + unrecorded[d]
             <= accepted[d] + One(s \in Late(d)) + Owed(d) + unrecorded'[d]
    PROVE  Accounted(d)'
<1>1. \A r : r # s => (r \in Late(d) <=> r \in Late(d)')
  BY DEF Late, Working
<1>2. Cardinality(Late(d)') + One(s \in Late(d)) = Cardinality(Late(d)) + One(s \in Late(d)')
  BY <1>1, LateIsFinite, CardinalityMoves
<1>3. /\ accepted[d] \in Nat /\ unrecorded[d] \in Nat
      /\ accepted'[d] \in Nat /\ unrecorded'[d] \in Nat
  BY DEF WTypes
<1> QED BY <1>2, <1>3, LateIsFinite, OwedIsBounded DEF Accounted, One

\* An account is kept when no attempt of its delivery, and no owner, changes.
LEMMA AccountKept ==
    ASSUME DInv, NEW d \in Deliveries, Accounted(d),
           accepted'[d] = accepted[d], unrecorded'[d] = unrecorded[d],
           job'[d].owner = job[d].owner, Settled(d) => Settled(d)',
           \A r \in Slots : run'[r] = run[r] \/ (~Working(r, d) /\ ~Working(r, d)')
    PROVE  Accounted(d)'
<1>1. Late(d)' = Late(d)
  BY DEF Late, Working
<1>2. OwnerPhase(d)' = OwnerPhase(d)
  BY DEF OwnerPhase, DInv, OwnersWork
<1>3. Owed(d)' <= Owed(d)
  BY <1>2 DEF Owed, OwedIn
<1>4. accepted[d] \in Nat /\ unrecorded[d] \in Nat
  BY DEF DInv, WTypes
<1> QED BY <1>1, <1>3, <1>4, LateIsFinite, OwedIsBounded DEF Accounted

\* A step of an attempt pays for what it sends, be the attempt late or not: a request is
\* accepted by a step that owes one, a step that owes one more than before is counted as
\* unrecorded, and only a failed attempt makes a delivered row one to be attempted again.
LEMMA ProcessorPays ==
    ASSUME DInv, NEW s \in Slots, NEW d \in Deliveries, run[s].delivery = d, Processes(s)
    PROVE  /\ accepted'[d] + One(run'[s].phase \in Unfinished)
                + One(Settled(d) /\ ~Settled(d)') + unrecorded[d]
                <= accepted[d] + One(run[s].phase \in Unfinished) + unrecorded'[d]
           /\ accepted'[d] + OwedIn(run'[s].phase, Settled(d)') + unrecorded[d]
                <= accepted[d] + OwedIn(run[s].phase, Settled(d)) + unrecorded'[d]
<1>1. /\ run[s] # Idle /\ run[s] \in Runs /\ endpoint' = endpoint /\ row[d] \in Rows
      /\ accepted[d] \in Nat /\ unrecorded[d] \in Nat /\ WTypes'
  BY ProcessorStep DEF DInv, WTypes
<1>2. row[d].status = "none" => endpoint[d[2]] = "deleted"
  BY <1>1 DEF DInv, OwnersWork, RowsAndJobs
<1>3. endpoint[d[2]] = "deleted" => row[d].status = "none"
  BY DEF DInv, DeletedEndpointsHaveNoRows
<1>4. CASE Find(s)
  <2>1. PICK phase \in {"complete", "inactive", "throw", "post"} :
          /\ row[d].status \in {"none", "delivered"} <=> phase = "complete"
          /\ run' = [run EXCEPT ![s] = [run[s] EXCEPT !.phase = phase,
                                                      !.attempt = row[d].attempts + 1]]
    BY <1>4, FindDoes
  <2>2. PICK r \in Runs : r = run[s]
    BY <1>1
  <2>3. [r EXCEPT !.phase = phase, !.attempt = row[d].attempts + 1].phase = phase
    BY <2>2 DEF Runs
  <2>4. run'[s].phase = phase
    BY <2>1, <2>2, <2>3 DEF DInv, WTypes
  <2>5. row' = row /\ accepted' = accepted /\ unrecorded' = unrecorded /\ run[s].phase = "find"
    BY <1>4, FindDoes DEF At, receiver
  <2>6. Settled(d)' <=> Settled(d)
    BY <1>1, <2>5 DEF Settled
  <2>7. Settled(d) => phase = "complete"
    BY <1>3, <2>1 DEF Settled
  <2> QED BY <1>1, <2>1, <2>4, <2>5, <2>6, <2>7 DEF One, OwedIn, Unfinished
<1>5. CASE QueryFails(s)
  <2>1. /\ accepted' = accepted /\ unrecorded' = unrecorded /\ Go(s, "throw")
        /\ \/ run[s].phase \in {"inactive", "failure"}
           \/ row' = row /\ run[s].phase = "find"
    BY <1>5 DEF QueryFails, At, receiver
  <2>2. run'[s].phase = "throw"
    BY <1>1, <2>1, GoesOn DEF DInv, Phases
  <2>3. run[s].phase = "find" => (Settled(d)' <=> Settled(d))
    BY <1>1, <2>1 DEF Settled
  <2> QED BY <1>1, <2>1, <2>2, <2>3 DEF One, OwedIn, Unfinished
<1>6. CASE PostAccepted(s) \/ PostRejected(s) \/ PostAnswerLost(s)
  <2>1. PICK phase \in {"success", "failure"} :
          /\ row' = row /\ run[s].phase = "post" /\ Go(s, phase)
          /\ \/ accepted' = accepted /\ unrecorded' = unrecorded
             \/ /\ accepted' = [accepted EXCEPT ![d] = @ + 1]
                /\ unrecorded' = unrecorded /\ phase = "success"
             \/ /\ accepted' = [accepted EXCEPT ![d] = @ + 1]
                /\ unrecorded' = [unrecorded EXCEPT ![d] = @ + 1]
    BY <1>6 DEF PostAccepted, PostRejected, PostAnswerLost, At
  <2>2. run'[s].phase = phase
    BY <1>1, <2>1, GoesOn DEF DInv, Phases
  <2>3. Settled(d)' <=> Settled(d)
    BY <1>1, <2>1 DEF Settled
  <2>4. \/ accepted'[d] = accepted[d] /\ unrecorded'[d] = unrecorded[d]
        \/ /\ accepted'[d] = accepted[d] + 1
           /\ unrecorded'[d] = unrecorded[d] /\ phase = "success"
        \/ /\ accepted'[d] = accepted[d] + 1
           /\ unrecorded'[d] = unrecorded[d] + 1
    BY <2>1 DEF DInv, WTypes
  <2> QED BY <1>1, <2>1, <2>2, <2>3, <2>4 DEF One, OwedIn, Unfinished
<1>7. CASE MarkSuccess(s)
  <2>1. /\ accepted' = accepted /\ unrecorded' = unrecorded /\ run[s].phase = "success"
        /\ Go(s, "complete") /\ UpdateRow(s, "delivered")
    BY <1>7 DEF MarkSuccess, At, receiver
  <2>2. run'[s].phase = "complete"
    BY <1>1, <2>1, GoesOn DEF DInv, Phases
  <2>3. row[d].status # "none" =>
          row'[d] = [status |-> "delivered", attempts |-> run[s].attempt]
    BY <1>1, <2>1, UpdatesRow DEF DInv
  <2>4. Settled(d)'
    BY <1>1, <1>2, <2>3 DEF Settled
  <2> QED BY <1>1, <2>1, <2>2, <2>4 DEF One, OwedIn, Unfinished
<1>8. CASE MarkSuccessFails(s)
  <2>1. /\ row' = row \/ UpdateRow(s, "delivered")
        /\ accepted' = accepted /\ run[s].phase = "success"
        /\ unrecorded' = [unrecorded EXCEPT ![d] = @ + 1] /\ Go(s, "failure")
    BY <1>8 DEF MarkSuccessFails, At, receiver
  <2>2. run'[s].phase = "failure"
    BY <1>1, <2>1, GoesOn DEF DInv, Phases
  <2>3. Settled(d) => Settled(d)'
    <3>1. UpdateRow(s, "delivered") /\ row[d].status # "none" =>
            row'[d] = [status |-> "delivered", attempts |-> run[s].attempt]
      BY <1>1, UpdatesRow DEF DInv
    <3> QED BY <1>1, <1>2, <2>1, <3>1 DEF Settled
  <2>4. unrecorded'[d] = unrecorded[d] + 1
    BY <2>1 DEF DInv, WTypes
  <2> QED BY <1>1, <2>1, <2>2, <2>3, <2>4 DEF One, OwedIn, Unfinished
<1>9. CASE MarkFailure(s) \/ MarkInactive(s)
  <2>1. PICK phase \in {"throw", "complete"} :
          /\ accepted' = accepted /\ unrecorded' = unrecorded
          /\ run[s].phase \in {"inactive", "failure"} /\ Go(s, phase)
    BY <1>9 DEF MarkFailure, MarkInactive, At, receiver
  <2>2. run'[s].phase = phase
    BY <1>1, <2>1, GoesOn DEF DInv, Phases
  <2> QED BY <1>1, <2>1, <2>2 DEF One, OwedIn, Unfinished
<1> QED BY <1>4, <1>5, <1>6, <1>7, <1>8, <1>9 DEF Processes

\* An account is kept by every step of an attempt.
LEMMA ProcessingKeepsAccounts ==
    ASSUME DInv, NEW s \in Slots, Processes(s), NEW d \in Deliveries, Accounted(d)
    PROVE  Accounted(d)'
<1>1. DInv' /\ UNCHANGED <<endpoint, request, job>>
  BY ProcessingKeepsRows, ProcessorStep DEF DInv
<1>2. /\ run[s] # Idle /\ run'[s] # Idle /\ run'[s].delivery = run[s].delivery
      /\ \A r \in Slots : r # s => run'[r] = run[r]
      /\ d # run[s].delivery =>
           row'[d] = row[d] /\ accepted'[d] = accepted[d] /\ unrecorded'[d] = unrecorded[d]
  BY ProcessorStep, RunsAreNotIdle DEF DInv
<1>3. CASE run[s].delivery # d
  <2>1. Settled(d) => Settled(d)'
    BY <1>1, <1>2, <1>3 DEF Settled
  <2>2. \A r \in Slots : run'[r] = run[r] \/ (~Working(r, d) /\ ~Working(r, d)')
    BY <1>2, <1>3 DEF Working
  <2>3. /\ job'[d].owner = job[d].owner
        /\ accepted'[d] = accepted[d] /\ unrecorded'[d] = unrecorded[d]
    BY <1>1, <1>2, <1>3
  <2> QED BY <2>1, <2>2, <2>3, AccountKept
<1>4. CASE run[s].delivery = d
  <2>1. /\ accepted'[d] + One(run'[s].phase \in Unfinished)
             + One(Settled(d) /\ ~Settled(d)') + unrecorded[d]
             <= accepted[d] + One(run[s].phase \in Unfinished) + unrecorded'[d]
        /\ accepted'[d] + OwedIn(run'[s].phase, Settled(d)') + unrecorded[d]
             <= accepted[d] + OwedIn(run[s].phase, Settled(d)) + unrecorded'[d]
    BY <1>4, ProcessorPays
  <2>2. /\ accepted[d] \in Nat /\ unrecorded[d] \in Nat
        /\ accepted'[d] \in Nat /\ unrecorded'[d] \in Nat
    BY <1>1 DEF DInv, WTypes
  <2>3. accepted'[d] + One(s \in Late(d)') + Owed(d)' + unrecorded[d]
             <= accepted[d] + One(s \in Late(d)) + Owed(d) + unrecorded'[d]
    <3>1. CASE job[d].owner = s
      <4>1. s \notin Late(d) /\ s \notin Late(d)'
        BY <1>1, <3>1 DEF Late
      <4>2. Owed(d) = OwedIn(run[s].phase, Settled(d))
        BY <3>1 DEF Owed, OwnerPhase
      <4>3. Owed(d)' = OwedIn(run'[s].phase, Settled(d)')
        BY <1>1, <3>1 DEF Owed, OwnerPhase
      <4> QED BY <2>1, <2>2, <4>1, <4>2, <4>3 DEF One, OwedIn
    <3>2. CASE job[d].owner # s
      <4>1. /\ s \in Late(d) <=> run[s].phase \in Unfinished
            /\ s \in Late(d)' <=> run'[s].phase \in Unfinished
        BY <1>1, <1>2, <1>4, <3>2 DEF Late, Working
      <4>2. OwnerPhase(d)' = OwnerPhase(d)
        BY <1>1, <1>2, <3>2 DEF OwnerPhase
      <4>3. Owed(d)' <= Owed(d) + One(Settled(d) /\ ~Settled(d)')
        BY <4>2 DEF Owed, OwedIn, One
      <4> QED BY <2>1, <2>2, <4>1, <4>3, OwedIsBounded DEF One
    <3> QED BY <3>1, <3>2
  <2> QED BY <1>1, <1>2, <2>3, AccountMoves DEF DInv
<1> QED BY <1>3, <1>4

\* An account is kept by the steps that give a job to a processor, or take it back: a lock
\* that expires and a crash pay for the attempt that nobody will record.
LEMMA JobMovesKeepAccounts ==
    ASSUME DInv, JobMoves, NEW d \in Deliveries, Accounted(d)
    PROVE  Accounted(d)'
<1>0. DInv'
  BY JobMovesKeepRows
<1>1. ASSUME NEW f \in Deliveries, NEW s \in Slots, Take(s, f)
      PROVE  Accounted(d)'
  <2>1. /\ run[s] = Idle /\ job[f].owner = NoSlot
        /\ endpoint' = endpoint /\ row' = row /\ accepted' = accepted
        /\ unrecorded' = unrecorded
    BY <1>1, JobIsTaken
  <2>2. Settled(d)' <=> Settled(d)
    BY <2>1 DEF Settled
  <2>3. PICK new \in Jobs : /\ job' = [job EXCEPT ![f] = new]
                            /\ new = [job[f] EXCEPT !.state = "active", !.owner = s]
    BY <1>1, JobIsTaken
  <2>4. PICK r \in Runs : /\ run' = [run EXCEPT ![s] = r]
                          /\ r = [delivery |-> f, phase |-> "find", attempt |-> 0]
    BY <1>1, JobIsTaken
  <2>5. new.owner = s /\ r.delivery = f /\ r.phase = "find"
    <3>1. PICK j \in Jobs : j = job[f]
      BY DEF DInv, WTypes
    <3>2. new = [j EXCEPT !.state = "active", !.owner = s]
      BY <2>3, <3>1
    <3> QED BY <2>4, <3>1, <3>2 DEF Jobs
  <2>6. /\ job'[f].owner = s /\ run'[s].delivery = f /\ run'[s].phase = "find"
        /\ \A g \in Deliveries : g # f => job'[g] = job[g]
        /\ \A q \in Slots : q # s => run'[q] = run[q]
    BY <2>3, <2>4, <2>5 DEF DInv, WTypes
  <2>7. CASE d # f
    <3>1. \A q \in Slots : run'[q] = run[q] \/ (~Working(q, d) /\ ~Working(q, d)')
      BY <2>1, <2>6, <2>7 DEF Working
    <3>2. job'[d].owner = job[d].owner /\ accepted'[d] = accepted[d]
          /\ unrecorded'[d] = unrecorded[d]
      BY <2>1, <2>6, <2>7
    <3> QED BY <2>2, <3>1, <3>2, AccountKept
  <2>8. CASE d = f
    <3>1. s \notin Late(d) /\ s \notin Late(d)'
      BY <2>1, <2>6, <2>8 DEF Late, Working
    <3>2. Owed(d) = OwedIn("none", Settled(d))
      BY <2>1, <2>8, WebhookAssumption DEF Owed, OwnerPhase
    <3>3. Owed(d)' = OwedIn("find", Settled(d)')
      BY <2>6, <2>8 DEF Owed, OwnerPhase
    <3>4. Owed(d)' = Owed(d)
      BY <2>2, <3>2, <3>3 DEF OwedIn
    <3>5. accepted'[d] + One(s \in Late(d)') + Owed(d)' + unrecorded[d]
             <= accepted[d] + One(s \in Late(d)) + Owed(d) + unrecorded'[d]
      BY <2>1, <3>1, <3>4, OwedIsBounded DEF One, DInv, WTypes
    <3>6. \A q \in Slots : q # s => /\ run'[q] = run[q]
                                    /\ job'[d].owner = q <=> job[d].owner = q
      BY <2>1, <2>6, <2>8, WebhookAssumption
    <3> QED BY <1>0, <3>5, <3>6, AccountMoves DEF DInv
  <2> QED BY <2>7, <2>8
<1>2. ASSUME NEW f \in Deliveries, RecoverStalled(f) \/ DelayElapses(f)
      PROVE  Accounted(d)'
  <2>1. /\ endpoint' = endpoint /\ row' = row /\ accepted' = accepted
        /\ unrecorded' = unrecorded /\ run' = run
    BY <1>2 DEF RecoverStalled, DelayElapses, receiver
  <2>2. Settled(d)' <=> Settled(d)
    BY <2>1 DEF Settled
  <2>3. job'[d].owner = job[d].owner
    <3>1. CASE RecoverStalled(f)
      <4>1. job[f].owner = NoSlot /\ job' = Stalled(f)
        BY <3>1 DEF RecoverStalled
      <4>2. PICK new : Free(f, new)
        BY <4>1, StalledIsFree
      <4> QED BY <4>1, <4>2 DEF Free, DInv, WTypes
    <3>2. CASE DelayElapses(f)
      <4>1. PICK j \in Jobs : j = job[f]
        BY DEF DInv, WTypes
      <4>2. PICK new : new = [j EXCEPT !.state = "waiting"]
        OBVIOUS
      <4>3. job' = [job EXCEPT ![f] = new] /\ new.owner = j.owner
        BY <3>2, <4>1, <4>2 DEF DelayElapses, Jobs
      <4> QED BY <4>1, <4>3 DEF DInv, WTypes
    <3> QED BY <1>2, <3>1, <3>2
  <2> QED BY <2>1, <2>2, <2>3, AccountKept
<1>3. ASSUME NEW s \in Slots, LockExpires(s)
      PROVE  Accounted(d)'
  <2>1. PICK f \in Deliveries : f = run[s].delivery
    BY <1>3, RunsAreNotIdle DEF LockExpires, DInv, WTypes
  <2>2. /\ run[s] # Idle /\ run[s].phase \in Phases /\ job[f].owner = s /\ job' = Stalled(f)
        /\ endpoint' = endpoint /\ row' = row /\ accepted' = accepted /\ run' = run
        /\ unrecorded' = [unrecorded EXCEPT ![f] =
                            IF run[s].phase \in {"complete", "throw"} THEN @ ELSE @ + 1]
    BY <1>3, <2>1, RunsAreNotIdle DEF LockExpires, Owns, receiver, DInv, WTypes
  <2>3. PICK new : Free(f, new)
    BY <2>2, StalledIsFree
  <2>4. job'[f].owner = NoSlot /\ \A g \in Deliveries : g # f => job'[g] = job[g]
    BY <2>3 DEF Free, DInv, WTypes
  <2>5. Settled(d)' <=> Settled(d)
    BY <2>2 DEF Settled
  <2>6. CASE d # f
    <3>1. job'[d].owner = job[d].owner /\ accepted'[d] = accepted[d]
          /\ unrecorded'[d] = unrecorded[d]
      BY <2>2, <2>4, <2>6
    <3> QED BY <2>2, <2>5, <3>1, AccountKept
  <2>7. CASE d = f
    <3>1. /\ s \notin Late(d)
          /\ s \in Late(d)' <=> run[s].phase \in Unfinished
      BY <2>1, <2>2, <2>4, <2>7, WebhookAssumption DEF Late, Working
    <3>2. Owed(d) = OwedIn(run[s].phase, Settled(d))
      BY <2>2, <2>7 DEF Owed, OwnerPhase
    <3>3. Owed(d)' = OwedIn("none", Settled(d)')
      BY <2>4, <2>7, WebhookAssumption DEF Owed, OwnerPhase
    <3>4. /\ accepted[d] \in Nat /\ unrecorded[d] \in Nat
          /\ unrecorded'[d] = IF run[s].phase \in {"complete", "throw"}
                              THEN unrecorded[d] ELSE unrecorded[d] + 1
      BY <2>2, <2>7 DEF DInv, WTypes
    <3>5. accepted'[d] + One(s \in Late(d)') + Owed(d)' + unrecorded[d]
             <= accepted[d] + One(s \in Late(d)) + Owed(d) + unrecorded'[d]
      BY <2>2, <2>5, <3>1, <3>2, <3>3, <3>4 DEF One, OwedIn, Unfinished, Phases
    <3>6. \A q \in Slots : q # s => /\ run'[q] = run[q]
                                    /\ job'[d].owner = q <=> job[d].owner = q
      BY <2>2, <2>4, <2>7, WebhookAssumption
    <3> QED BY <1>0, <3>5, <3>6, AccountMoves DEF DInv
  <2> QED BY <2>6, <2>7
<1>4. ASSUME NEW s \in Slots, CompleteJob(s) \/ FailJob(s) \/ Crash(s)
      PROVE  Accounted(d)'
  <2>1. PICK f \in Deliveries :
          /\ f = run[s].delivery /\ run[s] # Idle /\ run[s] \in Runs
          /\ run' = [run EXCEPT ![s] = Idle]
          /\ UNCHANGED <<endpoint, request, row, accepted>>
          /\ \/ job[f].owner # s /\ job' = job
             \/ /\ job[f].owner = s
                /\ \E new \in Jobs : new.owner = NoSlot /\ job' = [job EXCEPT ![f] = new]
    BY <1>4, EndFrees
  <2>2. /\ run'[s] = Idle /\ \A q \in Slots : q # s => run'[q] = run[q]
        /\ \A g \in Deliveries : g # f => job'[g] = job[g]
        /\ \/ job[f].owner # s /\ job'[f] = job[f]
           \/ job[f].owner = s /\ job'[f].owner = NoSlot
    BY <2>1 DEF DInv, WTypes
  <2>3. \/ /\ run[s].phase \in {"complete", "throw"} /\ unrecorded' = unrecorded
        \/ unrecorded' = [unrecorded EXCEPT ![f] =
                            IF run[s].phase = "success" THEN @ + 1 ELSE @]
    BY <1>4, <2>1 DEF CompleteJob, FailJob, Crash
  <2>4. Settled(d)' <=> Settled(d)
    BY <2>1 DEF Settled
  <2>5. CASE d # f
    <3>1. \A q \in Slots : run'[q] = run[q] \/ (~Working(q, d) /\ ~Working(q, d)')
      BY <2>1, <2>2, <2>5 DEF Working
    <3>2. job'[d].owner = job[d].owner /\ accepted'[d] = accepted[d]
          /\ unrecorded'[d] = unrecorded[d]
      BY <2>1, <2>2, <2>3, <2>5 DEF DInv, WTypes
    <3> QED BY <2>4, <3>1, <3>2, AccountKept
  <2>6. CASE d = f
    <3>1. /\ accepted'[d] = accepted[d] /\ accepted[d] \in Nat /\ unrecorded[d] \in Nat
          /\ unrecorded'[d] \in Nat /\ unrecorded'[d] >= unrecorded[d]
          /\ run[s].phase = "success" => unrecorded'[d] = unrecorded[d] + 1
      BY <2>1, <2>3, <2>6 DEF DInv, WTypes
    <3>2. s \notin Late(d)'
      BY <2>2 DEF Late, Working
    <3>3. Owed(d)' <= One(s \in Late(d)) + Owed(d) + unrecorded'[d] - unrecorded[d]
      <4>1. CASE job[f].owner # s
        <5>1. OwnerPhase(d)' = OwnerPhase(d)
          BY <2>2, <2>6, <4>1 DEF OwnerPhase
        <5>2. Owed(d)' = Owed(d)
          BY <2>4, <5>1 DEF Owed, OwedIn
        <5> QED BY <3>1, <5>2, OwedIsBounded DEF One
      <4>2. CASE job[f].owner = s
        <5>1. Owed(d) = OwedIn(run[s].phase, Settled(d))
          BY <2>6, <4>2 DEF Owed, OwnerPhase
        <5>2. Owed(d)' = OwedIn("none", Settled(d)')
          BY <2>2, <2>6, <4>2, WebhookAssumption DEF Owed, OwnerPhase
        <5> QED BY <2>4, <3>1, <5>1, <5>2 DEF One, OwedIn
      <4> QED BY <4>1, <4>2
    <3>4. accepted'[d] + One(s \in Late(d)') + Owed(d)' + unrecorded[d]
             <= accepted[d] + One(s \in Late(d)) + Owed(d) + unrecorded'[d]
      BY <3>1, <3>2, <3>3, OwedIsBounded DEF One
    <3>5. \A q \in Slots : q # s => /\ run'[q] = run[q]
                                    /\ job'[d].owner = q <=> job[d].owner = q
      BY <2>2, <2>6, WebhookAssumption
    <3> QED BY <1>0, <3>4, <3>5, AccountMoves DEF DInv
  <2> QED BY <2>5, <2>6
<1> QED BY <1>1, <1>2, <1>3, <1>4 DEF JobMoves, QueueStep

\* An account is kept by requests: the row that is inserted was not delivered.
LEMMA RequestKeepsAccounts ==
    ASSUME DInv, NEW v \in Events,
           \/ RequestStep(v) \/ RequestCrashes(v)
           \/ \E e \in Endpoints : EnqueueFails(v, e),
           NEW d \in Deliveries, Accounted(d)
    PROVE  Accounted(d)'
<1>1. /\ endpoint' = endpoint /\ run' = run /\ accepted' = accepted
      /\ unrecorded' = unrecorded
      /\ \/ Selects(v) \/ Inserts(v) \/ Ends(v)
         \/ \E e \in Endpoints : Enqueues(v, e)
  BY RequestDoes
<1>2. Settled(d) => Settled(d)'
  <2>1. row[d].status = "delivered" => row'[d] = row[d]
    BY <1>1 DEF Selects, Inserts, Ends, Enqueues, DInv, RowsAndJobs, Fresh
  <2> QED BY <1>1, <2>1 DEF Settled
<1>3. job'[d].owner = job[d].owner
  <2>1. CASE job' = job
    BY <2>1
  <2>2. ASSUME NEW e \in Endpoints, job' = [job EXCEPT ![<<v, e>>].state = "waiting"]
        PROVE  job'[d].owner = job[d].owner
    <3>1. PICK f \in Deliveries : f = <<v, e>>
      BY DeliveryIsPair
    <3>2. PICK j \in Jobs : j = job[f]
      BY DEF DInv, WTypes
    <3>3. PICK new : new = [j EXCEPT !.state = "waiting"]
      OBVIOUS
    <3>4. job' = [job EXCEPT ![f] = new] /\ new.owner = j.owner
      BY <2>2, <3>1, <3>2, <3>3 DEF Jobs
    <3> QED BY <3>2, <3>4 DEF DInv, WTypes
  <2> QED BY <1>1, <2>1, <2>2 DEF Selects, Inserts, Ends, Enqueues
<1> QED BY <1>1, <1>2, <1>3, AccountKept

\* An account is kept when an endpoint comes or goes: deleted endpoints stay deleted.
LEMMA EndpointKeepsAccounts ==
    ASSUME DInv, EndpointMoves, NEW d \in Deliveries, Accounted(d)
    PROVE  Accounted(d)'
<1>1. /\ job' = job /\ run' = run /\ accepted' = accepted /\ unrecorded' = unrecorded
      /\ \A f \in Endpoints : endpoint[f] = "deleted" => endpoint'[f] = "deleted"
      /\ row'[d] = row[d] \/ endpoint'[d[2]] = "deleted"
  BY EndpointDoes DEF DInv
<1>2. Settled(d) => Settled(d)'
  BY <1>1, DeliveryIsPair DEF Settled
<1> QED BY <1>1, <1>2, AccountKept

\* At the start nothing was accepted, and every delivery is owed one request.
LEMMA AInit == Init => AInv
<1> SUFFICES ASSUME Init PROVE AInv
  OBVIOUS
<1>1. DInv
  BY DInit
<1>2. ASSUME NEW d \in Deliveries
      PROVE  Accounted(d)
  <2>1. accepted[d] = 0 /\ unrecorded[d] = 0
    BY DEF Init
  <2>2. Late(d) = {}
    BY DEF Init, Late, Working
  <2> QED BY <2>1, <2>2, FS_EmptySet, OwedIsBounded DEF Accounted
<1> QED BY <1>1, <1>2 DEF AInv

\* Every step keeps every account.
LEMMA AStep == AInv /\ [Next]_vars => AInv'
<1> SUFFICES ASSUME AInv, [Next]_vars PROVE AInv'
  OBVIOUS
<1>1. DInv /\ DInv' /\ \A d \in Deliveries : Accounted(d)
  BY DStep DEF AInv
<1>2. ASSUME NEW d \in Deliveries
      PROVE  Accounted(d)'
  <2>1. CASE UNCHANGED vars
    <3>1. /\ endpoint' = endpoint /\ row' = row /\ job' = job /\ run' = run
          /\ accepted' = accepted /\ unrecorded' = unrecorded
      BY <2>1 DEF vars
    <3>2. Settled(d)' <=> Settled(d)
      BY <3>1 DEF Settled
    <3> QED BY <1>1, <3>1, <3>2, AccountKept
  <2>2. CASE Next
    BY <1>1, <2>2, StepIsOneOf, RequestKeepsAccounts, EndpointKeepsAccounts,
       JobMovesKeepAccounts, ProcessingKeepsAccounts
  <2> QED BY <2>1, <2>2
<1> QED BY <1>1, <1>2 DEF AInv

\* A receiver accepts an event once, and once more for each attempt whose result was lost or
\* came too late, however many processors work on the job the queue has given away.
THEOREM DuplicatesHaveReasons == Spec => []DuplicatesAreExplained
<1>1. AInv => DuplicatesAreExplained
  <2> SUFFICES ASSUME AInv, NEW d \in Deliveries
               PROVE  accepted[d] <= 1 + unrecorded[d]
    BY DEF DuplicatesAreExplained
  <2>1. accepted[d] \in Nat /\ unrecorded[d] \in Nat /\ Accounted(d)
    BY DEF AInv, DInv, WTypes
  <2> QED BY <2>1, LateIsFinite, OwedIsBounded DEF Accounted
<1> QED BY <1>1, AInit, AStep, PTL DEF Spec

-----------------------------------------------------------------------------
(* What becomes of delivered rows.                                         *)

\* A row is delivered, or about to be, only when the receiver has accepted a request.
SuccessesWereAccepted ==
    \A d \in Deliveries :
        /\ row[d].status = "delivered" => accepted[d] > 0
        /\ \A s \in Slots : Working(s, d) /\ run[s].phase = "success" => accepted[d] > 0

SInv == AInv /\ SuccessesWereAccepted

\* Steps that deliver nothing.
LEMMA SuccessesKept ==
    ASSUME SuccessesWereAccepted, accepted' = accepted,
           \A d \in Deliveries : row'[d] = row[d] \/ row'[d].status # "delivered",
           \A s \in Slots : run'[s] = run[s] \/ run'[s] = Idle \/ run'[s].phase = "find"
    PROVE  SuccessesWereAccepted'
BY DEF SuccessesWereAccepted, Working

\* What a processor does to rows and acceptances.
LEMMA ProcessorDelivers ==
    ASSUME DInv, NEW s \in Slots, Processes(s), NEW d \in Deliveries, run[s].delivery = d
    PROVE  /\ accepted[d] \in Nat /\ accepted'[d] \in Nat /\ accepted'[d] >= accepted[d]
           /\ run'[s].phase = "success" => accepted'[d] > 0
           /\ \/ row'[d] = row[d]
              \/ run[s].phase \in {"inactive", "failure"} /\ row'[d].status # "delivered"
              \/ run[s].phase = "success" /\ row'[d].status = "delivered"
<1>1. /\ run[s] # Idle /\ run[s] \in Runs /\ WTypes'
  BY ProcessorStep DEF DInv
<1>2. accepted[d] \in Nat /\ accepted'[d] \in Nat
  BY <1>1 DEF DInv, WTypes
<1>3. ASSUME NEW status \in {"pending", "delivered", "failed"}, UpdateRow(s, status)
      PROVE  row'[d] = row[d] \/ row'[d].status = status
  <2>1. /\ row[d].status = "none" => row'[d] = row[d]
        /\ row[d].status # "none" =>
             row'[d] = [status |-> status, attempts |-> run[s].attempt]
    BY <1>1, <1>3, UpdatesRow DEF DInv
  <2> QED BY <2>1
<1>4. ASSUME NEW phase \in Phases, Go(s, phase)
      PROVE  run'[s].phase = phase
  BY <1>1, <1>4, GoesOn DEF DInv
<1>5. CASE Find(s)
  <2>1. row' = row /\ accepted' = accepted
    BY <1>5, FindDoes DEF receiver
  <2>2. PICK phase \in {"complete", "inactive", "throw", "post"} :
          run' = [run EXCEPT ![s] = [run[s] EXCEPT !.phase = phase,
                                                   !.attempt = row[d].attempts + 1]]
    BY <1>5, FindDoes
  <2>3. PICK r \in Runs : r = run[s]
    BY <1>1
  <2>4. [r EXCEPT !.phase = phase, !.attempt = row[d].attempts + 1].phase = phase
    BY <2>3 DEF Runs
  <2>5. run'[s].phase = phase
    BY <2>2, <2>3, <2>4 DEF DInv, WTypes
  <2> QED BY <1>2, <2>1, <2>5
<1>6. CASE QueryFails(s) \/ MarkSuccess(s) \/ MarkSuccessFails(s) \/ MarkFailure(s)
           \/ MarkInactive(s)
  <2>1. /\ accepted' = accepted
        /\ \/ Go(s, "throw") \/ Go(s, "complete") \/ Go(s, "failure")
        /\ \/ row' = row
           \/ /\ run[s].phase \in {"inactive", "failure"}
              /\ UpdateRow(s, "pending") \/ UpdateRow(s, "failed")
           \/ run[s].phase = "success" /\ UpdateRow(s, "delivered")
    BY <1>6 DEF QueryFails, MarkSuccess, MarkSuccessFails, MarkFailure, MarkInactive, At, receiver
  <2>2. run'[s].phase # "success"
    BY <1>4, <2>1 DEF Phases
  <2>3. \/ row'[d] = row[d]
        \/ run[s].phase \in {"inactive", "failure"} /\ row'[d].status # "delivered"
        \/ run[s].phase = "success" /\ row'[d].status = "delivered"
    BY <1>3, <2>1
  <2> QED BY <1>2, <2>1, <2>2, <2>3
<1>7. CASE PostAccepted(s) \/ PostAnswerLost(s)
  <2>1. row' = row /\ accepted'[d] = accepted[d] + 1
    BY <1>7 DEF PostAccepted, PostAnswerLost, DInv, WTypes
  <2> QED BY <1>2, <2>1
<1>8. CASE PostRejected(s)
  <2>1. row' = row /\ accepted' = accepted /\ Go(s, "failure")
    BY <1>8 DEF PostRejected
  <2>2. run'[s].phase # "success"
    BY <1>4, <2>1 DEF Phases
  <2> QED BY <1>2, <2>1, <2>2
<1> QED BY <1>5, <1>6, <1>7, <1>8 DEF Processes

\* At the start nothing is delivered, and every step keeps it accepted.
LEMMA SInit == Init => SInv
<1> SUFFICES ASSUME Init PROVE SuccessesWereAccepted
  BY AInit DEF SInv
<1> QED BY DEF Init, SuccessesWereAccepted, Working, NoRow

LEMMA SStep == SInv /\ [Next]_vars => SInv'
<1> SUFFICES ASSUME SInv, [Next]_vars PROVE SuccessesWereAccepted'
  BY AStep DEF SInv
<1>1. DInv /\ WTypes /\ SuccessesWereAccepted
  BY DEF SInv, AInv, DInv
<1>2. CASE UNCHANGED vars
  BY <1>1, <1>2, SuccessesKept DEF vars
<1>3. ASSUME NEW v \in Events,
             \/ RequestStep(v) \/ RequestCrashes(v)
             \/ \E e \in Endpoints : EnqueueFails(v, e)
      PROVE  SuccessesWereAccepted'
  <2>1. /\ run' = run /\ accepted' = accepted
        /\ \/ Selects(v) \/ Inserts(v) \/ Ends(v)
           \/ \E e \in Endpoints : Enqueues(v, e)
    BY <1>1, <1>3, RequestDoes
  <2>2. \A d \in Deliveries : row'[d] = row[d] \/ row'[d].status # "delivered"
    <3>1. CASE Inserts(v)
      <4>1. ASSUME NEW d \in Deliveries
            PROVE  row'[d] = row[d] \/ row'[d] = [status |-> "pending", attempts |-> 0]
        BY <3>1 DEF Inserts
      <4> QED BY <4>1
    <3>2. CASE row' = row
      BY <3>2
    <3> QED BY <2>1, <3>1, <3>2 DEF Selects, Ends, Enqueues
  <2> QED BY <1>1, <2>1, <2>2, SuccessesKept
<1>4. CASE EndpointMoves
  <2>1. /\ run' = run /\ accepted' = accepted
        /\ \A d \in Deliveries : row'[d] = row[d] \/ row'[d].status = "none"
    BY <1>1, <1>4, EndpointDoes
  <2> QED BY <1>1, <2>1, SuccessesKept
<1>5. CASE JobMoves
  <2>1. row' = row /\ accepted' = accepted
    BY <1>5 DEF JobMoves, QueueStep, Take, DelayElapses, RecoverStalled, LockExpires, Crash,
       CompleteJob, FailJob, receiver
  <2>2. \/ run' = run
        \/ \E s \in Slots : run' = [run EXCEPT ![s] = Idle]
        \/ \E s \in Slots, d \in Deliveries :
              run' = [run EXCEPT ![s] = [delivery |-> d, phase |-> "find", attempt |-> 0]]
    BY <1>5 DEF JobMoves, QueueStep, Take, DelayElapses, RecoverStalled, LockExpires, Crash,
       CompleteJob, FailJob
  <2>3. \A s \in Slots : run'[s] = run[s] \/ run'[s] = Idle \/ run'[s].phase = "find"
    BY <1>1, <2>2 DEF WTypes
  <2> QED BY <1>1, <2>1, <2>3, SuccessesKept
<1>6. ASSUME NEW s \in Slots, Processes(s)
      PROVE  SuccessesWereAccepted'
  <2>1. PICK f \in Deliveries : f = run[s].delivery
    BY <1>1, <1>6, ProcessorStep
  <2>2. /\ run[s] # Idle /\ run'[s].delivery = f
        /\ \A r \in Slots : r # s => run'[r] = run[r]
        /\ \A d \in Deliveries : d # f => row'[d] = row[d] /\ accepted'[d] = accepted[d]
    BY <1>1, <1>6, <2>1, ProcessorStep
  <2>3. /\ accepted[f] \in Nat /\ accepted'[f] \in Nat /\ accepted'[f] >= accepted[f]
        /\ run'[s].phase = "success" => accepted'[f] > 0
        /\ \/ row'[f] = row[f]
           \/ run[s].phase \in {"inactive", "failure"} /\ row'[f].status # "delivered"
           \/ run[s].phase = "success" /\ row'[f].status = "delivered"
    BY <1>1, <1>6, <2>1, ProcessorDelivers
  <2>4. ASSUME NEW d \in Deliveries, d # f
        PROVE  /\ row'[d].status = "delivered" => accepted'[d] > 0
               /\ \A r \in Slots : Working(r, d)' /\ run'[r].phase = "success" => accepted'[d] > 0
    BY <1>1, <2>2, <2>4 DEF SuccessesWereAccepted, Working
  <2>5. accepted[f] > 0 => accepted'[f] > 0
    BY <2>3
  <2>6. row'[f].status = "delivered" => accepted'[f] > 0
    BY <1>1, <2>1, <2>2, <2>3, <2>5 DEF SuccessesWereAccepted, Working
  <2>7. \A r \in Slots : Working(r, f)' /\ run'[r].phase = "success" => accepted'[f] > 0
    BY <1>1, <2>2, <2>3, <2>5 DEF SuccessesWereAccepted, Working
  <2> QED BY <2>4, <2>6, <2>7 DEF SuccessesWereAccepted
<1> QED BY <1>2, <1>3, <1>4, <1>5, <1>6, StepIsOneOf

\* Who sets a delivered row back may still send a request: it is owed one, or late.
LEMMA SetBackIsExplained ==
    ASSUME SInv, Next, NEW d \in Deliveries,
           row[d].status = "delivered", row'[d].status \in {"pending", "failed"}
    PROVE  unrecorded[d] > 0
<1>1. DInv /\ Accounted(d) /\ accepted[d] > 0
  BY DEF SInv, AInv, SuccessesWereAccepted
<1>2. accepted[d] \in Nat /\ unrecorded[d] \in Nat
  BY <1>1 DEF DInv, WTypes
<1>3. PICK s \in Slots : Processes(s)
  <2>1. CASE JobMoves
    BY <2>1 DEF JobMoves, QueueStep, Take, DelayElapses, RecoverStalled, LockExpires, Crash,
       CompleteJob, FailJob
  <2>2. CASE EndpointMoves
    BY <1>1, <2>2, EndpointDoes DEF DInv
  <2>3. ASSUME NEW v \in Events,
               \/ RequestStep(v) \/ RequestCrashes(v)
               \/ \E e \in Endpoints : EnqueueFails(v, e)
        PROVE  FALSE
    <3>1. \/ Selects(v) \/ Inserts(v) \/ Ends(v)
          \/ \E e \in Endpoints : Enqueues(v, e)
      BY <1>1, <2>3, RequestDoes
    <3> QED BY <1>1, <3>1 DEF Selects, Inserts, Ends, Enqueues, DInv, RowsAndJobs, Fresh
  <2> QED BY <2>1, <2>2, <2>3, StepIsOneOf
<1>4. Working(s, d) /\ run[s].phase \in {"inactive", "failure"}
  <2>1. run[s] # Idle /\ run[s].delivery \in Deliveries
        /\ (run[s].delivery # d => row'[d] = row[d])
    BY <1>1, <1>3, ProcessorStep DEF DInv
  <2>2. run[s].delivery = d
    BY <2>1
  <2> QED BY <1>1, <1>3, <2>1, <2>2, ProcessorDelivers DEF Working
<1>5. CASE job[d].owner = s
  <2>1. Owed(d) = 1
    BY <1>4, <1>5 DEF Owed, OwnerPhase, OwedIn, Working
  <2> QED BY <1>1, <1>2, <2>1, LateIsFinite DEF Accounted
<1>6. CASE job[d].owner # s
  <2>1. s \in Late(d)
    BY <1>4, <1>6 DEF Late, Unfinished
  <2>2. Cardinality(Late(d)) # 0
    BY <2>1, LateIsFinite, FS_EmptySet
  <2> QED BY <1>1, <1>2, <2>2, LateIsFinite, OwedIsBounded DEF Accounted
<1> QED BY <1>5, <1>6

\* Of a delivered row: it is set back by no attempt but one whose own result was lost or came
\* too late, or that follows such an attempt, whatever becomes of its endpoint.
THEOREM DeliveredRowsAreKept == Spec => DeliveredRowsStay
<1>1. SInv /\ [Next]_vars =>
        [ \A d \in Deliveries :
            row[d].status = "delivered" /\ row'[d].status \in {"pending", "failed"} =>
                unrecorded[d] > 0 ]_vars
  BY SetBackIsExplained
<1> QED BY <1>1, SInit, SStep, PTL DEF Spec, DeliveredRowsStay

-----------------------------------------------------------------------------
(* The two counters that decide when to give up.                           *)

\* No call has failed, no secret was changed and no lock was lost: workers may only have
\* crashed.
Calm == \A kind \in {"enqueue", "database", "secret", "lock"} : faults[kind] = 0

\* A secret that cannot be decrypted was changed.
SealedByChange == \A e \in Endpoints : endpoint[e] = "sealed" => faults["secret"] > 0

\* The queue knows of every attempt; the attempt is numbered higher than those the queue has
\* counted, throws only while there is another one, and completes only when the row no longer
\* waits.
Counted(s) ==
    \A d \in Deliveries : Working(s, d) =>
        /\ job[d].owner = s
        /\ run[s].phase \in {"inactive", "post", "success", "failure"} =>
             run[s].attempt > job[d].made
        /\ run[s].phase = "throw" =>
             /\ job[d].made + 1 < MaxAttempts
             /\ row[d].status # "none" => row[d].attempts > job[d].made
        /\ run[s].phase = "complete" => row[d].status # "pending"

\* The row has counted every attempt the queue has counted, and has a job while it waits.
Backed(d) ==
    /\ row[d].status # "none" => row[d].attempts >= job[d].made
    /\ row[d].status = "pending" =>
         \/ job[d].state \in {"waiting", "delayed", "active"}
         \/ Unsent(d)
         \/ job[d].stalls > MaxStalledCount

CountersAgree == (\A s \in Slots : Counted(s)) /\ (\A d \in Deliveries : Backed(d))

JInv == DInv /\ SealedByChange /\ (Calm => CountersAgree)

\* It is what the property says of each row, when something has failed and when nothing has.
LEMMA CountersSuffice == JInv => PendingRowsHaveJobs
<1> SUFFICES ASSUME JInv PROVE PendingRowsHaveJobs
  OBVIOUS
<1>1. CASE Calm
  BY <1>1 DEF JInv, CountersAgree, Backed, Unsent, PendingRowsHaveJobs
<1>2. CASE ~Calm
  <2>1. \E kind \in {"enqueue", "database", "secret", "lock"} : faults[kind] > 0
    BY <1>2 DEF Calm, JInv, DInv, WTypes, Faults
  <2> QED BY <2>1 DEF PendingRowsHaveJobs
<1> QED BY <1>1, <1>2

\* An attempt that a step leaves alone stays as it was, unless its row is deleted.
LEMMA CountedKept ==
    ASSUME NEW r \in Slots, Counted(r), run'[r] = run[r],
           \A g \in Deliveries : Working(r, g) =>
             /\ job'[g].owner = job[g].owner /\ job'[g].made = job[g].made
             /\ row'[g] = row[g] \/ row'[g].status = "none"
    PROVE  Counted(r)'
BY DEF Counted, Working

\* So does a row, as long as its request has not forgotten it.
LEMMA BackedKept ==
    ASSUME NEW d \in Deliveries, Backed(d), row'[d] = row[d], job'[d] = job[d],
           Unsent(d) => Unsent(d)'
    PROVE  Backed(d)'
BY DEF Backed

\* A step of an attempt: each way to write the row gives it the number of the attempt.
LEMMA ProcessingCounts ==
    ASSUME DInv, SealedByChange, CountersAgree, Calm', NEW s \in Slots, Processes(s)
    PROVE  CountersAgree'
<1>1. PICK d \in Deliveries : d = run[s].delivery
  BY ProcessorStep DEF DInv
<1>2. /\ run[s] # Idle /\ run[s] \in Runs /\ run'[s] # Idle /\ run'[s].delivery = d
      /\ UNCHANGED <<endpoint, request, job>>
      /\ \A r \in Slots : r # s => run'[r] = run[r]
      /\ \A f \in Deliveries : f # d => row'[f] = row[f]
  BY <1>1, ProcessorStep, RunsAreNotIdle DEF DInv
<1>3. job[d] \in Jobs /\ row[d] \in Rows /\ MaxAttempts \in Nat /\ run[s].attempt \in Nat
      /\ job[d].made \in Nat /\ row[d].attempts \in Nat
  BY <1>2, WebhookAssumption, RunsAreNotIdle DEF DInv, WTypes, Jobs, Rows
<1>4. /\ job[d].owner = s /\ Counted(s) /\ Backed(d) /\ job[d].state = "active"
      /\ run[s].phase \in {"inactive", "post", "success", "failure"} =>
           run[s].attempt > job[d].made
  BY <1>1, <1>2, WebhookAssumption DEF CountersAgree, Counted, Working, DInv, OwnersWork
<1>5. ~Fault("database") /\ endpoint[d[2]] # "sealed"
  <2>1. ~Fault("database")
    BY FaultCounts DEF Calm, Faults, DInv
  <2>2. faults["secret"] > 0 => faults'["secret"] > 0
    BY ProcessorStep DEF DInv, Faults
  <2>3. faults'["secret"] = 0
    BY DEF Calm
  <2> QED BY <2>1, <2>2, <2>3, DeliveryIsPair DEF SealedByChange
<1>6. ASSUME NEW r \in Slots, r # s
      PROVE  Counted(r)'
  <2>1. \A g \in Deliveries : Working(r, g) => g # d
    BY <1>4, <1>6 DEF CountersAgree, Counted
  <2>2. \A g \in Deliveries : Working(r, g) =>
             /\ job'[g].owner = job[g].owner /\ job'[g].made = job[g].made
             /\ row'[g] = row[g] \/ row'[g].status = "none"
    BY <1>2, <2>1
  <2>3. Counted(r) /\ run'[r] = run[r]
    BY <1>2, <1>6 DEF CountersAgree
  <2> QED BY <2>2, <2>3, CountedKept
<1>7. ASSUME NEW f \in Deliveries, f # d
      PROVE  Backed(f)'
  <2>1. Backed(f) /\ row'[f] = row[f] /\ job'[f] = job[f] /\ (Unsent(f) => Unsent(f)')
    BY <1>2, <1>7 DEF CountersAgree, Unsent
  <2> QED BY <2>1, BackedKept
  \* What remains to be shown of the delivery it works on.
<1> DEFINE RowRight == row'[d].status # "none" => row'[d].attempts >= job[d].made
           RunRight ==
             /\ run'[s].phase \in {"inactive", "post", "success", "failure"} =>
                  run'[s].attempt > job[d].made
             /\ run'[s].phase = "throw" =>
                  /\ job[d].made + 1 < MaxAttempts
                  /\ row'[d].status # "none" => row'[d].attempts > job[d].made
             /\ run'[s].phase = "complete" => row'[d].status # "pending"
<1>8. RowRight /\ RunRight
  <2>1. CASE Find(s)
    <3>1. PICK phase \in {"complete", "inactive", "throw", "post"} :
            /\ row[d].status \in {"none", "delivered"} <=> phase = "complete"
            /\ phase = "throw" => endpoint[d[2]] = "sealed"
            /\ run' = [run EXCEPT ![s] = [run[s] EXCEPT !.phase = phase,
                                                        !.attempt = row[d].attempts + 1]]
      BY <1>1, <2>1, FindDoes
    <3>2. PICK r \in Runs : r = run[s]
      BY <1>2
    <3>3. /\ run'[s].phase = phase /\ run'[s].attempt = row[d].attempts + 1
      <4>1. PICK new : new = [r EXCEPT !.phase = phase, !.attempt = row[d].attempts + 1]
        OBVIOUS
      <4>2. new.phase = phase /\ new.attempt = row[d].attempts + 1
        BY <4>1 DEF Runs
      <4> QED BY <3>1, <3>2, <4>1, <4>2 DEF DInv, WTypes
    <3>4. row' = row
      BY <2>1, FindDoes
    <3>5. row[d].status # "none" => row[d].attempts >= job[d].made
      BY <1>4 DEF Backed
    <3> QED BY <1>3, <1>5, <3>1, <3>3, <3>4, <3>5
  <2>2. CASE PostAccepted(s) \/ PostRejected(s) \/ PostAnswerLost(s)
    <3>1. PICK phase \in {"success", "failure"} :
            row' = row /\ run[s].phase = "post" /\ Go(s, phase)
      BY <2>2 DEF PostAccepted, PostRejected, PostAnswerLost, At
    <3>2. run'[s].phase = phase /\ run'[s].attempt = run[s].attempt
      BY <1>2, <3>1, GoesOn DEF DInv, Phases
    <3> QED BY <1>4, <3>1, <3>2 DEF Backed
  <2>3. ASSUME NEW status \in {"pending", "delivered", "failed"}, NEW phase \in {"throw", "complete"},
               run[s].phase \in {"inactive", "success", "failure"},
               UpdateRow(s, status), Go(s, phase),
               status = "pending" <=> phase = "throw",
               phase = "throw" => run[s].attempt < MaxAttempts
        PROVE  RowRight /\ RunRight
    <3>1. run'[s].phase = phase
      BY <1>2, <2>3, GoesOn DEF DInv, Phases
    <3>2. /\ row[d].status = "none" => row'[d] = row[d]
          /\ row[d].status # "none" =>
               row'[d] = [status |-> status, attempts |-> run[s].attempt]
      BY <1>1, <1>2, <2>3, UpdatesRow DEF DInv
    <3>3. /\ row[d].status = "none" => row'[d].status = "none"
          /\ row[d].status # "none" =>
               row'[d].status = status /\ row'[d].attempts = run[s].attempt
      BY <3>2
    <3>4. run[s].attempt > job[d].made
      BY <1>4, <2>3
    <3> QED BY <1>3, <2>3, <3>1, <3>3, <3>4
  <2>4. CASE MarkSuccess(s)
    BY <2>3, <2>4 DEF MarkSuccess, At
  <2>5. CASE MarkFailure(s)
    <3>1. CASE ShouldRetry(s)
      BY <2>3, <2>5, <3>1 DEF MarkFailure, At, ShouldRetry
    <3>2. CASE ~ShouldRetry(s)
      BY <2>3, <2>5, <3>2 DEF MarkFailure, At
    <3> QED BY <3>1, <3>2
  <2>6. CASE MarkInactive(s)
    BY <2>3, <2>6 DEF MarkInactive, At
  <2> QED BY <1>5, <2>1, <2>2, <2>4, <2>5, <2>6 DEF Processes, QueryFails, MarkSuccessFails
<1>9. Counted(s)'
  BY <1>2, <1>4, <1>8 DEF Counted, Working
<1>10. Backed(d)'
  BY <1>2, <1>4, <1>8 DEF Backed
<1> QED BY <1>6, <1>7, <1>9, <1>10 DEF CountersAgree

\* A job that moves: an attempt that throws is counted by the queue after the row has counted
\* it, and a job is given up for its stalls only.
LEMMA JobMovesCount ==
    ASSUME DInv, CountersAgree, Calm', JobMoves
    PROVE  CountersAgree'
<1>1. ASSUME NEW d \in Deliveries, NEW new \in Jobs, job' = [job EXCEPT ![d] = new], row' = row,
             request' = request, job[d].state # "none",
             \A r \in Slots : run'[r] = run[r] \/ run'[r] = Idle,
             \A r \in Slots : ~Working(r, d)',
             row[d].status # "none" => row[d].attempts >= new.made,
             row[d].status = "pending" =>
               new.state \in {"waiting", "delayed", "active"} \/ new.stalls > MaxStalledCount
      PROVE  CountersAgree'
  <2>1. job'[d] = new /\ \A g \in Deliveries : g # d => job'[g] = job[g]
    BY <1>1 DEF DInv, WTypes
  <2>2. ASSUME NEW r \in Slots
        PROVE  Counted(r)'
    <3>1. CASE run'[r] = Idle
      BY <3>1 DEF Counted, Working
    <3>2. CASE run'[r] = run[r]
      <4>1. \A g \in Deliveries : Working(r, g) => g # d
        BY <1>1, <3>2 DEF Working
      <4>2. \A g \in Deliveries : Working(r, g) =>
               /\ job'[g].owner = job[g].owner /\ job'[g].made = job[g].made
               /\ row'[g] = row[g] \/ row'[g].status = "none"
        BY <1>1, <2>1, <4>1
      <4> QED BY <3>2, <4>2, CountedKept DEF CountersAgree
    <3> QED BY <1>1, <3>1, <3>2
  <2>3. ASSUME NEW f \in Deliveries
        PROVE  Backed(f)'
    <3>1. CASE f = d
      BY <1>1, <2>1, <3>1 DEF Backed
    <3>2. CASE f # d
      <4>1. Backed(f) /\ row'[f] = row[f] /\ job'[f] = job[f] /\ (Unsent(f) => Unsent(f)')
        BY <1>1, <2>1, <3>2 DEF CountersAgree, Unsent
      <4> QED BY <4>1, BackedKept
    <3> QED BY <3>1, <3>2
  <2> QED BY <2>2, <2>3 DEF CountersAgree
<1>2. ASSUME NEW d \in Deliveries, NEW s \in Slots, Take(s, d)
      PROVE  CountersAgree'
  <2>1. /\ run[s] = Idle /\ job[d].owner = NoSlot /\ row' = row /\ request' = request
    BY <1>2, JobIsTaken
  <2>2. PICK new \in Jobs : /\ job' = [job EXCEPT ![d] = new]
                            /\ new = [job[d] EXCEPT !.state = "active", !.owner = s]
    BY <1>2, JobIsTaken
  <2>3. PICK q \in Runs : /\ run' = [run EXCEPT ![s] = q]
                          /\ q = [delivery |-> d, phase |-> "find", attempt |-> 0]
    BY <1>2, JobIsTaken
  <2>4. /\ new.owner = s /\ new.state = "active" /\ new.made = job[d].made
        /\ q.delivery = d /\ q.phase = "find"
    <3>1. PICK j \in Jobs : j = job[d]
      BY DEF DInv, WTypes
    <3>2. new = [j EXCEPT !.state = "active", !.owner = s]
      BY <2>2, <3>1
    <3> QED BY <2>3, <3>1, <3>2 DEF Jobs
  <2>5. /\ job'[d] = new /\ run'[s] = q
        /\ \A g \in Deliveries : g # d => job'[g] = job[g]
        /\ \A r \in Slots : r # s => run'[r] = run[r]
    BY <2>2, <2>3 DEF DInv, WTypes
  <2>6. Counted(s)'
    BY <2>4, <2>5 DEF Counted, Working
  <2>7. ASSUME NEW r \in Slots, r # s
        PROVE  Counted(r)'
    <3>1. Counted(r)
      BY DEF CountersAgree
    <3>2. \A g \in Deliveries : Working(r, g) => g # d
      BY <2>1, <3>1, WebhookAssumption DEF Counted
    <3>3. \A g \in Deliveries : Working(r, g) =>
             /\ job'[g].owner = job[g].owner /\ job'[g].made = job[g].made
             /\ row'[g] = row[g] \/ row'[g].status = "none"
      BY <2>1, <2>5, <3>2
    <3>4. run'[r] = run[r]
      BY <2>5, <2>7
    <3> QED BY <3>1, <3>3, <3>4, CountedKept
  <2>8. ASSUME NEW f \in Deliveries
        PROVE  Backed(f)'
    <3>1. Backed(f)
      BY DEF CountersAgree
    <3>2. CASE f = d
      BY <2>1, <2>4, <2>5, <3>1, <3>2 DEF Backed
    <3>3. CASE f # d
      <4>1. row'[f] = row[f] /\ job'[f] = job[f] /\ (Unsent(f) => Unsent(f)')
        BY <2>1, <2>5, <3>3 DEF Unsent
      <4> QED BY <3>1, <4>1, BackedKept
    <3> QED BY <3>2, <3>3
  <2> QED BY <2>6, <2>7, <2>8 DEF CountersAgree
  \* Nobody works on a job without an owner.
<1>3. ASSUME NEW d \in Deliveries, job[d].owner = NoSlot, NEW r \in Slots
      PROVE  ~Working(r, d)
  BY <1>3, WebhookAssumption DEF CountersAgree, Counted
<1>4. ASSUME NEW d \in Deliveries, RecoverStalled(d)
      PROVE  CountersAgree'
  <2>1. /\ job' = Stalled(d) /\ job[d].owner = NoSlot /\ job[d].state # "none"
        /\ row' = row /\ request' = request /\ run' = run
    BY <1>4 DEF RecoverStalled
  <2>2. PICK new : /\ Free(d, new) /\ new.made = job[d].made
                   /\ new.state = "waiting" \/ new.stalls > MaxStalledCount
    BY <2>1, StalledIsFree
  <2>3. row[d].status # "none" => row[d].attempts >= new.made
    BY <2>2 DEF CountersAgree, Backed
  <2>4. new \in Jobs /\ job' = [job EXCEPT ![d] = new]
    BY <2>2 DEF Free
  <2>5. \A r \in Slots : ~Working(r, d)'
    BY <1>3, <2>1 DEF Working
  <2> QED BY <1>1, <2>1, <2>2, <2>3, <2>4, <2>5
<1>5. ASSUME NEW d \in Deliveries, DelayElapses(d)
      PROVE  CountersAgree'
  <2>1. /\ job' = [job EXCEPT ![d] = [job[d] EXCEPT !.state = "waiting"]]
        /\ job[d].state = "delayed" /\ job[d].owner = NoSlot
        /\ row' = row /\ request' = request /\ run' = run
    BY <1>5 DEF DelayElapses, DInv, OwnersWork
  <2>2. PICK j \in Jobs : j = job[d]
    BY DEF DInv, WTypes
  <2>3. PICK new : new = [j EXCEPT !.state = "waiting"]
    OBVIOUS
  <2>4. new \in Jobs /\ new.state = "waiting" /\ new.made = j.made
    BY <2>2, <2>3 DEF Jobs
  <2>5. job' = [job EXCEPT ![d] = new]
    BY <2>1, <2>2, <2>3
  <2>6. row[d].status # "none" => row[d].attempts >= new.made
    BY <2>2, <2>4 DEF CountersAgree, Backed
  <2>7. \A r \in Slots : ~Working(r, d)'
    BY <1>3, <2>1 DEF Working
  <2> QED BY <1>1, <2>1, <2>4, <2>5, <2>6, <2>7
<1>6. ASSUME NEW s \in Slots, LockExpires(s)
      PROVE  CountersAgree'
  BY <1>6, FaultCounts DEF LockExpires, Calm, Faults, DInv
<1>7. ASSUME NEW s \in Slots, CompleteJob(s) \/ FailJob(s) \/ Crash(s)
      PROVE  CountersAgree'
  <2>1. PICK d \in Deliveries :
          /\ d = run[s].delivery /\ run[s] # Idle
          /\ run' = [run EXCEPT ![s] = Idle]
          /\ UNCHANGED <<endpoint, request, row, accepted>>
          /\ \/ job[d].owner # s /\ job' = job
             \/ /\ job[d].owner = s
                /\ \E new \in Jobs :
                     /\ new.owner = NoSlot /\ new.state # "none" /\ new.stalls = job[d].stalls
                     /\ job' = [job EXCEPT ![d] = new]
                     /\ \/ run[s].phase = "complete" /\ new.made = job[d].made
                        \/ new.state = "active" /\ new.made = job[d].made
                        \/ /\ run[s].phase = "throw"
                           /\ new.made = job[d].made + 1
                           /\ job[d].made + 1 < MaxAttempts => new.state = "delayed"
    BY <1>7, EndFrees
  <2>2. /\ Counted(s) /\ Backed(d) /\ Working(s, d) /\ job[d].owner = s
        /\ job[d].state = "active"
    BY <2>1, WebhookAssumption DEF CountersAgree, Counted, Working, DInv, OwnersWork
  <2>3. PICK new \in Jobs :
          /\ job' = [job EXCEPT ![d] = new]
          /\ \/ run[s].phase = "complete" /\ new.made = job[d].made
             \/ new.state = "active" /\ new.made = job[d].made
             \/ /\ run[s].phase = "throw"
                /\ new.made = job[d].made + 1
                /\ job[d].made + 1 < MaxAttempts => new.state = "delayed"
    BY <2>1, <2>2
  <2>4. job[d].made \in Nat /\ (row[d].status # "none" => row[d].attempts \in Nat)
    BY DEF DInv, WTypes, Jobs, Rows
  <2>5. /\ row[d].status # "none" => row[d].attempts >= new.made
        /\ row[d].status = "pending" => new.state \in {"waiting", "delayed", "active"}
    BY <2>2, <2>3, <2>4 DEF Counted, Backed
  <2>6. \A r \in Slots : run'[r] = run[r] \/ run'[r] = Idle
    BY <2>1 DEF DInv, WTypes
  <2>7. \A r \in Slots : ~Working(r, d)'
    <3>1. ASSUME NEW r \in Slots, r # s
          PROVE  ~Working(r, d)
      BY <2>2, <3>1 DEF CountersAgree, Counted
    <3>2. run'[s] = Idle /\ \A r \in Slots : r # s => run'[r] = run[r]
      BY <2>1 DEF DInv, WTypes
    <3> QED BY <3>1, <3>2 DEF Working
  <2> QED BY <1>1, <2>1, <2>2, <2>3, <2>5, <2>6, <2>7
<1> QED BY <1>2, <1>4, <1>5, <1>6, <1>7 DEF JobMoves, QueueStep

\* A request: a new row has counted nothing, and a request forgets an inserted row only when
\* a call fails.
LEMMA RequestCounts ==
    ASSUME DInv, CountersAgree, Calm', NEW v \in Events,
           \/ RequestStep(v) \/ RequestCrashes(v)
           \/ \E e \in Endpoints : EnqueueFails(v, e)
    PROVE  CountersAgree'
<1>1. /\ run' = run
      /\ \A w \in Events : w # v => request'[w] = request[w]
      /\ \/ Selects(v) \/ Inserts(v) \/ Ends(v)
         \/ \E e \in Endpoints : Enqueues(v, e)
  BY RequestDoes
<1>2. NoJob.made = 0 /\ NoJob.state = "none"
  BY DEF NoJob
<1>3. ASSUME NEW d \in Deliveries
      PROVE  /\ d[1] \in Events /\ Backed(d)
             /\ d[1] # v => (Unsent(d) => Unsent(d)')
  BY <1>1, DeliveryIsPair DEF CountersAgree, Unsent
  \* Attempts work on jobs that were there before.
<1>4. \A r \in Slots, g \in Deliveries : Working(r, g) => job[g].state # "none"
  BY DEF Working, DInv, OwnersWork
<1>5. ASSUME \A g \in Deliveries : job[g].state # "none" => row'[g] = row[g] /\ job'[g] = job[g],
             NEW r \in Slots
      PROVE  Counted(r)'
  <2>1. \A g \in Deliveries : Working(r, g) =>
             /\ job'[g].owner = job[g].owner /\ job'[g].made = job[g].made
             /\ row'[g] = row[g] \/ row'[g].status = "none"
    BY <1>4, <1>5
  <2> QED BY <1>1, <2>1, CountedKept DEF CountersAgree
<1>6. CASE Selects(v) \/ Ends(v)
  <2>1. row' = row /\ job' = job /\ request[v].phase # "enqueue"
    BY <1>6 DEF Selects, Ends, Calm
  <2>2. ASSUME NEW d \in Deliveries
        PROVE  Backed(d)'
    <3>1. Unsent(d) => Unsent(d)'
      BY <1>3, <2>1 DEF Unsent
    <3> QED BY <1>3, <2>1, <3>1, BackedKept
  <2> QED BY <1>5, <2>1, <2>2 DEF CountersAgree
<1>7. CASE Inserts(v)
  <2>1. \A d \in Deliveries : d[1] = v => row[d].status = "none" /\ job[d] = NoJob
    BY <1>7 DEF Inserts, DInv, RowsAndJobs, Fresh
  <2>2. \A g \in Deliveries : job[g].state # "none" => row'[g] = row[g] /\ job'[g] = job[g]
    BY <1>2, <1>7, <2>1 DEF Inserts
  <2>3. ASSUME NEW d \in Deliveries
        PROVE  Backed(d)'
    <3>1. CASE d[1] = v /\ d[2] \in request[v].targets
      <4>1. /\ row'[d].status = "pending" /\ row'[d].attempts = 0 /\ job'[d] = NoJob
            /\ Unsent(d)'
        BY <1>7, <2>1, <3>1 DEF Inserts, Unsent
      <4> QED BY <1>2, <4>1 DEF Backed
    <3>2. CASE ~(d[1] = v /\ d[2] \in request[v].targets)
      <4>1. row'[d] = row[d] /\ job'[d] = job[d]
        BY <1>7, <3>2 DEF Inserts
      <4>2. Unsent(d) => Unsent(d)'
        BY <1>3, <1>7, <3>2 DEF Inserts, Unsent
      <4> QED BY <1>3, <4>1, <4>2, BackedKept
    <3> QED BY <3>1, <3>2
  <2> QED BY <1>5, <2>2, <2>3 DEF CountersAgree
<1>8. ASSUME NEW e \in Endpoints, Enqueues(v, e)
      PROVE  CountersAgree'
  <2>1. PICK d0 \in Deliveries : d0 = <<v, e>> /\ d0[1] = v /\ d0[2] = e
    BY DeliveryIsPair
  <2>2. job[d0] = NoJob
    BY <1>8, <2>1 DEF Enqueues, Unsent, DInv, RowsAndJobs
  <2>3. PICK new : new = [NoJob EXCEPT !.state = "waiting"]
    OBVIOUS
  <2>4. new.state = "waiting" /\ new.made = 0
    BY <2>3 DEF NoJob
  <2>5. row' = row /\ job' = [job EXCEPT ![d0] = new]
    BY <1>8, <2>1, <2>2, <2>3 DEF Enqueues, Calm
  <2>6. job'[d0] = new /\ \A g \in Deliveries : g # d0 => job'[g] = job[g]
    BY <2>5 DEF DInv, WTypes
  <2>7. \A g \in Deliveries : job[g].state # "none" => row'[g] = row[g] /\ job'[g] = job[g]
    BY <1>2, <2>2, <2>5, <2>6
  <2>8. ASSUME NEW d \in Deliveries
        PROVE  Backed(d)'
    <3>1. CASE d = d0
      BY <1>2, <1>3, <2>2, <2>4, <2>5, <2>6, <3>1 DEF Backed
    <3>2. CASE d # d0
      <4>1. Unsent(d) => Unsent(d)'
        <5>1. CASE d[1] = v
          <6>1. d[2] # e
            BY <2>1, <3>2, <5>1, DeliveryIsPair
          <6> QED BY <1>8, <5>1, <6>1 DEF Enqueues, Unsent
        <5> QED BY <1>3, <5>1
      <4> QED BY <1>3, <2>5, <2>6, <3>2, <4>1, BackedKept
    <3> QED BY <3>1, <3>2
  <2> QED BY <1>5, <2>7, <2>8 DEF CountersAgree
<1> QED BY <1>1, <1>6, <1>7, <1>8

\* An endpoint: its rows only go.
LEMMA EndpointCounts ==
    ASSUME DInv, CountersAgree, EndpointMoves
    PROVE  CountersAgree'
<1>1. job' = job /\ run' = run /\ request' = request
      /\ \A d \in Deliveries : row'[d] = row[d] \/ row'[d].status = "none"
  BY EndpointDoes DEF DInv
<1>2. ASSUME NEW r \in Slots
      PROVE  Counted(r)'
  BY <1>1, CountedKept DEF CountersAgree
<1>3. ASSUME NEW d \in Deliveries
      PROVE  Backed(d)'
  BY <1>1 DEF CountersAgree, Backed, Unsent
<1> QED BY <1>2, <1>3 DEF CountersAgree

\* A failure that has been counted stays counted.
LEMMA FaultsStay ==
    ASSUME DInv, [Next]_vars
    PROVE  \A k \in Faults : faults[k] > 0 => faults'[k] > 0
<1>1. CASE UNCHANGED vars
  BY <1>1 DEF vars
<1>2. CASE JobMoves
  <2>1. faults' = faults \/ Fault("lock") \/ Fault("crash")
    BY <1>2 DEF JobMoves, QueueStep, Take, DelayElapses, RecoverStalled, LockExpires, Crash,
       CompleteJob, FailJob
  <2> QED BY <2>1, FaultCounts DEF DInv, Faults
<1>3. CASE \E s \in Slots : Processes(s)
  BY <1>3, ProcessorStep DEF DInv
<1>4. CASE EndpointMoves
  BY <1>4, EndpointDoes DEF DInv
<1> QED BY <1>1, <1>2, <1>3, <1>4, StepIsOneOf, RequestDoes

LEMMA CalmBefore ==
    ASSUME DInv, [Next]_vars, Calm'
    PROVE  Calm
BY FaultsStay DEF Calm, DInv, WTypes, Faults

\* No other step makes a secret unreadable.
LEMMA SealedStays ==
    ASSUME DInv, SealedByChange, [Next]_vars
    PROVE  SealedByChange'
<1>1. faults["secret"] > 0 => faults'["secret"] > 0
  BY FaultsStay DEF Faults
<1>2. CASE EndpointMoves
  BY <1>1, <1>2, EndpointDoes DEF DInv, SealedByChange
<1>3. CASE ~EndpointMoves
  <2>1. endpoint' = endpoint
    <3>1. CASE JobMoves
      BY <3>1 DEF JobMoves, QueueStep, Take, DelayElapses, RecoverStalled, LockExpires, Crash,
         CompleteJob, FailJob
    <3>2. CASE \E s \in Slots : Processes(s)
      BY <3>2, ProcessorStep DEF DInv
    <3>3. CASE UNCHANGED vars
      BY <3>3 DEF vars
    <3> QED BY <1>3, <3>1, <3>2, <3>3, StepIsOneOf, RequestDoes
  <2> QED BY <1>1, <2>1 DEF SealedByChange
<1> QED BY <1>2, <1>3

\* At the start the counters agree: there is nothing to count.
LEMMA JInit == Init => JInv
<1> SUFFICES ASSUME Init PROVE JInv
  OBVIOUS
<1>1. CountersAgree
  BY DEF Init, CountersAgree, Counted, Backed, Working, NoRow
<1>2. SealedByChange
  BY DEF Init, SealedByChange
<1> QED BY <1>1, <1>2, DInit DEF JInv

\* Every step keeps them so, until a call fails or a lock is lost.
LEMMA JStep == JInv /\ [Next]_vars => JInv'
<1> SUFFICES ASSUME JInv, [Next]_vars, Calm' PROVE CountersAgree'
  BY DStep, SealedStays DEF JInv
<1>1. DInv /\ SealedByChange /\ CountersAgree
  BY CalmBefore DEF JInv
<1>2. CASE UNCHANGED vars
  BY <1>1, <1>2 DEF vars, CountersAgree, Counted, Backed, Working, Unsent
<1>3. CASE Next
  BY <1>1, <1>3, StepIsOneOf, ProcessingCounts, JobMovesCount, RequestCounts, EndpointCounts
<1> QED BY <1>2, <1>3

\* However often workers crash, a row that waits for an attempt has a job that will make one,
\* or has lost it to more stalls than the queue tolerates; only a failing call or a lock that
\* expires under a running processor can leave a row without.
THEOREM PendingRowsAreBacked == Spec => []PendingRowsHaveJobs
BY JInit, JStep, CountersSuffice, PTL DEF Spec

================================================================================
