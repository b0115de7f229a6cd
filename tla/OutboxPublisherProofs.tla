------------------------- MODULE OutboxPublisherProofs -------------------------
(***************************************************************************)
(* For every number of events, overlapping batches and disruptions: a row  *)
(* that says published is in the topic, a stopped publisher begins no      *)
(* batch, and an event is in the topic at most once for every batch the    *)
(* timer can open and every disruption.                                    *)
(***************************************************************************)
EXTENDS OutboxPublisher, FiniteSetTheorems, SequenceTheorems, TLAPS

\* A batch marks the row it has sent.  That the row is one of Events is not needed
\* before the copies are counted.
SentIsInTopic ==
    \A s \in Slots : batch[s].step = "markPublished" /\ Current(s) \in Events =>
        copies[Current(s)] > 0

\* The signal of a process is new with it.
DownIsFresh == worker = "down" => ~aborted

\* A batch has a queue and a step, whatever they are.
BatchesAreRecords ==
    /\ batch = [s \in Slots |-> batch[s]]
    /\ \A s \in Slots : batch[s] = [queue |-> batch[s].queue, step |-> batch[s].step]

\* The inductive invariant.
PInv ==
    /\ rows \in [Events -> [status : Statuses, due : BOOLEAN]]
    /\ copies \in [Events -> Nat]
    /\ BatchesAreRecords
    /\ PublishedIsInTopic
    /\ SentIsInTopic
    /\ DownIsFresh

\* No batch sends or marks anything.
Quiet == rows' = rows /\ copies' = copies

\* Steps that put no batch before its UPDATE and leave the topic alone.
LEMMA QuietKeeps ==
    ASSUME PInv, Quiet, BatchesAreRecords', DownIsFresh',
           \A s \in Slots : batch'[s] = batch[s] \/ batch'[s].step # "markPublished"
    PROVE  PInv'
<1>1. SentIsInTopic'
  BY DEF PInv, Quiet, SentIsInTopic, Current
<1> QED BY <1>1 DEF PInv, Quiet, PublishedIsInTopic

\* What becomes of the batches: NextRow, Await of another step than the UPDATE.
LEMMA AwaitDoes ==
    ASSUME BatchesAreRecords, NEW s \in Slots, NEW step, Await(s, step)
    PROVE  /\ BatchesAreRecords'
           /\ \A r \in Slots : r # s => batch'[r] = batch[r]
           /\ batch'[s].step = step \/ batch'[s] = batch[s]
<1> QED BY DEF Await, BatchesAreRecords

\* A batch that takes its next row, or ends, is not at markPublished.
LEMMA NextRowDoes ==
    ASSUME BatchesAreRecords, NEW s \in Slots, NEW queue,
           batch' = [batch EXCEPT ![s] = BatchOf(queue)]
    PROVE  /\ BatchesAreRecords'
           /\ \A r \in Slots : r # s => batch'[r] = batch[r]
           /\ batch'[s].step # "markPublished"
<1>1. BatchOf(queue).step # "markPublished"
  BY DEF BatchOf, NoBatch
<1>2. BatchOf(queue) = [queue |-> BatchOf(queue).queue, step |-> BatchOf(queue).step]
  BY DEF BatchOf, NoBatch
<1> QED BY <1>1, <1>2 DEF BatchesAreRecords

\* The process of the worker and its timer.
LEMMA ProcessKeeps ==
    ASSUME PInv,
           \/ Start \/ SetTimer \/ Signal \/ Stop \/ Exit \/ KilledAfterSignal \/ Killed
           \/ \E s \in Ticks : Tick(s)
    PROVE  PInv'
<1>1. Quiet /\ DownIsFresh'
  BY DEF PInv, Quiet, DownIsFresh, process, Start, SetTimer, Signal, Stop, Exit,
     KilledAfterSignal, Killed, Gone, Tick
<1>2. BatchesAreRecords' /\ \A r \in Slots : batch'[r] = batch[r] \/ batch'[r].step # "markPublished"
  <2>1. CASE SetTimer \/ Signal \/ Stop
    BY <2>1 DEF PInv, SetTimer, Signal, Stop, BatchesAreRecords
  <2>2. CASE Exit \/ KilledAfterSignal \/ Killed
    BY <2>2 DEF Exit, KilledAfterSignal, Killed, Gone, NoBatch, BatchesAreRecords
  <2>3. CASE Start
    BY <2>3 DEF PInv, Start, Await, Slots, BatchesAreRecords
  <2>4. ASSUME NEW s \in Ticks, Tick(s)
        PROVE  BatchesAreRecords' /\ \A r \in Slots : batch'[r] = batch[r] \/ batch'[r].step # "markPublished"
    BY <2>4 DEF PInv, Tick, Await, Slots, BatchesAreRecords
  <2> QED BY <2>1, <2>2, <2>3, <2>4
<1> QED BY <1>1, <1>2, QuietKeeps

\* The rows of the API, and the time that passes.
LEMMA RowKeeps ==
    ASSUME PInv, NEW e \in Events, CommitRow(e) \/ BackoffElapses(e)
    PROVE  PInv'
<1>1. /\ rows' \in [Events -> [status : Statuses, due : BOOLEAN]]
      /\ \A f \in Events : rows'[f].status = "published" => rows[f].status = "published"
  BY DEF PInv, CommitRow, BackoffElapses, Statuses
<1>2. copies' = copies /\ batch' = batch /\ worker' = worker /\ aborted' = aborted
  BY DEF CommitRow, BackoffElapses, process
<1> QED BY <1>1, <1>2 DEF PInv, PublishedIsInTopic, SentIsInTopic, DownIsFresh, Current, BatchesAreRecords

\* A batch that lists, skips or goes wrong.
LEMMA UnsentKeeps ==
    ASSUME PInv, NEW s \in Slots,
           \/ List(s) \/ ListFails(s) \/ PublishSkipped(s)
           \/ MarkPublishedFails(s) \/ MarkFailedFails(s)
    PROVE  PInv'
<1>1. Quiet /\ DownIsFresh'
  BY DEF PInv, Quiet, DownIsFresh, process, List, ListFails, PublishSkipped, MarkPublishedFails,
     MarkFailedFails, Reject
<1>2. BatchesAreRecords' /\ \A r \in Slots : batch'[r] = batch[r] \/ batch'[r].step # "markPublished"
  <2>1. CASE List(s)
    BY <2>1, NextRowDoes DEF PInv, List
  <2>2. CASE ListFails(s) \/ MarkFailedFails(s)
    BY <2>2, SMTT(30) DEF PInv, ListFails, MarkFailedFails, Reject, NoBatch, BatchesAreRecords
  <2>3. CASE PublishSkipped(s) \/ MarkPublishedFails(s)
    BY <2>3 DEF PInv, PublishSkipped, MarkPublishedFails, Await, BatchesAreRecords
  <2> QED BY <2>1, <2>2, <2>3
<1> QED BY <1>1, <1>2, QuietKeeps

\* The topic only grows, and the row sent is in it.
LEMMA PublishKeeps ==
    ASSUME PInv, NEW s \in Slots, Publish(s) \/ PublishFails(s)
    PROVE  PInv'
<1>1. /\ copies' \in [Events -> Nat]
      /\ \A e \in Events : copies[e] > 0 => copies'[e] > 0
      /\ Publish(s) /\ Current(s) \in Events => copies'[Current(s)] > 0
  BY DEF PInv, Publish, PublishFails
<1>2. /\ BatchesAreRecords'
      /\ \A r \in Slots : r # s => batch'[r] = batch[r]
      /\ batch'[s].queue = batch[s].queue
      /\ batch'[s].step = "markPublished" => Publish(s) \/ batch'[s] = batch[s]
  BY DEF PInv, Publish, PublishFails, Await, BatchesAreRecords
<1>3. rows' = rows /\ worker' = worker /\ aborted' = aborted
  BY DEF Publish, PublishFails, process
<1>4. SentIsInTopic'
  BY <1>1, <1>2 DEF PInv, SentIsInTopic, Current
<1> QED BY <1>1, <1>2, <1>3, <1>4 DEF PInv, PublishedIsInTopic, DownIsFresh

\* The two UPDATEs.
LEMMA MarkKeeps ==
    ASSUME PInv, NEW s \in Slots, MarkPublished(s) \/ MarkFailed(s)
    PROVE  PInv'
<1>1. /\ rows' \in [Events -> [status : Statuses, due : BOOLEAN]]
      /\ \A e \in Events : rows'[e].status = "published" =>
            \/ rows[e].status = "published"
            \/ e = Current(s) /\ batch[s].step = "markPublished"
  <2>1. PICK row \in [status : Statuses, due : BOOLEAN] :
           /\ rows' = [rows EXCEPT ![Current(s)] = row]
           /\ row.status = "published" => batch[s].step = "markPublished"
    <3>1. CASE MarkPublished(s)
      BY <3>1 DEF MarkPublished, Awaits, Statuses
    <3>2. CASE MarkFailed(s)
      <4>1. /\ [status |-> "failed", due |-> FALSE] \in [status : Statuses, due : BOOLEAN]
            /\ [status |-> "failed", due |-> FALSE].status # "published"
        BY DEF Statuses
      <4> QED BY <3>2, <4>1 DEF MarkFailed
    <3> QED BY <3>1, <3>2
  <2> QED BY <2>1 DEF PInv
<1>2. /\ BatchesAreRecords'
      /\ \A r \in Slots : batch'[r] = batch[r] \/ batch'[r].step # "markPublished"
  BY NextRowDoes DEF PInv, MarkPublished, MarkFailed, NextRow
<1>3. copies' = copies /\ worker' = worker /\ aborted' = aborted
  BY DEF MarkPublished, MarkFailed, process
<1>4. PublishedIsInTopic'
  BY <1>1, <1>3 DEF PInv, PublishedIsInTopic, SentIsInTopic
<1>5. SentIsInTopic'
  BY <1>2, <1>3 DEF PInv, SentIsInTopic, Current, BatchesAreRecords
<1> QED BY <1>1, <1>2, <1>3, <1>4, <1>5 DEF PInv, DownIsFresh

\* At first there is no batch.
LEMMA PInit == Init => PInv
<1> QED BY DEF Init, PInv, Statuses, NoBatch, PublishedIsInTopic, SentIsInTopic, DownIsFresh, BatchesAreRecords

\* The invariant is inductive.
LEMMA PStep == PInv /\ [Next]_vars => PInv'
<1> SUFFICES ASSUME PInv, [Next]_vars PROVE PInv'
  OBVIOUS
<1>1. CASE \E e \in Events : CommitRow(e) \/ BackoffElapses(e)
  BY <1>1, RowKeeps
<1>2. ASSUME NEW s \in Slots, BatchStep(s) \/ BatchFailure(s)
      PROVE  PInv'
  BY <1>2, UnsentKeeps, PublishKeeps, MarkKeeps DEF BatchStep, BatchFailure
<1>3. CASE \/ \E s \in Ticks : Tick(s)
           \/ Start \/ SetTimer \/ Signal \/ Stop \/ Exit \/ KilledAfterSignal \/ Killed
  BY <1>3, ProcessKeeps
<1>4. CASE UNCHANGED vars
  BY <1>4 DEF vars, process, PInv, PublishedIsInTopic, SentIsInTopic, DownIsFresh, Current, BatchesAreRecords
<1> QED BY <1>1, <1>2, <1>3, <1>4 DEF Next

\* A slot without a batch begins one with the timer or with start() only.
LEMMA OnlyTimerAndStartBegin ==
    ASSUME PInv, [Next]_vars, NEW s \in Slots, aborted, Idle(s)
    PROVE  batch'[s].step = "idle"
<1>1. ASSUME NEW r \in Slots, BatchStep(r) \/ BatchFailure(r)
      PROVE  batch'[s].step = "idle"
  <2>1. r # s
    BY <1>1 DEF Idle, BatchStep, BatchFailure, List, Publish, PublishSkipped, MarkPublished,
       MarkFailed, ListFails, PublishFails, MarkPublishedFails, MarkFailedFails, Awaits
  <2>2. batch'[s] = batch[s]
    BY <1>1, <2>1 DEF PInv, BatchStep, BatchFailure, List, Publish, PublishSkipped, MarkPublished,
       MarkFailed, ListFails, PublishFails, MarkPublishedFails, MarkFailedFails, Await, NextRow, Reject, BatchesAreRecords
  <2> QED BY <2>2 DEF Idle
<1>2. CASE Exit \/ KilledAfterSignal \/ Killed
  BY <1>2 DEF Exit, KilledAfterSignal, Killed, Gone, NoBatch, BatchesAreRecords
<1>3. CASE SetTimer \/ Signal \/ Stop \/ \E e \in Events : CommitRow(e) \/ BackoffElapses(e)
  BY <1>3 DEF SetTimer, Signal, Stop, CommitRow, BackoffElapses, Idle
<1>4. CASE UNCHANGED vars
  BY <1>4 DEF vars, Idle
<1>5. ~Start /\ \A r \in Ticks : ~Tick(r)
  BY DEF PInv, DownIsFresh, Start, Tick
<1> QED BY <1>1, <1>2, <1>3, <1>4, <1>5 DEF Next

-----------------------------------------------------------------------------
\* However many batches overlap, fail or are cut short by a crash, no row says published
\* before the topic has its event (ConfigOutboxPublisher.publishBatch).
THEOREM NothingIsDropped == Spec => []PublishedIsInTopic
<1>1. PInv => PublishedIsInTopic
  BY DEF PInv
<1> QED BY <1>1, PInit, PStep, PTL DEF Spec

\* stop() is final for the process, whatever the timer and start() do afterwards.
THEOREM StoppedStaysStopped == Spec => StopIsFinal
<1>1. PInv /\ [Next]_vars => [\A s \in Slots : aborted /\ Idle(s) => batch'[s].step = "idle"]_vars
  BY OnlyTimerAndStartBegin
<1> QED BY <1>1, PInit, PStep, PTL DEF Spec, StopIsFinal

-----------------------------------------------------------------------------
(* How often an event is sent.  An event that is not published may still   *)
(* be sent once by every batch there can be, a published one by the        *)
(* batches that listed it before; and a batch that is about to mark it     *)
(* failed makes it worth a whole round again, which the disruption that    *)
(* made the batch fail has paid for.                                       *)

Steps == {"idle", "list", "publish", "markPublished", "markFailed"}

Occurs(queue, e) == \E i \in 1..Len(queue) : queue[i] = e

\* What a batch b has still to do for event e.
RoleIn(b, e) ==
    IF ~Occurs(b.queue, e) THEN "none"
    ELSE IF b.step = "publish" \/ Head(b.queue) # e THEN "send"
    ELSE b.step

Role(s, e) == RoleIn(batch[s], e)

InRole(e, role) == {s \in Slots : Role(s, e) = role}

Count(e, role) == Cardinality(InRole(e, role))

Round == Cardinality(Ticks)

\* The copies that may still come without another disruption.
Owed(e) ==
    IF configured
      THEN (IF rows[e].status = "published"
              THEN Count(e, "send")
              ELSE Round - Count(e, "markPublished") - Count(e, "markFailed"))
           + Round * Count(e, "markFailed")
      ELSE IF rows[e].status = "published" THEN 0 ELSE Round

\* A signal is a disruption whose round may be needed when the process is killed.
Kept == IF signalled THEN Round ELSE 0

Accounted(e) == copies[e] + Owed(e) + Kept <= Round * (1 + disruptions)

CopiesAreAccounted == \A e \in Events : Accounted(e)

\* A batch lists every event once and is idle when its queue is empty.
Formed(b) ==
    /\ b \in [queue : Seq(Events), step : Steps]
    /\ b.step \in {"idle", "list"} <=> b.queue = <<>>
    /\ \A i, j \in 1..Len(b.queue) : b.queue[i] = b.queue[j] => i = j

QueuesTyped ==
    /\ batch = [s \in Slots |-> batch[s]]
    /\ \A s \in Slots : Formed(batch[s])

\* The first batch of start() never overlaps with those of the timer.
FirstBatchIsAlone ==
    /\ startup # "done" => ~interval /\ \A s \in Ticks : Idle(s)
    /\ startup # "first" => Idle("start")
    /\ worker = "down" => startup = "none" /\ ~signalled

\* Without brokers nothing is sent, and nothing that was published is listed.
NothingSentUnconfigured ==
    ~configured => \A s \in Slots :
        /\ batch[s].step # "markPublished"
        /\ \A e \in Events : rows[e].status = "published" => Role(s, e) = "none"

CInv ==
    /\ rows \in [Events -> [status : Statuses, due : BOOLEAN]]
    /\ copies \in [Events -> Nat]
    /\ disruptions \in Nat
    /\ QueuesTyped
    /\ FirstBatchIsAlone
    /\ NothingSentUnconfigured
    /\ CopiesAreAccounted

\* Among finitely many numbers, every place up to their count is taken.
LEMMA EveryRankIsTaken ==
    ASSUME NEW n \in Nat, NEW P \in SUBSET (1..n)
    PROVE  /\ IsFiniteSet(P)
           /\ Cardinality(P) \in Nat
           /\ \A i \in 1..Cardinality(P) :
                \E e \in P : Cardinality({f \in P : f <= e}) = i
<1> DEFINE UpTo(e) == {f \in P : f <= e}
           N == Cardinality(P)
           rank == [e \in P |-> Cardinality(UpTo(e))]
<1>1. IsFiniteSet(P) /\ N \in Nat
  <2>1. IsFiniteSet(1..n)
    BY FS_Interval
  <2>2. IsFiniteSet(P)
    BY <2>1, FS_Subset
  <2> QED BY <2>2, FS_CardinalityType
<1>2. ASSUME NEW e \in P
      PROVE  Cardinality(UpTo(e)) \in 1..N
  <2>1. UpTo(e) \in SUBSET P /\ e \in UpTo(e)
    OBVIOUS
  <2>2. IsFiniteSet(UpTo(e)) /\ Cardinality(UpTo(e)) <= N
    BY <1>1, <2>1, FS_Subset
  <2>3. Cardinality(UpTo(e)) \in Nat /\ Cardinality(UpTo(e)) # 0
    BY <2>1, <2>2, FS_CardinalityType, FS_EmptySet
  <2> QED BY <1>1, <2>2, <2>3
<1>3. ASSUME NEW e \in P, NEW f \in P, e < f
      PROVE  Cardinality(UpTo(e)) # Cardinality(UpTo(f))
  <2>1. UpTo(e) \in SUBSET UpTo(f) /\ f \in UpTo(f) /\ f \notin UpTo(e)
    <3>1. \A x \in P : x \in Int
      OBVIOUS
    <3>2. \A x \in P : x <= e => x <= f
      BY <1>3, <3>1
    <3>3. ~(f <= e) /\ f <= f
      BY <1>3, <3>1
    <3> QED BY <3>2, <3>3
  <2>2. UpTo(f) \in SUBSET P
    OBVIOUS
  <2> HIDE DEF UpTo
  <2>3. IsFiniteSet(UpTo(f))
    BY <1>1, <2>2, FS_Subset
  <2> QED BY <2>1, <2>3, FS_Subset
<1> HIDE DEF UpTo
<1>4. rank \in Injection(P, 1..N)
  <2>1. rank \in [P -> 1..N]
    BY <1>2
  <2>2. ASSUME NEW e \in P, NEW f \in P, rank[e] = rank[f]
        PROVE  e = f
    <3>1. e \in Int /\ f \in Int
      OBVIOUS
    <3>2. rank[e] = Cardinality(UpTo(e)) /\ rank[f] = Cardinality(UpTo(f))
      OBVIOUS
    <3> QED BY <1>3, <2>2, <3>1, <3>2
  <2> QED BY <2>1, <2>2 DEF Injection, IsInjective
<1>5. IsFiniteSet(1..N) /\ Cardinality(1..N) = N
  BY <1>1, FS_Interval
<1>6. rank \in Surjection(P, 1..N)
  BY <1>4, <1>5, FS_Injection
<1>7. \A i \in 1..N : \E e \in P : Cardinality(UpTo(e)) = i
  BY <1>6 DEF Surjection
<1> QED BY <1>1, <1>7 DEF UpTo

\* What a batch lists: rows that are pending, each once.
LEMMA ListedIsPending ==
    /\ Listed \in Seq(Pending)
    /\ \A i, j \in 1..Len(Listed) : Listed[i] = Listed[j] => i = j
<1> DEFINE N == Cardinality(Pending)
           size == IF N < Limit THEN N ELSE Limit
           At(i) == CHOOSE e \in Pending : Rank(e) = i
<1>1. N \in Nat /\ \A i \in 1..N : \E e \in Pending : Rank(e) = i
  <2>1. NumEvents \in Nat /\ Pending \in SUBSET (1..NumEvents)
    BY PublisherAssumption DEF Pending, Events
  <2> QED BY <2>1, EveryRankIsTaken DEF Rank
<1>2. size \in Nat /\ size <= N
  BY <1>1, PublisherAssumption
<1>3. \A i \in 1..size : At(i) \in Pending /\ Rank(At(i)) = i
  BY <1>1, <1>2
<1>4. Listed = [i \in 1..size |-> At(i)]
  BY DEF Listed
<1> HIDE DEF size, At
<1>5. Listed \in [1..size -> Pending]
  BY <1>3, <1>4
<1>6. Listed \in Seq(Pending) /\ Len(Listed) \in Nat /\ DOMAIN Listed = 1..Len(Listed)
  BY <1>2, <1>5, SeqDef, LenProperties
<1>7. \A i \in 1..Len(Listed) : i \in 1..size /\ Listed[i] = At(i)
  BY <1>4, <1>5, <1>6
<1> QED BY <1>3, <1>6, <1>7

\* A batch without rows has nothing to do for any event.
LEMMA EmptyBatch ==
    ASSUME NEW step \in {"idle", "list"}
    PROVE  /\ Formed([queue |-> <<>>, step |-> step])
           /\ \A e : RoleIn([queue |-> <<>>, step |-> step], e) = "none"
<1>1. <<>> \in Seq(Events) /\ Len(<<>>) = 0
  BY EmptySeq
<1> QED BY <1>1 DEF Formed, Steps, RoleIn, Occurs

\* A batch that waits handles its first row and has still to send the others.
LEMMA BusyBatch ==
    ASSUME NEW b, Formed(b), b.queue # <<>>,
           NEW step \in {"publish", "markPublished", "markFailed"}
    PROVE  LET next == [b EXCEPT !.step = step]
           IN  /\ Formed(next)
               /\ Head(b.queue) \in Events
               /\ next.queue = b.queue /\ next.step = step
               /\ RoleIn(b, Head(b.queue)) = IF b.step = "publish" THEN "send" ELSE b.step
               /\ RoleIn(next, Head(b.queue)) = IF step = "publish" THEN "send" ELSE step
               /\ \A e : e # Head(b.queue) => /\ RoleIn(b, e) \in {"none", "send"}
                                              /\ RoleIn(next, e) = RoleIn(b, e)
<1> DEFINE next == [b EXCEPT !.step = step]
<1>1. b.queue \in Seq(Events) /\ Len(b.queue) \in Nat \ {0}
  BY EmptySeq, LenProperties DEF Formed
<1>2. b.queue[1] \in Events /\ Head(b.queue) = b.queue[1]
  BY <1>1, ElementOfSeq
<1>3. Occurs(b.queue, Head(b.queue))
  BY <1>1, <1>2 DEF Occurs
<1>4. /\ next.queue = b.queue /\ next.step = step
      /\ next \in [queue : Seq(Events), step : Steps]
  BY DEF Formed, Steps
<1>5. Formed(next)
  BY <1>4 DEF Formed
<1> HIDE DEF next
<1>6. QED
  BY <1>2, <1>3, <1>4, <1>5 DEF RoleIn, next

\* A batch that is done with a row has nothing left to do for it.
LEMMA NextBatch ==
    ASSUME NEW b, Formed(b), b.queue # <<>>
    PROVE  LET next == BatchOf(Tail(b.queue))
           IN  /\ Formed(next)
               /\ next.step \in {"idle", "publish"}
               /\ RoleIn(next, Head(b.queue)) = "none"
               /\ \A e : e # Head(b.queue) => RoleIn(next, e) = RoleIn(b, e)
<1> DEFINE rest == Tail(b.queue)
           next == BatchOf(rest)
<1>1. b.queue \in Seq(Events) /\ Len(b.queue) \in Nat \ {0}
  BY EmptySeq, LenProperties DEF Formed
<1>2. /\ rest \in Seq(Events) /\ Len(rest) = Len(b.queue) - 1
      /\ \A i \in 1..Len(rest) : rest[i] = b.queue[i + 1]
      /\ Head(b.queue) = b.queue[1]
  BY <1>1, HeadTailProperties
<1>3. ~Occurs(rest, Head(b.queue))
  BY <1>1, <1>2 DEF Occurs, Formed
<1>4. ASSUME NEW e, e # Head(b.queue)
      PROVE  Occurs(rest, e) <=> Occurs(b.queue, e)
  <2>1. ASSUME NEW i \in 1..Len(b.queue), b.queue[i] = e
        PROVE  Occurs(rest, e)
    <3>1. i # 1 /\ i - 1 \in 1..Len(rest) /\ (i - 1) + 1 = i
      BY <1>1, <1>2, <1>4, <2>1
    <3>2. rest[i - 1] = e
      BY <1>2, <2>1, <3>1
    <3> QED BY <3>1, <3>2 DEF Occurs
  <2>2. ASSUME NEW i \in 1..Len(rest), rest[i] = e
        PROVE  Occurs(b.queue, e)
    BY <1>1, <1>2, <2>2 DEF Occurs
  <2> QED BY <2>1, <2>2 DEF Occurs
<1>5. \A i, j \in 1..Len(rest) : rest[i] = rest[j] => i = j
  BY <1>1, <1>2 DEF Formed
<1>6. CASE rest = <<>>
  <2>1. next = [queue |-> <<>>, step |-> "idle"]
    BY <1>6 DEF BatchOf, NoBatch
  <2> HIDE DEF next, rest
  <2>2. /\ Formed(next) /\ next.step = "idle"
        /\ \A e : RoleIn(next, e) = "none"
    BY <2>1, EmptyBatch
  <2>3. \A e : ~Occurs(rest, e)
    BY <1>6, EmptySeq DEF Occurs
  <2>4. \A e : e # Head(b.queue) => RoleIn(b, e) = "none"
    BY <1>4, <2>3 DEF RoleIn
  <2> QED BY <2>2, <2>4 DEF next, rest
<1>7. CASE rest # <<>>
  <2>0. next = [queue |-> rest, step |-> "publish"]
    BY <1>7 DEF BatchOf
  <2> HIDE DEF next, rest
  <2>1. /\ next.queue = rest /\ next.step = "publish"
        /\ next \in [queue : Seq(Events), step : Steps]
    BY <1>2, <2>0 DEF Steps
  <2>2. Formed(next)
    BY <1>5, <1>7, <2>1 DEF Formed
  <2>3. RoleIn(next, Head(b.queue)) = "none"
    BY <1>3, <2>1 DEF RoleIn
  <2>4. \A e : e # Head(b.queue) => RoleIn(next, e) = RoleIn(b, e)
    BY <1>4, <2>1 DEF RoleIn
  <2> QED BY <2>1, <2>2, <2>3, <2>4 DEF next, rest
<1> QED BY <1>6, <1>7

\* A batch that has listed has only rows to send that were due.
LEMMA ListedBatch ==
    LET next == BatchOf(Listed)
    IN  /\ Formed(next)
        /\ next.step \in {"idle", "publish"}
        /\ \A e : RoleIn(next, e) \in {"none", "send"}
        /\ \A e : RoleIn(next, e) = "send" => e \in Pending
<1> DEFINE next == BatchOf(Listed)
<1>1. /\ Listed \in Seq(Events)
      /\ \A e : Occurs(Listed, e) => e \in Pending
      /\ \A i, j \in 1..Len(Listed) : Listed[i] = Listed[j] => i = j
  BY ListedIsPending, SeqMonotonic, ElementOfSeq DEF Pending, Occurs
<1>2. CASE Listed = <<>>
  BY <1>2, EmptyBatch DEF BatchOf, NoBatch
<1>3. CASE Listed # <<>>
  <2>1. next = [queue |-> Listed, step |-> "publish"]
    BY <1>3 DEF BatchOf
  <2> QED BY <1>1, <1>3, <2>1 DEF Formed, Steps, RoleIn
<1> QED BY <1>2, <1>3

\* The batches of one role are finitely many.
LEMMA CountType ==
    ASSUME NEW e, NEW role
    PROVE  /\ IsFiniteSet(InRole(e, role)) /\ Count(e, role) \in Nat
           /\ IsFiniteSet(InRole(e, role))' /\ Count(e, role)' \in Nat
           /\ Round \in Nat \ {0}
<1>1. IsFiniteSet(Slots)
  <2>1. IsFiniteSet({"start"})
    BY FS_Singleton
  <2> QED BY <2>1, FS_Union, PublisherAssumption DEF Slots
<1>2. InRole(e, role) \in SUBSET Slots /\ InRole(e, role)' \in SUBSET Slots
  BY DEF InRole
<1>3. Round \in Nat /\ Round # 0
  BY FS_CardinalityType, FS_EmptySet, PublisherAssumption DEF Round
<1>4. IsFiniteSet(InRole(e, role)) /\ IsFiniteSet(InRole(e, role))'
  BY <1>1, <1>2, FS_Subset
<1> QED BY <1>3, <1>4, FS_CardinalityType DEF Count

\* One step moves one batch from one role to another.
LEMMA CountMoves ==
    ASSUME NEW s \in Slots, \A r \in Slots : r # s => batch'[r] = batch[r],
           NEW e, NEW role
    PROVE  Count(e, role)' = Count(e, role)
             + (IF Role(s, e)' = role THEN 1 ELSE 0) - (IF Role(s, e) = role THEN 1 ELSE 0)
<1> DEFINE rest == InRole(e, role) \ {s}
<1>1. rest = InRole(e, role)' \ {s}
  BY DEF InRole, Role
<1>2. IsFiniteSet(rest) /\ Cardinality(rest) \in Nat
  BY CountType, FS_Difference, FS_CardinalityType
<1>3. Cardinality(rest \cup {s}) = Cardinality(rest) + 1
  BY <1>2, FS_AddElement
<1>4. Count(e, role) = Cardinality(rest) + IF Role(s, e) = role THEN 1 ELSE 0
  <2>1. InRole(e, role) = IF Role(s, e) = role THEN rest \cup {s} ELSE rest
    BY DEF InRole
  <2>2. Count(e, role) = Cardinality(InRole(e, role))
    BY DEF Count
  <2> HIDE DEF rest
  <2>3. CASE Role(s, e) = role
    BY <1>2, <1>3, <2>1, <2>2, <2>3
  <2>4. CASE Role(s, e) # role
    BY <1>2, <2>1, <2>2, <2>4
  <2> QED BY <2>3, <2>4
<1>5. Count(e, role)' = Cardinality(rest) + IF Role(s, e)' = role THEN 1 ELSE 0
  <2>1. InRole(e, role)' = IF Role(s, e)' = role THEN rest \cup {s} ELSE rest
    BY <1>1 DEF InRole
  <2>2. Count(e, role)' = Cardinality(InRole(e, role)')
    BY DEF Count
  <2> HIDE DEF rest
  <2>3. CASE Role(s, e)' = role
    BY <1>2, <1>3, <2>1, <2>2, <2>3
  <2>4. CASE Role(s, e)' # role
    BY <1>2, <2>1, <2>2, <2>4
  <2> QED BY <2>3, <2>4
<1> HIDE DEF rest
<1> QED BY <1>2, <1>4, <1>5

\* No more batches are at work on an event than the timer can open.
LEMMA CountsBounded ==
    ASSUME QueuesTyped, FirstBatchIsAlone, NEW e
    PROVE  Count(e, "send") + Count(e, "markPublished") + Count(e, "markFailed") <= Round
<1> DEFINE A == InRole(e, "send")
           B == InRole(e, "markPublished")
           C == InRole(e, "markFailed")
<1>1. /\ IsFiniteSet(A) /\ IsFiniteSet(B) /\ IsFiniteSet(C)
      /\ Cardinality(A) \in Nat /\ Cardinality(B) \in Nat /\ Cardinality(C) \in Nat
      /\ Round \in Nat \ {0}
  BY CountType DEF Count
<1>2. A \cap B = {} /\ (A \cup B) \cap C = {}
  BY DEF InRole
<1>3. IsFiniteSet({}) /\ Cardinality({}) = 0
  BY FS_EmptySet
<1>4. /\ IsFiniteSet((A \cup B) \cup C)
      /\ Cardinality((A \cup B) \cup C) = Cardinality(A) + Cardinality(B) + Cardinality(C)
  <2> HIDE DEF A, B, C
  <2>1. /\ IsFiniteSet(A \cup B)
        /\ Cardinality(A \cup B) = Cardinality(A) + Cardinality(B) - Cardinality(A \cap B)
    BY <1>1, FS_Union
  <2>2. /\ IsFiniteSet((A \cup B) \cup C)
        /\ Cardinality((A \cup B) \cup C)
             = Cardinality(A \cup B) + Cardinality(C) - Cardinality((A \cup B) \cap C)
    BY <1>1, <2>1, FS_Union
  <2>3. Cardinality(A \cap B) = 0 /\ Cardinality((A \cup B) \cap C) = 0
    BY <1>2, <1>3, Zenon
  <2> QED BY <1>1, <2>1, <2>2, <2>3
<1>5. \A s \in Slots : Idle(s) => Role(s, e) = "none"
  BY EmptySeq DEF QueuesTyped, Formed, Idle, Role, RoleIn, Occurs
<1>6. CASE Idle("start")
  <2>1. (A \cup B) \cup C \in SUBSET Ticks
    BY <1>5, <1>6 DEF InRole, Slots
  <2> QED BY <1>4, <2>1, FS_Subset, PublisherAssumption DEF Count, Round
<1>7. CASE ~Idle("start")
  <2>1. (A \cup B) \cup C \in SUBSET {"start"}
    BY <1>5, <1>7 DEF FirstBatchIsAlone, InRole, Slots
  <2>2. IsFiniteSet({"start"}) /\ Cardinality({"start"}) = 1
    BY FS_Singleton
  <2> HIDE DEF A, B, C
  <2>3. Cardinality((A \cup B) \cup C) <= 1
    BY <2>1, <2>2, FS_Subset
  <2> QED BY <1>1, <1>4, <2>3 DEF Count, A, B, C
<1> QED BY <1>6, <1>7

\* One more of n rounds.
LEMMA OneMoreRound ==
    ASSUME NEW n \in Nat
    PROVE  /\ Round * n \in Nat
           /\ Round * (n + 1) = Round * n + Round
           /\ Round * (1 + (n + 1)) = Round * (1 + n) + Round
BY CountType

\* When no batch has anything to do for an event, nothing is counted.
LEMMA NothingToDo ==
    ASSUME NEW e, NEW role
    PROVE  /\ (\A s \in Slots : Role(s, e) # role) => Count(e, role) = 0
           /\ (\A s \in Slots : Role(s, e)' # role) => Count(e, role)' = 0
<1>1. Cardinality({}) = 0
  BY FS_EmptySet
<1>2. ASSUME \A s \in Slots : Role(s, e) # role
      PROVE  Count(e, role) = 0
  <2>1. InRole(e, role) = {}
    BY <1>2 DEF InRole
  <2> QED BY <1>1, <2>1 DEF Count
<1>3. ASSUME \A s \in Slots : Role(s, e)' # role
      PROVE  Count(e, role)' = 0
  <2>1. InRole(e, role)' = {}
    BY <1>3 DEF InRole
  <2>2. Count(e, role)' = Cardinality(InRole(e, role)')
    BY DEF Count
  <2> QED BY <1>1, <2>1, <2>2
<1> QED BY <1>2, <1>3

\* A batch that is idle, or has still to list, has nothing to do for any event.
LEMMA IdleHasNoRole ==
    ASSUME NEW s \in Slots, NEW e
    PROVE  /\ Formed(batch[s]) /\ batch[s].step \in {"idle", "list"} => Role(s, e) = "none"
           /\ Formed(batch'[s]) /\ batch'[s].step \in {"idle", "list"} => Role(s, e)' = "none"
<1>1. \A b : b.queue = <<>> => RoleIn(b, e) = "none"
  BY EmptySeq DEF RoleIn, Occurs
<1> QED BY <1>1 DEF Formed, Role

\* What is still owed when no batch has anything to do.
LEMMA OwedAtRest ==
    ASSUME CInv, NEW e \in Events
    PROVE  /\ (\A s \in Slots : Role(s, e) = "none") =>
                Owed(e) = IF rows[e].status = "published" THEN 0 ELSE Round
           /\ (\A s \in Slots : Role(s, e)' = "none") =>
                Owed(e)' = IF rows'[e].status = "published" THEN 0 ELSE Round
           /\ Owed(e) \in Nat
<1>1. /\ Round \in Nat \ {0} /\ Round * 0 = 0
      /\ Count(e, "send") \in Nat /\ Count(e, "markPublished") \in Nat
      /\ Count(e, "markFailed") \in Nat
  BY CountType
<1>2. Round * Count(e, "markFailed") \in Nat
  BY <1>1, OneMoreRound
<1>3. Count(e, "send") + Count(e, "markPublished") + Count(e, "markFailed") <= Round
  BY CountsBounded DEF CInv
<1>4. ASSUME \A s \in Slots : Role(s, e) = "none"
      PROVE  Owed(e) = IF rows[e].status = "published" THEN 0 ELSE Round
  <2>1. Count(e, "send") = 0 /\ Count(e, "markPublished") = 0 /\ Count(e, "markFailed") = 0
    BY <1>4, NothingToDo
  <2> QED BY <1>1, <2>1 DEF Owed
<1>5. ASSUME \A s \in Slots : Role(s, e)' = "none"
      PROVE  Owed(e)' = IF rows'[e].status = "published" THEN 0 ELSE Round
  <2>1. Count(e, "send")' = 0 /\ Count(e, "markPublished")' = 0 /\ Count(e, "markFailed")' = 0
    BY <1>5, NothingToDo
  <2> QED BY <1>1, <2>1 DEF Owed, Round
<1>6. Owed(e) \in Nat
  BY <1>1, <1>2, <1>3 DEF Owed
<1> QED BY <1>4, <1>5, <1>6

\* What is owed changes with the roles and the status only.
LEMMA OwedKept ==
    ASSUME NEW e \in Events, configured' = configured,
           rows'[e].status = "published" <=> rows[e].status = "published",
           \A s \in Slots : Role(s, e)' = Role(s, e)
    PROVE  Owed(e)' = Owed(e)
<1>1. ASSUME NEW role
      PROVE  Count(e, role)' = Count(e, role)
  <2>1. InRole(e, role)' = InRole(e, role)
    BY DEF InRole
  <2>2. Count(e, role)' = Cardinality(InRole(e, role)')
    BY DEF Count
  <2> QED BY <2>1, <2>2 DEF Count
<1> QED BY <1>1 DEF Owed, Round

\* A step is accounted for when nothing is added to the sum, or a disruption pays.
LEMMA PaidFor ==
    ASSUME CInv, NEW e \in Events, Owed(e)' \in Nat, copies'[e] \in Nat,
           \/ /\ disruptions' = disruptions
              /\ copies'[e] + Owed(e)' + Kept' <= copies[e] + Owed(e) + Kept
           \/ /\ disruptions' = disruptions + 1
              /\ copies'[e] + Owed(e)' + Kept' <= (copies[e] + Owed(e) + Kept) + Round
    PROVE  Accounted(e)'
<1>1. /\ Owed(e) \in Nat /\ copies[e] \in Nat /\ disruptions \in Nat /\ Round \in Nat
      /\ Kept \in Nat /\ Kept' \in Nat
  BY OwedAtRest, CountType DEF CInv, Kept, Round
<1>2. /\ Round * (1 + disruptions) \in Nat
      /\ Round * (1 + (disruptions + 1)) = Round * (1 + disruptions) + Round
  <2>1. Round * (disruptions + 1) = Round * disruptions + Round /\ Round * disruptions \in Nat
    BY <1>1, OneMoreRound
  <2>2. 1 + disruptions = disruptions + 1
    BY <1>1
  <2> QED BY <1>1, <2>1, <2>2, OneMoreRound
<1>3. copies[e] + Owed(e) + Kept <= Round * (1 + disruptions)
  BY DEF CInv, CopiesAreAccounted, Accounted
<1>4. copies'[e] + Owed(e)' + Kept' <= Round * (1 + disruptions')
  <2>1. PICK paid \in Nat : paid = Round * (1 + disruptions)
    BY <1>2
  <2>2. PICK was \in Nat : was = copies[e] + Owed(e) + Kept
    BY <1>1
  <2>3. PICK is \in Nat : is = copies'[e] + Owed(e)' + Kept'
    BY <1>1
  <2>4. was <= paid
    BY <1>3, <2>1, <2>2
  <2>5. CASE disruptions' = disruptions
    <3>1. is <= was \/ disruptions' = disruptions + 1
      BY <2>2, <2>3
    <3>2. is <= was
      BY <1>1, <2>5, <3>1
    <3>3. is <= paid
      BY <2>4, <3>2
    <3> QED BY <2>1, <2>3, <2>5, <3>3
  <2>6. CASE disruptions' = disruptions + 1
    <3>1. is <= was + Round \/ disruptions' = disruptions
      BY <2>2, <2>3
    <3>2. is <= was + Round
      BY <1>1, <2>6, <3>1
    <3>3. is <= paid + Round
      BY <1>1, <2>4, <3>2
    <3>4. Round * (1 + disruptions') = paid + Round
      BY <1>2, <2>1, <2>6
    <3> QED BY <2>3, <3>3, <3>4
  <2> QED BY <2>5, <2>6
<1> QED BY <1>4 DEF Accounted, Round

\* The steps of the process that open no batch and end none.
LEMMA SignalsAreAccounted ==
    ASSUME CInv, SetTimer \/ Signal \/ Stop
    PROVE  CInv'
<1>1. /\ batch' = batch /\ rows' = rows /\ copies' = copies /\ configured' = configured
      /\ disruptions' \in Nat
      /\ \/ disruptions' = disruptions /\ signalled' = signalled
         \/ disruptions' = disruptions + 1 /\ signalled' = TRUE
  BY DEF SetTimer, Signal, Stop, Disrupt, CInv
<1>2. QueuesTyped' /\ NothingSentUnconfigured'
  BY <1>1 DEF CInv, QueuesTyped, NothingSentUnconfigured, Role
<1>3. FirstBatchIsAlone'
  BY <1>1 DEF CInv, FirstBatchIsAlone, SetTimer, Signal, Stop, Idle
<1>4. ASSUME NEW e \in Events
      PROVE  Accounted(e)'
  <2>1. Owed(e)' = Owed(e)
    BY <1>1, OwedKept DEF Role
  <2>2. Owed(e) \in Nat /\ copies[e] \in Nat /\ disruptions \in Nat /\ Round \in Nat
    BY OwedAtRest, CountType DEF CInv
  <2>3. CASE disruptions' = disruptions /\ signalled' = signalled
    <3>1. Kept' = Kept /\ Kept \in Nat
      BY <2>2, <2>3 DEF Kept, Round
    <3>2. copies'[e] + Owed(e)' + Kept' <= copies[e] + Owed(e) + Kept
      BY <1>1, <2>1, <2>2, <3>1
    <3> QED BY <1>1, <2>1, <2>2, <2>3, <3>2, PaidFor
  <2>4. CASE disruptions' = disruptions + 1 /\ signalled' = TRUE
    <3>1. Kept' = Round /\ Kept \in Nat
      BY <2>2, <2>4 DEF Kept, Round
    <3>2. copies'[e] + Owed(e)' + Kept' <= (copies[e] + Owed(e) + Kept) + Round
      BY <1>1, <2>1, <2>2, <3>1
    <3> QED BY <1>1, <2>1, <2>2, <2>4, <3>2, PaidFor
  <2> QED BY <1>1, <2>3, <2>4
<1> QED BY <1>1, <1>2, <1>3, <1>4 DEF CInv, CopiesAreAccounted

\* A batch of start() or of the timer that begins has nothing to do yet.
LEMMA BeginningsAreAccounted ==
    ASSUME CInv, Start \/ \E s \in Ticks : Tick(s)
    PROVE  CInv'
<1>1. PICK s \in Slots :
        /\ Idle(s) /\ Await(s, "list")
        /\ \/ Start /\ s = "start"
           \/ Tick(s) /\ s \in Ticks
  BY DEF CInv, FirstBatchIsAlone, Start, Tick, Slots
<1>2. /\ rows' = rows /\ copies' = copies /\ disruptions' = disruptions
      /\ signalled' = signalled
  BY <1>1 DEF Start, Tick, process
<1>3. /\ batch'[s] = [queue |-> <<>>, step |-> "list"]
      /\ \A r \in Slots : r # s => batch'[r] = batch[r]
      /\ batch' = [r \in Slots |-> batch'[r]]
  BY <1>1 DEF CInv, QueuesTyped, Formed, Await, Idle
<1>4. QueuesTyped'
  BY <1>3, EmptyBatch DEF CInv, QueuesTyped
<1>5. \A e : \A r \in Slots : Role(r, e)' = Role(r, e)
  <2>1. \A e : Role(s, e) = "none" /\ Role(s, e)' = "none"
    BY <1>1, <1>3, EmptyBatch, IdleHasNoRole DEF CInv, QueuesTyped, Idle, Role
  <2> QED BY <1>3, <2>1 DEF Role
<1>6. FirstBatchIsAlone'
  BY <1>1, <1>3, PublisherAssumption
     DEF CInv, FirstBatchIsAlone, Start, Tick, process, Idle, Slots
<1>7. CASE Tick(s) /\ s \in Ticks
  <2>1. configured' = configured
    BY <1>7 DEF Tick, process
  <2>2. NothingSentUnconfigured'
    BY <1>2, <1>3, <1>5, <2>1 DEF CInv, NothingSentUnconfigured
  <2>3. \A e \in Events : Owed(e)' = Owed(e)
    BY <1>2, <1>5, <2>1, OwedKept
  <2>4. CopiesAreAccounted'
    BY <1>2, <2>3 DEF CInv, CopiesAreAccounted, Accounted, Kept, Round
  <2> QED BY <1>2, <1>4, <1>6, <2>2, <2>4 DEF CInv
<1>8. CASE Start /\ s = "start"
  <2>1. \A r \in Slots : Idle(r)
    BY <1>8 DEF CInv, FirstBatchIsAlone, Start, Slots
  <2>2. \A e : \A r \in Slots : Role(r, e) = "none" /\ Role(r, e)' = "none"
    BY <1>5, <2>1, IdleHasNoRole DEF CInv, QueuesTyped, Idle
  <2>3. NothingSentUnconfigured'
    BY <1>3, <2>1, <2>2 DEF NothingSentUnconfigured, Idle
  <2>4. \A e \in Events : Owed(e)' = Owed(e)
    BY <1>2, <2>2, OwedAtRest
  <2>5. CopiesAreAccounted'
    BY <1>2, <2>4 DEF CInv, CopiesAreAccounted, Accounted, Kept, Round
  <2> QED BY <1>2, <1>4, <1>6, <2>3, <2>5 DEF CInv
<1> QED BY <1>1, <1>7, <1>8

\* A process that is gone leaves every row that is not published to a new round: when it
\* was killed, the signal or the crash pays for it.
LEMMA EndsAreAccounted ==
    ASSUME CInv, Exit \/ KilledAfterSignal \/ Killed
    PROVE  CInv'
<1>1. /\ rows' = rows /\ copies' = copies /\ configured' = configured
      /\ startup' = "none" /\ interval' = FALSE /\ signalled' = FALSE /\ worker' = "down"
      /\ batch' = [s \in Slots |-> NoBatch]
      /\ disruptions' \in Nat
      /\ \/ disruptions' = disruptions /\ \A s \in Slots : Idle(s)
         \/ disruptions' = disruptions /\ signalled
         \/ disruptions' = disruptions + 1
  BY DEF CInv, Exit, KilledAfterSignal, Killed, Gone, Disrupt
<1>2. \A s \in Slots : batch'[s] = [queue |-> <<>>, step |-> "idle"]
  BY <1>1 DEF NoBatch
<1>3. QueuesTyped'
  BY <1>1, <1>2, EmptyBatch DEF QueuesTyped
<1>4. \A s \in Slots, e \in Events : Role(s, e)' = "none"
  BY <1>2, EmptyBatch DEF Role
<1>5. NothingSentUnconfigured' /\ FirstBatchIsAlone'
  BY <1>1, <1>2, <1>4 DEF NothingSentUnconfigured, FirstBatchIsAlone, Idle, Slots
<1>6. ASSUME NEW e \in Events
      PROVE  Accounted(e)'
  <2>1. /\ Owed(e) \in Nat /\ copies[e] \in Nat /\ Round \in Nat
        /\ Kept \in Nat /\ Kept' = 0
    BY <1>1, OwedAtRest, CountType DEF CInv, Kept, Round
  <2>2. /\ Owed(e)' = IF rows'[e].status = "published" THEN 0 ELSE Round
        /\ Owed(e)' \in Nat
    BY <1>4, <2>1, OwedAtRest
  <2>3. CASE disruptions' = disruptions /\ \A s \in Slots : Idle(s)
    <3>1. \A s \in Slots : Role(s, e) = "none"
      BY <2>3, IdleHasNoRole DEF CInv, QueuesTyped, Idle
    <3>2. Owed(e)' = Owed(e)
      BY <1>1, <2>2, <3>1, OwedAtRest
    <3>3. copies'[e] + Owed(e)' + Kept' <= copies[e] + Owed(e) + Kept
      BY <1>1, <2>1, <3>2
    <3> QED BY <1>1, <2>1, <2>2, <2>3, <3>3, PaidFor
  <2>4. CASE disruptions' = disruptions /\ signalled
    <3>1. Kept = Round
      BY <2>4 DEF Kept
    <3>2. copies'[e] + Owed(e)' + Kept' <= copies[e] + Owed(e) + Kept
      BY <1>1, <2>1, <2>2, <3>1
    <3> QED BY <1>1, <2>1, <2>2, <2>4, <3>2, PaidFor
  <2>5. CASE disruptions' = disruptions + 1
    <3>1. copies'[e] + Owed(e)' + Kept' <= (copies[e] + Owed(e) + Kept) + Round
      BY <1>1, <2>1, <2>2
    <3> QED BY <1>1, <2>1, <2>2, <2>5, <3>1, PaidFor
  <2> QED BY <1>1, <2>3, <2>4, <2>5
<1> QED BY <1>1, <1>3, <1>5, <1>6 DEF CInv, CopiesAreAccounted

\* Rows that become visible or due owe what they did.
LEMMA RowsAreAccounted ==
    ASSUME CInv, NEW f \in Events, CommitRow(f) \/ BackoffElapses(f)
    PROVE  CInv'
<1>1. /\ rows' \in [Events -> [status : Statuses, due : BOOLEAN]]
      /\ \A e \in Events : rows'[e].status = "published" <=> rows[e].status = "published"
  BY DEF CInv, CommitRow, BackoffElapses, Statuses
<1>2. /\ batch' = batch /\ copies' = copies /\ disruptions' = disruptions
      /\ configured' = configured /\ worker' = worker /\ startup' = startup
      /\ interval' = interval /\ signalled' = signalled
  BY DEF CommitRow, BackoffElapses, process
<1>3. QueuesTyped' /\ FirstBatchIsAlone' /\ NothingSentUnconfigured'
  BY <1>1, <1>2 DEF CInv, QueuesTyped, FirstBatchIsAlone, NothingSentUnconfigured, Idle, Role
<1>4. \A e \in Events : Owed(e)' = Owed(e)
  BY <1>1, <1>2, OwedKept DEF Role
<1>5. CopiesAreAccounted'
  BY <1>2, <1>4 DEF CInv, CopiesAreAccounted, Accounted, Kept, Round
<1> QED BY <1>1, <1>2, <1>3, <1>5 DEF CInv

\* What an event is owed is a number.
OwedTyped == \A e \in Events : Owed(e) \in Nat

LEMMA OwedIsNat ==
    QueuesTyped /\ FirstBatchIsAlone => OwedTyped
<1> SUFFICES ASSUME QueuesTyped, FirstBatchIsAlone, NEW e \in Events
             PROVE  Owed(e) \in Nat
  BY DEF OwedTyped
<1>1. /\ Round \in Nat \ {0}
      /\ Count(e, "send") \in Nat /\ Count(e, "markPublished") \in Nat
      /\ Count(e, "markFailed") \in Nat
  BY CountType
<1>2. Round * Count(e, "markFailed") \in Nat
  BY <1>1, OneMoreRound
<1>3. Count(e, "send") + Count(e, "markPublished") + Count(e, "markFailed") <= Round
  BY CountsBounded
<1> QED BY <1>1, <1>2, <1>3 DEF Owed

\* How much a batch adds to what is owed when it takes or leaves a role.
One(yes) == IF yes THEN 1 ELSE 0
Rounds(yes) == IF yes THEN Round ELSE 0

\* The sum of a process with brokers before and after a batch has changed its role.
LEMMA OwedAfter ==
    ASSUME CInv, configured, configured', NEW s \in Slots,
           \A r \in Slots : r # s => batch'[r] = batch[r], NEW e \in Events
    PROVE  \E send, sent, failing, rounds \in Nat :
              /\ send + sent + failing <= Round
              /\ Role(s, e) = "markFailed" => failing >= 1
              /\ Owed(e) = (IF rows[e].status = "published"
                              THEN send ELSE Round - sent - failing) + rounds
              /\ Owed(e)' =
                   (IF rows'[e].status = "published"
                      THEN send + One(Role(s, e)' = "send") - One(Role(s, e) = "send")
                      ELSE Round
                             - (sent + One(Role(s, e)' = "markPublished")
                                     - One(Role(s, e) = "markPublished"))
                             - (failing + One(Role(s, e)' = "markFailed")
                                        - One(Role(s, e) = "markFailed")))
                   + (rounds + Rounds(Role(s, e)' = "markFailed")
                             - Rounds(Role(s, e) = "markFailed"))
<1>1. PICK send, sent, failing \in Nat :
        /\ send = Count(e, "send") /\ sent = Count(e, "markPublished")
        /\ failing = Count(e, "markFailed")
  BY CountType
<1>2. PICK rounds \in Nat : rounds = Round * failing
  BY <1>1, OneMoreRound
<1>3. send + sent + failing <= Round /\ Round \in Nat \ {0}
  BY <1>1, CountsBounded, CountType DEF CInv
<1>4. /\ Count(e, "send")' = send + One(Role(s, e)' = "send") - One(Role(s, e) = "send")
      /\ Count(e, "markPublished")' = sent + One(Role(s, e)' = "markPublished")
                                           - One(Role(s, e) = "markPublished")
      /\ Count(e, "markFailed")' = failing + One(Role(s, e)' = "markFailed")
                                           - One(Role(s, e) = "markFailed")
  BY <1>1, CountMoves DEF One
<1>5. Role(s, e) = "markFailed" => failing >= 1
  <2>1. Count(e, "markFailed") # 0 \/ Role(s, e) # "markFailed"
    <3>1. InRole(e, "markFailed") # {} \/ Role(s, e) # "markFailed"
      BY DEF InRole
    <3> QED BY <3>1, CountType, FS_EmptySet DEF Count
  <2> QED BY <1>1, <2>1
<1>6. Round * Count(e, "markFailed")' = rounds + Rounds(Role(s, e)' = "markFailed")
                                               - Rounds(Role(s, e) = "markFailed")
  <2>1. Round * (failing + 1) = rounds + Round
    BY <1>2, OneMoreRound
  <2>2. failing >= 1 => Round * (failing - 1) = rounds - Round
    <3>1. SUFFICES ASSUME failing >= 1 PROVE Round * (failing - 1) = rounds - Round
      OBVIOUS
    <3>2. PICK less \in Nat : failing = less + 1
      BY <1>1, <3>1
    <3>3. Round * less \in Nat /\ Round * (less + 1) = Round * less + Round
      BY OneMoreRound
    <3>4. failing - 1 = less
      BY <3>2
    <3> QED BY <1>2, <1>3, <3>2, <3>3, <3>4
  <2>3. CASE Role(s, e)' = "markFailed" /\ Role(s, e) # "markFailed"
    <3>1. Count(e, "markFailed")' = failing + 1
      BY <1>4, <2>3 DEF One
    <3> QED BY <1>3, <2>1, <2>3, <3>1 DEF Rounds
  <2>4. CASE Role(s, e)' # "markFailed" /\ Role(s, e) = "markFailed"
    <3>1. Count(e, "markFailed")' = failing - 1
      BY <1>4, <2>4 DEF One
    <3> QED BY <1>3, <1>5, <2>2, <2>4, <3>1 DEF Rounds
  <2>5. CASE Role(s, e)' = "markFailed" <=> Role(s, e) = "markFailed"
    <3>1. Count(e, "markFailed")' = failing
      BY <1>4, <2>5 DEF One
    <3> QED BY <1>2, <1>3, <2>5, <3>1 DEF Rounds
  <2> QED BY <2>3, <2>4, <2>5
<1>7. Owed(e) = (IF rows[e].status = "published"
                   THEN send ELSE Round - sent - failing) + rounds
  BY <1>1, <1>2 DEF Owed
<1>8. Owed(e)' = (IF rows'[e].status = "published"
                    THEN Count(e, "send")'
                    ELSE Round - Count(e, "markPublished")' - Count(e, "markFailed")')
                 + Round * Count(e, "markFailed")'
  BY DEF Owed, Round
<1>9. Owed(e)' =
        (IF rows'[e].status = "published"
           THEN send + One(Role(s, e)' = "send") - One(Role(s, e) = "send")
           ELSE Round
                  - (sent + One(Role(s, e)' = "markPublished")
                          - One(Role(s, e) = "markPublished"))
                  - (failing + One(Role(s, e)' = "markFailed")
                             - One(Role(s, e) = "markFailed")))
        + (rounds + Rounds(Role(s, e)' = "markFailed")
                  - Rounds(Role(s, e) = "markFailed"))
  BY <1>4, <1>6, <1>8, Zenon
<1> QED BY <1>3, <1>5, <1>7, <1>9

\* What the change of one batch's role does to what is owed.
LEMMA RolesOwe ==
    ASSUME CInv, QueuesTyped', FirstBatchIsAlone', NEW s \in Slots, NEW e \in Events,
           \A r \in Slots : r # s => batch'[r] = batch[r],
           configured' = configured
    PROVE  /\ Owed(e) \in Nat /\ Owed(e)' \in Nat /\ Round \in Nat \ {0}
           /\ (rows'[e].status = "published" <=> rows[e].status = "published") =>
                /\ ~configured => Owed(e)' = Owed(e)
                /\ Role(s, e)' = Role(s, e) => Owed(e)' = Owed(e)
                /\ Role(s, e) = "none" /\ Role(s, e)' = "send"
                     /\ rows[e].status # "published" => Owed(e)' = Owed(e)
                /\ Role(s, e) = "send" /\ Role(s, e)' = "none" => Owed(e)' <= Owed(e)
                /\ configured /\ Role(s, e) = "send" /\ Role(s, e)' = "markPublished" =>
                     Owed(e)' + 1 = Owed(e)
                /\ configured /\ Role(s, e) = "send" /\ Role(s, e)' = "markFailed" =>
                     Owed(e)' + 1 = Owed(e) + Round
                /\ Role(s, e) = "markPublished" /\ Role(s, e)' = "markFailed" =>
                     Owed(e)' <= Owed(e) + Round
                /\ Role(s, e) = "markFailed" /\ Role(s, e)' = "none" =>
                     Owed(e)' <= Owed(e)
           /\ configured /\ rows'[e].status = "published" =>
                (Role(s, e) = "markPublished" /\ Role(s, e)' = "none" => Owed(e)' <= Owed(e))
           /\ configured /\ rows'[e].status # "published" =>
                (Role(s, e) = "markFailed" /\ Role(s, e)' = "none" => Owed(e)' <= Owed(e))
<1> DEFINE is == Role(s, e)'
           was == Role(s, e)
<1>1. OwedTyped'
  BY OwedIsNat, PTL
<1>2. Owed(e) \in Nat /\ Owed(e)' \in Nat /\ Round \in Nat \ {0}
  BY <1>1, OwedIsNat, CountType DEF CInv, OwedTyped
<1>3. CASE ~configured
  <2>1. (rows'[e].status = "published" <=> rows[e].status = "published") =>
           Owed(e)' = Owed(e)
    BY <1>3 DEF Owed, Round
  <2> QED BY <1>2, <1>3, <2>1
<1>4. CASE configured
  <2>1. PICK send, sent, failing, rounds \in Nat :
          /\ send + sent + failing <= Round
          /\ was = "markFailed" => failing >= 1
          /\ Owed(e) = (IF rows[e].status = "published"
                          THEN send ELSE Round - sent - failing) + rounds
          /\ Owed(e)' =
               (IF rows'[e].status = "published"
                  THEN send + One(is = "send") - One(was = "send")
                  ELSE Round - (sent + One(is = "markPublished") - One(was = "markPublished"))
                             - (failing + One(is = "markFailed") - One(was = "markFailed")))
               + (rounds + Rounds(is = "markFailed") - Rounds(was = "markFailed"))
    BY <1>4, OwedAfter
  <2> HIDE DEF is, was
  <2>2. /\ is = was => Owed(e)' = (IF rows'[e].status = "published"
                                     THEN send ELSE Round - sent - failing) + rounds
        /\ was = "none" /\ is = "send" /\ rows'[e].status # "published" =>
             Owed(e)' = (Round - sent - failing) + rounds
        /\ was = "send" /\ is = "none" =>
             Owed(e)' = (IF rows'[e].status = "published"
                           THEN send - 1 ELSE Round - sent - failing) + rounds
        /\ was = "send" /\ is = "markPublished" =>
             Owed(e)' = (IF rows'[e].status = "published"
                           THEN send - 1 ELSE Round - sent - 1 - failing) + rounds
        /\ was = "send" /\ is = "markFailed" =>
             Owed(e)' = (IF rows'[e].status = "published"
                           THEN send - 1 ELSE Round - sent - failing - 1) + rounds + Round
        /\ was = "markPublished" /\ is = "markFailed" =>
             Owed(e)' = (IF rows'[e].status = "published"
                           THEN send ELSE Round - sent - failing) + rounds + Round
        /\ was = "markFailed" /\ is = "none" =>
             Owed(e)' = (IF rows'[e].status = "published"
                           THEN send ELSE Round - sent - failing + 1) + rounds - Round
        /\ was = "markPublished" /\ is = "none" =>
             Owed(e)' = (IF rows'[e].status = "published"
                           THEN send ELSE Round - sent + 1 - failing) + rounds
    BY <1>2, <2>1 DEF One, Rounds
  <2>3. (rows'[e].status = "published" <=> rows[e].status = "published") =>
           /\ is = was => Owed(e)' = Owed(e)
           /\ was = "none" /\ is = "send" /\ rows[e].status # "published" => Owed(e)' = Owed(e)
           /\ was = "send" /\ is = "none" => Owed(e)' <= Owed(e)
           /\ was = "send" /\ is = "markPublished" => Owed(e)' + 1 = Owed(e)
           /\ was = "send" /\ is = "markFailed" => Owed(e)' + 1 = Owed(e) + Round
           /\ was = "markPublished" /\ is = "markFailed" => Owed(e)' <= Owed(e) + Round
           /\ was = "markFailed" /\ is = "none" => Owed(e)' <= Owed(e)
    BY <1>2, <2>1, <2>2
  <2>4. rows'[e].status = "published" =>
           (was = "markPublished" /\ is = "none" => Owed(e)' <= Owed(e))
    BY <1>2, <2>1, <2>2
  <2>5. rows'[e].status # "published" =>
           (was = "markFailed" /\ is = "none" => Owed(e)' <= Owed(e))
    BY <1>2, <2>1, <2>2
  <2> QED BY <1>2, <1>4, <2>3, <2>4, <2>5 DEF is, was
<1> QED BY <1>3, <1>4

\* A batch in place of another one.
LEMMA BatchReplaced ==
    ASSUME CInv, NEW s \in Slots, NEW b, Formed(b), batch' = [batch EXCEPT ![s] = b]
    PROVE  /\ QueuesTyped' /\ batch'[s] = b
           /\ \A r \in Slots : r # s => batch'[r] = batch[r]
           /\ \A e : Role(s, e)' = RoleIn(b, e)
           /\ \A r \in Slots : r # s => \A e : Role(r, e)' = Role(r, e)
<1>1. /\ batch' = [r \in Slots |-> batch'[r]] /\ batch'[s] = b
      /\ \A r \in Slots : r # s => batch'[r] = batch[r]
  BY DEF CInv, QueuesTyped
<1>2. QueuesTyped'
  BY <1>1 DEF CInv, QueuesTyped
<1> QED BY <1>1, <1>2 DEF Role

\* A batch at work awaits its next call.
LEMMA BatchAwaits ==
    ASSUME CInv, NEW s \in Slots, batch[s].step \in {"publish", "markPublished", "markFailed"},
           NEW step \in {"publish", "markPublished", "markFailed"}, Await(s, step)
    PROVE  /\ QueuesTyped' /\ batch'[s].step = step /\ Current(s) \in Events
           /\ \A r \in Slots : r # s => batch'[r] = batch[r]
           /\ Role(s, Current(s)) = IF batch[s].step = "publish" THEN "send" ELSE batch[s].step
           /\ \A e : e = Current(s) => Role(s, e)' = IF step = "publish" THEN "send" ELSE step
           /\ \A e : e # Current(s) => /\ Role(s, e)' = Role(s, e)
                                       /\ Role(s, e) \in {"none", "send"}
           /\ \A r \in Slots : r # s => \A e : Role(r, e)' = Role(r, e)
<1> DEFINE b == batch[s]
           next == [b EXCEPT !.step = step]
<1>1. Formed(b) /\ b.queue # <<>>
  BY DEF CInv, QueuesTyped, Formed
<1>2. batch' = [batch EXCEPT ![s] = next]
  BY <1>1 DEF CInv, QueuesTyped, Await, Formed
<1>3. /\ Formed(next) /\ Head(b.queue) \in Events
      /\ next.step = step
      /\ RoleIn(b, Head(b.queue)) = IF b.step = "publish" THEN "send" ELSE b.step
      /\ RoleIn(next, Head(b.queue)) = IF step = "publish" THEN "send" ELSE step
      /\ \A e : e # Head(b.queue) => /\ RoleIn(b, e) \in {"none", "send"}
                                     /\ RoleIn(next, e) = RoleIn(b, e)
  BY <1>1, BusyBatch
<1> HIDE DEF next
<1>4. /\ QueuesTyped' /\ batch'[s] = next
      /\ \A r \in Slots : r # s => batch'[r] = batch[r]
      /\ \A e : Role(s, e)' = RoleIn(next, e)
      /\ \A r \in Slots : r # s => \A e : Role(r, e)' = Role(r, e)
  BY <1>2, <1>3, BatchReplaced
<1> QED BY <1>3, <1>4 DEF Current, Role

\* A batch is done with its row.
LEMMA BatchGoesOn ==
    ASSUME CInv, NEW s \in Slots, batch[s].step \in {"markPublished", "markFailed"}, NextRow(s)
    PROVE  /\ QueuesTyped' /\ batch'[s].step \in {"idle", "publish"} /\ Current(s) \in Events
           /\ \A r \in Slots : r # s => batch'[r] = batch[r]
           /\ Role(s, Current(s)) = batch[s].step
           /\ \A e : e = Current(s) => Role(s, e)' = "none"
           /\ \A e : e # Current(s) => Role(s, e)' = Role(s, e)
           /\ \A r \in Slots : r # s => \A e : Role(r, e)' = Role(r, e)
<1> DEFINE b == batch[s]
           next == BatchOf(Tail(b.queue))
<1>1. Formed(b) /\ b.queue # <<>>
  BY DEF CInv, QueuesTyped, Formed
<1>2. batch' = [batch EXCEPT ![s] = next]
  BY DEF NextRow
<1>3. /\ Head(b.queue) \in Events
      /\ RoleIn(b, Head(b.queue)) = b.step
  BY <1>1, BusyBatch
<1>4. /\ Formed(next) /\ next.step \in {"idle", "publish"}
      /\ RoleIn(next, Head(b.queue)) = "none"
      /\ \A e : e # Head(b.queue) => RoleIn(next, e) = RoleIn(b, e)
  BY <1>1, NextBatch
<1> HIDE DEF next
<1>5. /\ QueuesTyped' /\ batch'[s] = next
      /\ \A r \in Slots : r # s => batch'[r] = batch[r]
      /\ \A e : Role(s, e)' = RoleIn(next, e)
      /\ \A r \in Slots : r # s => \A e : Role(r, e)' = Role(r, e)
  BY <1>2, <1>4, BatchReplaced
<1> QED BY <1>3, <1>4, <1>5 DEF Current, Role

\* A batch at work neither opens another one nor ends start() before it is idle.
LEMMA FirstStaysAlone ==
    ASSUME CInv, NEW s \in Slots, ~Idle(s), \A r \in Slots : r # s => batch'[r] = batch[r],
           worker # "down", worker' # "down", interval' = interval,
           \/ startup' = startup
           \/ /\ startup' = IF s = "start" THEN "none" ELSE startup
              /\ batch'[s].step = "idle"
    PROVE  FirstBatchIsAlone'
<1>1. CASE s = "start"
  <2>1. startup = "first" /\ ~interval
    BY <1>1 DEF CInv, FirstBatchIsAlone
  <2>2. \A r \in Ticks : batch'[r] = batch[r] /\ batch[r].step = "idle"
    BY <1>1, <2>1, PublisherAssumption DEF CInv, FirstBatchIsAlone, Slots, Idle
  <2> QED BY <1>1, <2>1, <2>2 DEF FirstBatchIsAlone, Idle
<1>2. CASE s # "start"
  <2>1. startup = "done" /\ startup' = "done"
    BY <1>2 DEF CInv, FirstBatchIsAlone, Slots
  <2>2. batch'["start"] = batch["start"]
    BY <1>2 DEF Slots
  <2> QED BY <1>2, <2>1, <2>2 DEF CInv, FirstBatchIsAlone, Idle
<1> QED BY <1>1, <1>2

\* A batch lists rows that are not published only.
LEMMA ListsAreAccounted ==
    ASSUME CInv, NEW s \in Slots, List(s)
    PROVE  CInv'
<1>1. /\ batch[s].step = "list" /\ worker # "down" /\ ~Idle(s)
      /\ batch' = [batch EXCEPT ![s] = BatchOf(Listed)]
      /\ rows' = rows /\ copies' = copies /\ disruptions' = disruptions
      /\ worker' = worker /\ startup' = startup /\ interval' = interval
      /\ configured' = configured /\ signalled' = signalled
  BY DEF List, Awaits, process, Idle
<1>2. PICK b : /\ b = BatchOf(Listed) /\ Formed(b) /\ b.step \in {"idle", "publish"}
               /\ \A e : RoleIn(b, e) \in {"none", "send"}
               /\ \A e : RoleIn(b, e) = "send" => e \in Pending
  BY ListedBatch
<1>3. /\ QueuesTyped' /\ batch'[s] = b
      /\ \A r \in Slots : r # s => batch'[r] = batch[r]
      /\ \A e : Role(s, e)' = RoleIn(b, e)
      /\ \A r \in Slots : r # s => \A e : Role(r, e)' = Role(r, e)
  <2>1. Formed(b) /\ batch' = [batch EXCEPT ![s] = b]
    BY <1>1, <1>2
  <2> QED BY <2>1, BatchReplaced
<1>4. FirstBatchIsAlone'
  BY <1>1, <1>3, FirstStaysAlone
<1>5. \A e \in Events : /\ Role(s, e) = "none" /\ Role(s, e)' \in {"none", "send"}
                        /\ Role(s, e)' = "send" => rows[e].status # "published"
  <2>1. \A e \in Pending : rows[e].status # "published"
    BY DEF Pending, Listable
  <2> QED BY <1>1, <1>2, <1>3, <2>1, IdleHasNoRole DEF CInv, QueuesTyped
<1>6. NothingSentUnconfigured'
  BY <1>1, <1>2, <1>3, <1>5 DEF CInv, NothingSentUnconfigured
<1>7. ASSUME NEW e \in Events
      PROVE  Accounted(e)'
  <2>1. /\ Owed(e) \in Nat /\ Owed(e)' \in Nat /\ Owed(e)' = Owed(e)
    BY <1>1, <1>3, <1>4, <1>5, RolesOwe
  <2>2. Kept' = Kept /\ Kept \in Nat /\ copies[e] \in Nat
    BY <1>1, CountType DEF CInv, Kept, Round
  <2>3. copies'[e] + Owed(e)' + Kept' <= copies[e] + Owed(e) + Kept
    BY <1>1, <2>1, <2>2
  <2> QED BY <1>1, <2>1, <2>2, <2>3, PaidFor
<1> QED BY <1>1, <1>3, <1>4, <1>6, <1>7 DEF CInv, CopiesAreAccounted

\* A batch that is given up owes no more than before.
LEMMA RejectionsAreAccounted ==
    ASSUME CInv, NEW s \in Slots, ListFails(s) \/ MarkFailedFails(s)
    PROVE  CInv'
<1>1. /\ batch[s].step \in {"list", "markFailed"} /\ worker # "down" /\ ~Idle(s)
      /\ batch' = [batch EXCEPT ![s] = NoBatch]
      /\ rows' = rows /\ copies' = copies
      /\ disruptions' = disruptions + 1 /\ disruptions' \in Nat
      /\ worker' = "closing" /\ interval' = interval
      /\ startup' = IF s = "start" THEN "none" ELSE startup
      /\ configured' = configured /\ signalled' = signalled
  BY DEF CInv, ListFails, MarkFailedFails, Reject, Disrupt, Awaits, Idle
<1>2. PICK b : /\ b = NoBatch /\ Formed(b) /\ b.step = "idle"
               /\ \A e : RoleIn(b, e) = "none"
  BY EmptyBatch DEF NoBatch
<1>3. /\ QueuesTyped' /\ batch'[s] = b
      /\ \A r \in Slots : r # s => batch'[r] = batch[r]
      /\ \A e : Role(s, e)' = RoleIn(b, e)
      /\ \A r \in Slots : r # s => \A e : Role(r, e)' = Role(r, e)
  <2>1. Formed(b) /\ batch' = [batch EXCEPT ![s] = b]
    BY <1>1, <1>2
  <2> QED BY <2>1, BatchReplaced
<1>4. FirstBatchIsAlone'
  BY <1>1, <1>2, <1>3, FirstStaysAlone
<1>5. \A e \in Events : Role(s, e) \in {"none", "send", "markFailed"} /\ Role(s, e)' = "none"
  <2>1. \A e : RoleIn(batch[s], e) \in {"none", "send", "markFailed"}
    <3>1. CASE batch[s].step = "list"
      BY <1>1, <3>1, IdleHasNoRole DEF CInv, QueuesTyped, Role
    <3>2. CASE batch[s].step = "markFailed"
      BY <3>2 DEF RoleIn
    <3> QED BY <1>1, <3>1, <3>2
  <2> QED BY <1>2, <1>3, <2>1 DEF Role
<1>6. NothingSentUnconfigured'
  BY <1>1, <1>2, <1>3, <1>5 DEF CInv, NothingSentUnconfigured
<1>7. ASSUME NEW e \in Events
      PROVE  Accounted(e)'
  <2>1. /\ Owed(e) \in Nat /\ Owed(e)' \in Nat /\ Owed(e)' <= Owed(e) /\ Round \in Nat
    BY <1>1, <1>3, <1>4, <1>5, RolesOwe
  <2>2. Kept' = Kept /\ Kept \in Nat /\ copies[e] \in Nat
    BY <1>1, CountType DEF CInv, Kept, Round
  <2>3. copies'[e] + Owed(e)' + Kept' <= (copies[e] + Owed(e) + Kept) + Round
    BY <1>1, <2>1, <2>2
  <2> QED BY <1>1, <2>1, <2>2, <2>3, PaidFor
<1> QED BY <1>1, <1>3, <1>4, <1>6, <1>7 DEF CInv, CopiesAreAccounted

\* A copy is sent out of what was owed; a call that fails is paid for.
LEMMA SendsAreAccounted ==
    ASSUME CInv, NEW s \in Slots, Publish(s) \/ PublishFails(s) \/ PublishSkipped(s)
    PROVE  CInv'
<1> DEFINE e0 == Current(s)
<1>1. /\ batch[s].step = "publish" /\ worker # "down" /\ ~Idle(s)
      /\ rows' = rows /\ disruptions' \in Nat
      /\ worker' = worker /\ startup' = startup /\ interval' = interval
      /\ configured' = configured /\ signalled' = signalled
  BY DEF CInv, Publish, PublishFails, PublishSkipped, Disrupt, Awaits, process, Idle
<1>2. PICK step \in {"markPublished", "markFailed"} :
        /\ Await(s, step)
        /\ \/ /\ Publish(s) /\ step = "markPublished"
           \/ /\ PublishFails(s) \/ PublishSkipped(s)
              /\ step = "markFailed"
  BY DEF Publish, PublishFails, PublishSkipped
<1>3. /\ QueuesTyped' /\ batch'[s].step = step /\ e0 \in Events
      /\ \A r \in Slots : r # s => batch'[r] = batch[r]
      /\ Role(s, e0) = "send" /\ \A e : e = e0 => Role(s, e)' = step
      /\ \A e : e # e0 => Role(s, e)' = Role(s, e)
      /\ \A r \in Slots : r # s => \A e : Role(r, e)' = Role(r, e)
  BY <1>1, <1>2, BatchAwaits
<1>4. FirstBatchIsAlone'
  BY <1>1, <1>3, FirstStaysAlone
<1> HIDE DEF e0
<1>5. NothingSentUnconfigured'
  <2>1. ~configured => step = "markFailed" /\ rows[e0].status # "published"
    BY <1>2, <1>3 DEF CInv, NothingSentUnconfigured, Publish
  <2> QED BY <1>1, <1>3, <2>1 DEF CInv, NothingSentUnconfigured
<1>6. /\ copies' \in [Events -> Nat]
      /\ \A e \in Events : e # e0 => copies'[e] = copies[e]
      /\ \/ Publish(s) /\ copies'[e0] = copies[e0] + 1
         \/ PublishFails(s) /\ copies'[e0] <= copies[e0] + 1
         \/ PublishSkipped(s) /\ copies'[e0] = copies[e0]
  BY <1>2, <1>3 DEF CInv, Publish, PublishFails, PublishSkipped, e0
<1>7. \/ disruptions' = disruptions /\ ~PublishFails(s)
      \/ disruptions' = disruptions + 1 /\ PublishFails(s) /\ configured /\ step = "markFailed"
  BY <1>2 DEF CInv, Publish, PublishFails, PublishSkipped, Disrupt
<1>8. ASSUME NEW e \in Events
      PROVE  Accounted(e)'
  <2>1. /\ Owed(e) \in Nat /\ Owed(e)' \in Nat /\ Round \in Nat \ {0}
        /\ e # e0 => Owed(e)' = Owed(e)
        /\ ~configured => Owed(e)' = Owed(e)
        /\ configured /\ e = e0 /\ step = "markPublished" => Owed(e)' + 1 = Owed(e)
        /\ configured /\ e = e0 /\ step = "markFailed" => Owed(e)' + 1 = Owed(e) + Round
    BY <1>1, <1>3, <1>4, RolesOwe
  <2>2. Kept' = Kept /\ Kept \in Nat /\ copies[e] \in Nat /\ copies'[e] \in Nat
    BY <1>1, <1>6, CountType DEF CInv, Kept, Round
  <2>3. CASE e # e0
    <3>1. copies'[e] + Owed(e)' + Kept' <= copies[e] + Owed(e) + Kept
      BY <1>6, <2>1, <2>2, <2>3
    <3>2. copies'[e] + Owed(e)' + Kept' <= (copies[e] + Owed(e) + Kept) + Round
      BY <2>1, <2>2, <3>1
    <3> QED BY <1>7, <2>1, <2>2, <3>1, <3>2, PaidFor
  <2>4. CASE e = e0 /\ ~PublishFails(s)
    <3>1. copies'[e] + Owed(e)' + Kept' <= copies[e] + Owed(e) + Kept
      <4>1. CASE Publish(s)
        <5>1. Owed(e)' + 1 = Owed(e)
          BY <1>2, <2>1, <2>4, <4>1 DEF Publish, PublishSkipped
        <5>2. copies'[e] <= copies[e] + 1
          BY <1>6, <2>2, <2>4
        <5> QED BY <2>1, <2>2, <5>1, <5>2
      <4>2. CASE PublishSkipped(s)
        <5>1. Owed(e)' = Owed(e)
          BY <2>1, <4>2 DEF PublishSkipped
        <5>2. copies'[e] = copies[e]
          BY <1>6, <2>2, <2>4, <4>2 DEF Publish, PublishSkipped
        <5> QED BY <2>1, <2>2, <5>1, <5>2
      <4> QED BY <1>2, <2>4, <4>1, <4>2
    <3> QED BY <1>7, <2>1, <2>2, <2>4, <3>1, PaidFor
  <2>5. CASE e = e0 /\ PublishFails(s)
    <3>1. Owed(e)' + 1 = Owed(e) + Round
      BY <1>7, <2>1, <2>5
    <3>2. copies'[e] <= copies[e] + 1
      BY <1>6, <2>2, <2>5
    <3>3. copies'[e] + Owed(e)' + Kept' <= (copies[e] + Owed(e) + Kept) + Round
      BY <2>1, <2>2, <3>1, <3>2
    <3> QED BY <1>7, <2>1, <2>2, <2>5, <3>3, PaidFor
  <2> QED BY <2>3, <2>4, <2>5
<1> QED BY <1>1, <1>3, <1>4, <1>5, <1>6, <1>8 DEF CInv, CopiesAreAccounted

\* An UPDATE that fails is paid for.
LEMMA FailedMarksAreAccounted ==
    ASSUME CInv, NEW s \in Slots, MarkPublishedFails(s)
    PROVE  CInv'
<1> DEFINE e0 == Current(s)
<1>1. /\ batch[s].step = "markPublished" /\ worker # "down" /\ ~Idle(s)
      /\ rows' = rows /\ copies' = copies
      /\ disruptions' = disruptions + 1 /\ disruptions' \in Nat
      /\ worker' = worker /\ startup' = startup /\ interval' = interval
      /\ configured' = configured /\ signalled' = signalled
      /\ Await(s, "markFailed")
  BY DEF CInv, MarkPublishedFails, Disrupt, Awaits, process, Idle
<1>2. /\ QueuesTyped' /\ batch'[s].step = "markFailed" /\ e0 \in Events
      /\ \A r \in Slots : r # s => batch'[r] = batch[r]
      /\ Role(s, e0) = "markPublished" /\ \A e : e = e0 => Role(s, e)' = "markFailed"
      /\ \A e : e # e0 => Role(s, e)' = Role(s, e)
      /\ \A r \in Slots : r # s => \A e : Role(r, e)' = Role(r, e)
  BY <1>1, BatchAwaits
<1>3. FirstBatchIsAlone'
  BY <1>1, <1>2, FirstStaysAlone
<1> HIDE DEF e0
<1>4. NothingSentUnconfigured'
  BY <1>1 DEF CInv, NothingSentUnconfigured
<1>5. ASSUME NEW e \in Events
      PROVE  Accounted(e)'
  <2>1. /\ Owed(e) \in Nat /\ Owed(e)' \in Nat /\ Round \in Nat \ {0}
        /\ e # e0 => Owed(e)' = Owed(e)
        /\ e = e0 => Owed(e)' <= Owed(e) + Round
    BY <1>1, <1>2, <1>3, RolesOwe
  <2>2. Kept' = Kept /\ Kept \in Nat /\ copies[e] \in Nat
    BY <1>1, CountType DEF CInv, Kept, Round
  <2>3. copies'[e] + Owed(e)' + Kept' <= (copies[e] + Owed(e) + Kept) + Round
    BY <1>1, <2>1, <2>2
  <2> QED BY <1>1, <2>1, <2>2, <2>3, PaidFor
<1> QED BY <1>1, <1>2, <1>3, <1>4, <1>5 DEF CInv, CopiesAreAccounted

\* A row that is marked owes no more than before: as published only to the batches that
\* have listed it, as failed what the batch was counted for.
LEMMA MarksAreAccounted ==
    ASSUME CInv, NEW s \in Slots, MarkPublished(s) \/ MarkFailed(s)
    PROVE  CInv'
<1> DEFINE e0 == Current(s)
<1>1. /\ batch[s].step \in {"markPublished", "markFailed"} /\ worker # "down" /\ ~Idle(s)
      /\ copies' = copies /\ disruptions' = disruptions
      /\ worker' = worker /\ startup' = startup /\ interval' = interval
      /\ configured' = configured /\ signalled' = signalled
      /\ NextRow(s)
  BY DEF MarkPublished, MarkFailed, Awaits, process, Idle
<1>2. /\ QueuesTyped' /\ batch'[s].step \in {"idle", "publish"} /\ e0 \in Events
      /\ \A r \in Slots : r # s => batch'[r] = batch[r]
      /\ Role(s, e0) = batch[s].step /\ \A e : e = e0 => Role(s, e)' = "none"
      /\ \A e : e # e0 => Role(s, e)' = Role(s, e)
      /\ \A r \in Slots : r # s => \A e : Role(r, e)' = Role(r, e)
  BY <1>1, BatchGoesOn
<1>3. FirstBatchIsAlone'
  BY <1>1, <1>2, FirstStaysAlone
<1>4. /\ rows' \in [Events -> [status : Statuses, due : BOOLEAN]]
      /\ \A e \in Events : e # e0 => rows'[e] = rows[e]
      /\ batch[s].step = "markPublished" <=> rows'[e0].status = "published"
  <2>1. CASE MarkPublished(s)
    <3>1. [status |-> "published", due |-> TRUE] \in [status : Statuses, due : BOOLEAN]
      BY DEF Statuses
    <3>2. rows' = [rows EXCEPT ![e0] = [status |-> "published", due |-> TRUE]]
      BY <2>1 DEF MarkPublished
    <3>3. batch[s].step = "markPublished"
      BY <2>1 DEF MarkPublished, Awaits
    <3> HIDE DEF e0
    <3> QED BY <1>2, <3>1, <3>2, <3>3 DEF CInv
  <2>2. CASE MarkFailed(s)
    <3>1. [status |-> "failed", due |-> FALSE] \in [status : Statuses, due : BOOLEAN]
      BY DEF Statuses
    <3>2. rows' = [rows EXCEPT ![e0] = [status |-> "failed", due |-> FALSE]]
      BY <2>2 DEF MarkFailed
    <3>3. batch[s].step = "markFailed"
      BY <2>2 DEF MarkFailed, Awaits
    <3> HIDE DEF e0
    <3> QED BY <1>2, <3>1, <3>2, <3>3 DEF CInv
  <2> QED BY <2>1, <2>2
<1> HIDE DEF e0
<1>5. ~configured => batch[s].step = "markFailed" /\ rows[e0].status # "published"
                     /\ rows'[e0].status # "published"
  BY <1>1, <1>2, <1>4 DEF CInv, NothingSentUnconfigured
<1>6. NothingSentUnconfigured'
  <2>1. SUFFICES ASSUME ~configured
                 PROVE  \A r \in Slots :
                          /\ batch'[r].step # "markPublished"
                          /\ \A e \in Events : rows'[e].status = "published" =>
                               Role(r, e)' = "none"
    BY <1>1 DEF NothingSentUnconfigured
  <2>2. \A r \in Slots : batch'[r].step # "markPublished"
    BY <1>2, <2>1 DEF CInv, NothingSentUnconfigured
  <2>3. \A e \in Events : rows'[e].status = "published" => rows[e].status = "published" /\ e # e0
    BY <1>4, <1>5, <2>1
  <2>4. \A r \in Slots, e \in Events : e # e0 => Role(r, e)' = Role(r, e)
    BY <1>2
  <2> QED BY <2>1, <2>2, <2>3, <2>4 DEF CInv, NothingSentUnconfigured
<1>7. ASSUME NEW e \in Events
      PROVE  Accounted(e)'
  <2>1. /\ Owed(e) \in Nat /\ Owed(e)' \in Nat /\ Owed(e)' <= Owed(e)
    <3>1. CASE e # e0
      <4>1. rows'[e].status = "published" <=> rows[e].status = "published"
        BY <1>4, <3>1
      <4>2. Owed(e) \in Nat /\ Owed(e)' \in Nat /\ Owed(e)' = Owed(e)
        BY <1>1, <1>2, <1>3, <3>1, <4>1, RolesOwe
      <4> QED BY <4>2
    <3>2. CASE e = e0 /\ ~configured
      <4>1. rows'[e].status = "published" <=> rows[e].status = "published"
        BY <1>5, <3>2
      <4>2. Owed(e) \in Nat /\ Owed(e)' \in Nat /\ Owed(e)' = Owed(e)
        BY <1>1, <1>2, <1>3, <3>2, <4>1, RolesOwe
      <4> QED BY <4>2
    <3>3. CASE e = e0 /\ configured
      <4>1. \/ rows'[e].status = "published" /\ Role(s, e) = "markPublished"
            \/ rows'[e].status # "published" /\ Role(s, e) = "markFailed"
        BY <1>1, <1>2, <1>4, <3>3
      <4>2. Role(s, e)' = "none"
        BY <1>2, <3>3
      <4> QED BY <1>1, <1>2, <1>3, <3>3, <4>1, <4>2, RolesOwe
    <3> QED BY <3>1, <3>2, <3>3
  <2>2. Kept' = Kept /\ Kept \in Nat /\ copies[e] \in Nat
    BY <1>1, CountType DEF CInv, Kept, Round
  <2>3. copies'[e] + Owed(e)' + Kept' <= copies[e] + Owed(e) + Kept
    BY <1>1, <2>1, <2>2
  <2> QED BY <1>1, <2>1, <2>2, <2>3, PaidFor
<1> QED BY <1>1, <1>2, <1>3, <1>4, <1>6, <1>7 DEF CInv, CopiesAreAccounted

\* At first there is no batch and no copy, and every event is owed one round.
LEMMA CInit == Init => CInv
<1> SUFFICES ASSUME Init PROVE CInv
  OBVIOUS
<1>1. \A s \in Slots : batch[s] = [queue |-> <<>>, step |-> "idle"]
  BY DEF Init, NoBatch
<1>2. QueuesTyped
  BY <1>1, EmptyBatch DEF Init, QueuesTyped
<1>3. \A s \in Slots, e \in Events : Role(s, e) = "none"
  BY <1>1, EmptyBatch DEF Role
<1>4. FirstBatchIsAlone /\ NothingSentUnconfigured
  BY <1>1, <1>3 DEF Init, FirstBatchIsAlone, NothingSentUnconfigured, Idle, Slots
<1>5. ASSUME NEW e \in Events
      PROVE  Accounted(e)
  <2>1. /\ Count(e, "send") = 0 /\ Count(e, "markPublished") = 0 /\ Count(e, "markFailed") = 0
    BY <1>3, NothingToDo
  <2>2. Round \in Nat /\ Round * 0 = 0 /\ Round * (1 + 0) = Round
    BY CountType
  <2>3. Owed(e) = Round
    BY <2>1, <2>2 DEF Init, Owed
  <2>4. copies[e] = 0 /\ Kept = 0 /\ disruptions = 0
    BY DEF Init, Kept
  <2> QED BY <2>2, <2>3, <2>4 DEF Accounted
<1> QED BY <1>2, <1>4, <1>5 DEF Init, CInv, Statuses, CopiesAreAccounted

\* The account holds for good.
LEMMA CStep == CInv /\ [Next]_vars => CInv'
<1> SUFFICES ASSUME CInv, [Next]_vars PROVE CInv'
  OBVIOUS
<1>1. ASSUME NEW e \in Events, CommitRow(e) \/ BackoffElapses(e)
      PROVE  CInv'
  BY <1>1, RowsAreAccounted
<1>2. ASSUME NEW s \in Slots, BatchStep(s) \/ BatchFailure(s)
      PROVE  CInv'
  BY <1>2, ListsAreAccounted, RejectionsAreAccounted, SendsAreAccounted,
     FailedMarksAreAccounted, MarksAreAccounted DEF BatchStep, BatchFailure
<1>3. CASE Start \/ \E s \in Ticks : Tick(s)
  BY <1>3, BeginningsAreAccounted
<1>4. CASE SetTimer \/ Signal \/ Stop
  BY <1>4, SignalsAreAccounted
<1>5. CASE Exit \/ KilledAfterSignal \/ Killed
  BY <1>5, EndsAreAccounted
<1>6. CASE UNCHANGED vars
  <2>1. /\ rows' = rows /\ copies' = copies /\ disruptions' = disruptions /\ batch' = batch
        /\ configured' = configured /\ worker' = worker /\ startup' = startup
        /\ interval' = interval /\ signalled' = signalled
    BY <1>6 DEF vars, process
  <2>2. QueuesTyped' /\ FirstBatchIsAlone' /\ NothingSentUnconfigured'
    BY <2>1 DEF CInv, QueuesTyped, FirstBatchIsAlone, NothingSentUnconfigured, Idle, Role
  <2>3. \A e \in Events : Owed(e)' = Owed(e)
    BY <2>1, OwedKept DEF Role
  <2>4. CopiesAreAccounted'
    BY <2>1, <2>3 DEF CInv, CopiesAreAccounted, Accounted, Kept, Round
  <2> QED BY <2>1, <2>2, <2>4 DEF CInv
<1> QED BY <1>1, <1>2, <1>3, <1>4, <1>5, <1>6 DEF Next

-----------------------------------------------------------------------------
\* However batches overlap, fail and are cut short, the topic holds an event at most once
\* for every batch the timer can open and every disruption (publishBatch has no lock, and
\* neither UPDATE looks at the status the row has by then).
THEOREM CopiesStayBounded == Spec => []DuplicatesAreBounded
<1>1. CInv => DuplicatesAreBounded
  <2> SUFFICES ASSUME CInv, NEW e \in Events
               PROVE  copies[e] <= Round * (1 + disruptions)
    BY DEF DuplicatesAreBounded, Round
  <2>1. copies[e] + Owed(e) + Kept <= Round * (1 + disruptions)
    BY DEF CInv, CopiesAreAccounted, Accounted
  <2>2. copies[e] \in Nat /\ Owed(e) \in Nat /\ Kept \in Nat /\ disruptions \in Nat
    BY OwedAtRest, CountType DEF CInv, Kept
  <2>3. PICK paid \in Nat : paid = Round * (1 + disruptions)
    <3>1. 1 + disruptions \in Nat
      BY <2>2
    <3> QED BY <3>1, OneMoreRound
  <2> QED BY <2>1, <2>2, <2>3
<1> QED BY <1>1, CInit, CStep, PTL DEF Spec

================================================================================
