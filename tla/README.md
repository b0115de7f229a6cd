# Verification of the No Reboot HQ config control plane

TLA+ models of the parts of this repository whose correctness depends on the
order in which things happen, the TLC runs that check them on small instances,
and TLAPS proofs of the results that hold for every instance.  Definitions keep
the names of the source; `PROJECT.json` maps each to the lines it translates.

## The system

A dashboard user writes a config value; the API stores it in PostgreSQL with an
immutable version, a revision of the environment, an outbox row and an audit
row; a worker publishes outbox rows to a Kafka topic (Redpanda); API processes
relay the topic to service clients and dashboards as server-sent events; clients
refetch their snapshot.  Around this are webhook deliveries and invitation mails
over BullMQ, and organisations, members and sessions kept by better-auth.

| Component | State it keeps | Operations | Talks to | What is hard | Correct when |
|---|---|---|---|---|---|
| Config repository (`packages/db/src/repositories/config-repository.ts`) | `config_entries`, `config_entry_versions`, `config_environments.revision`, `config_event_outbox`, `audit_logs`, `config_service_tokens` | upsertEntry, rollbackEntry, getEnvironmentSnapshot, createApp, createEnvironment, token operations, outbox listing and marking | PostgreSQL; called by the config service and the publisher | transactions of several statements racing at READ COMMITTED, opposite lock orders, two-statement reads | histories have no gap or fork, one event per revision, no lost update, snapshots not older than they say |
| Config service (`apps/api/src/services/config-service.ts`) | none | permission checks, normalising, encrypting, mapping of errors, client authentication | repository | audit type chosen apart from the event type; revoked tokens | audit agrees with events, revoked tokens are refused |
| Outbox publisher (`apps/api/src/services/config-outbox-publisher.ts`, `worker.ts`) | timer, abort signal, open batches | start, stop, publishBatch, shutdown | repository, Kafka producer | overlapping batches, failures between send and mark, signals, crashes | nothing dropped, repetitions bounded, everything published in the end |
| Event stream and SSE relays (`packages/events`, `routes/v1/client-config.ts`, `routes/v1/config.ts`) | consumer and gauge per connection | subscribe, relay, heartbeat, abort, close | Kafka consumer, HTTP client | abort in the middle of connecting; messages only from the moment of subscription | gauge counts open streams, no consumer outlives its stream |
| Clients (`apps/config-simulator`, `config-simulator-panel.tsx`, `config-workspace.tsx`) | last snapshot, run id, abort controller, log | start, stop, refetch, edit | API | answers of an abandoned run, changes between snapshot and subscription | the client ends with the newest values |
| Webhooks and jobs (`packages/jobs`, `worker.ts`, `webhook-repository.ts`) | `webhook_deliveries`, queue jobs | record event, enqueue, attempt, mark | Redis, receivers | rows without jobs, stalled jobs run twice, stale attempt counts | every delivery is delivered or failed after a bounded number of attempts |
| Invitations and workspaces (`user-service.ts`, `packages/auth`) | organisations, members, invitations, active organisation of a session | create workspace, invite, accept, switch | better-auth | checks before, and side effects after, another service's transaction | one self-created workspace, every acceptance audited |
| Session resolution (`packages/auth/src/session.ts`) | active organisation of the session | resolveAuthContext | better-auth | several reads of a session that changes | role and organisation belong together |
| Pages of the dashboard (`apps/web/proxy.ts`, `lib/auth.ts`, `onboarding-workspace.tsx`, forms) | cookie, location, cached onboarding answer | redirect, sign in and out, switch, onboard | better-auth, API | three places redirect by what each knows | redirects end and keep the destination |
| Server life cycle (`apps/api/src/index.ts`) | shutdown promise | start, shutdown | process, HTTP server | timeouts against open streams | shuts down once and in time |

`PROJECT.json` lists these and the parts left out under `components`, and what is
hard to test about them, at the line where it bites, under `hazards`.

## Modules

| Module | Kind |
|---|---|
| `ConfigStore` | abstract specification: a write appends a version and an event in one step |
| `ConfigRepository` | the transactions and the snapshot read, statement by statement; properties, inductive invariant, refinement mapping |
| `OutboxPublisher` | the publisher and the life of the worker process |
| `ConfigPropagation` | composition: what the repository and the publisher promise, the topic, and a client that loads and watches |
| `ApiServer` | the API process: event streams, their Kafka consumers, the gauge of open streams, shutdown |
| `WebhookDelivery` | endpoints, delivery rows, the webhook queue and its worker |
| `SimulatorPanel` | composition: the browser client of the dashboard and the API that answers it, with tokens created and revoked |
| `ConfigWorkspace` | composition: the configuration page, its query cache and mutations, the API, the event stream and other administrators |
| `Organizations` | resolving a request's workspace and role, creating a workspace, accepting an invitation, in several tabs of one session |
| `Invitations` | composition: the invitation form, the API behind it, the mail job and its worker |
| `Navigation` | the redirects of proxy, server components and onboarding page, and the forms that change session or workspace |
| `EventStreamProofs` | TLAPS proofs about `ApiServer` and `ConfigPropagation`, the two ends of the event stream |
| other `...Proofs` | TLAPS proofs about the module they are named after |
| `MC...` | instances and symmetry sets for TLC; modules without one are run as they are |

Definitions marked *Faulty* are variants of the definition that follows them with
a plausible mistake; no specification uses them.  They are there to show that
each property can fail.

### ConfigRepository

One environment.  The five table variables hold committed rows; what an open
transaction has written is in `tx[c]`, whose `phase` names the statement it will
run next:

| Action | Code |
|---|---|
| `UpsertSelect`, `UpsertConflict` | both SELECTs of `upsertEntry` and the check of `expectedVersion`; the environment's row never disappears, so its SELECT is not a step of its own |
| `RollbackSelect`, `RollbackConflict`, `RollbackEntryNotFound`, `SelectTarget` | the SELECTs of `rollbackEntry` and their errors |
| `WriteEntry`, `InsertVersion`, `UpdateEntry`, `UpdateEnvironment`, `Commit` | the writing statements; a rollback skips the first |
| `Fail`, `DeadlockDetected` | any error of a statement; PostgreSQL's deadlock victim |
| `SnapshotSelectEnvironment`, `SnapshotSelectEntries` | `getEnvironmentSnapshot` |

PostgreSQL is modelled by its documented rules at READ COMMITTED: a SELECT reads
the committed rows when it runs; an UPDATE waits for the holder of the row and
then sees the newest row; an INSERT waits for an open transaction with the same
unique key and fails if the key is committed.  Locks are held to the end, so
`HoldsEntry`, `HoldsVersion` and `HoldsEnvironment` are functions of the phase.
`outcome` is what the last step answered.  A commit whose answer is lost answers
"error".

`Values` stands for value type, value and checksum together.  Descriptions,
change reasons and timestamps are left out.

### OutboxPublisher

`batch[s]` is one call of `publishBatch`: the rows it has left and the call it
awaits.  The slot `"start"` is the batch that `start()` awaits, the others belong
to the timer.  `worker`, `startup`, `interval`, `aborted` are the process, the
progress of `start()`, the timer and the abort signal.  Event numbers are the
order of `created_at`; since that is the time a transaction began, rows appear
in any order.  A failed row is due again when `BackoffElapses`; the length of the
backoff and the attempt counter are left out.  `MaxDisruptions` bounds failed
calls, signals and kills together, so that after them everything works: this is
what the liveness properties assume.  The process is taken to exit when no batch
and no timer is left; connections of the Kafka producer, which the worker never
closes, are assumed not to prevent it for ever.

`configured` is KAFKA_BROKERS of the process; a restart may come with another
environment.  `Ticks` stands for the batches the timer may have open at a time:
any finite number of them, and at least one.

### ConfigPropagation

`revision` stands for the repository: a write makes a revision and its event in
one step, which `ConfigStore` and `RevisionsAreAnnounced` justify.  `topic` is the
partition that carries the environment's events, by revision; `Publish` and
`PublishAgain` are `OutboxPublisher` seen from outside: at least once, in any
order.  Records of other environments in the partition are left out, since the
relay drops them.  A client is `apps/config-simulator`: `LoadSnapshot`, then
`Subscribe` (the relay's consumer has a group of its own and starts at the end of
the partition), then `ReceiveEvent` and `Reload` in turns, because it awaits the
reload before it reads on; `GiveUp` whenever a request or the stream fails, for
it never reconnects.  `since` is kept for the properties only.  As one module of
proofs extends this module and `ApiServer`, names that both would define have the
prefix `Propagation` here.

### ApiServer

`phase[c]` is what the callback of `streamSSE` awaits for one request; the client
route and the dashboard route are alike in this.  `left` and `aborted` are set
apart because a socket may close before the callback has registered `onAbort`.
`consumer[c]` follows `subscribeToConfigEvents`; the abort listener exists from
phase "run" on.  `missed` collects the streams whose consumer nobody will
disconnect (a failing subscribe, an abort before run returned); it is there for
the properties.  KafkaJS may or may not finish joining a group when it is
disconnected while starting, so `RunConsumer` allows both.  The process ends when
nothing keeps its event loop alive: streams, consumers, the HTTP server and the
connection of the job queues to Redis, which the first request that enqueues a job
opens (`EnqueueJob`), which is cached and which the shutdown does not close.  The
pool of database connections ends idle connections by itself and is not considered.

### WebhookDelivery

One request per event writes the delivery rows and then adds a job for each;
`run[s]` is the attempt that slot `s` of the worker is making.  The row's
`attempts` and the job's `made` are the two counters of the code.  BullMQ is
modelled as the worker uses it: a lock that a slow processor may lose
(`LockExpires`, after which both it and its successor go on), a job recovered
after a crash, at most `MaxStalledCount` times, and a retry while `made + 1 <
MaxAttempts`.  `accepted`, `posts` and `unrecorded` are kept for the properties.
Endpoints are created and deleted between the steps of a request; deleting takes
the rows of the endpoint with it (ON DELETE CASCADE).  No code deactivates an
endpoint; `Deactivate` is an operator's UPDATE.  After `ChangeSecret` the worker
cannot decrypt the secret of an endpoint ("sealed"): the processor throws before its
try, which costs the job an attempt and the row none (`AttemptOf`).  An UPDATE that
fails may have been made.

### SimulatorPanel

`step[r]` is the await that the n-th call of `startSimulator` is at, `active` is
`activeRunRef`, `aborted[r]` its controller's signal.  `Start`, `Stop`, `Clear`,
`EditToken` and `Unmount` are the handlers, with the abort they all begin with.
`SnapshotArrives`, `StreamOpens`, `OnConnected`, `OnConfigEvent`,
`RefreshArrives`, `OnUnavailable` and `StreamEnds` are what follows each await,
with `isCurrentRun()` where the code asks it; `SnapshotFails`, `StreamFails`,
`RequestLost`, `ReadFails` and `AbortRejects` end in the catch block.  An aborted
request is rejected, or still answered if its answer was there first: both are steps
of the model.  The reader of a run that ends in the catch block is not cancelled, so
its stream stays open at the API (`failed` remembers such a run for the property).
Nor does an abort reach the API while the headers are awaited, since the proxy of the
web app fetches without a signal: `OpenStream` opens the stream of a run that may be
gone, and an abort closes a stream only when the run has its `reader`.

On the API's side, a request is first admitted or refused (`FindToken`), and its
snapshot is read two queries later (`ReadSnapshot`), whatever has become of the token;
`Publish` brings an event to every open stream, and `CreateToken` and `RevokeToken` add
their events: a revoked token keeps its stream until that event makes the run ask
again and be refused.  Blocks arrive
whole; how bytes are cut into blocks is left out, as are the log and heartbeats.

### ConfigWorkspace

`log` is the sequence of committed writes of entries and tokens, and the version
of `x` after the first `n` is how often it occurs in them (`VersionAt`).  What a
query has read is then a number: how long the log was.  `data`, `stale` and
`flight` are the cache of TanStack Query as `config-workspace.tsx` uses it:
`Mount` is a component that starts to observe a query, `Invalidate` is
`invalidateQueries`, which restarts a request unless the query has no data
yet, and leaves alone what nobody observes.  `QueryArrives` answers with any state
of the log between request and answer.

`mutation` is the one that was submitted, with what its closure saw: environment,
selected entry, expected version, target version.  Clicks submit; `Create`,
`HandleWrite`, `HandleCreateToken` and `HandleRevokeToken` are the API, with its
unique indexes and the comparison of versions; `AppCreated`,
`EnvironmentCreated`, `EntrySaved`, `EntryRolledBack` and `TokenWritten` are what
the page does with the answer.  `RequestFails` covers refusal, the time-out of
20 s and a lost answer of a request that did commit.  `pushed` is the event
stream of the selected environment, which breaks and reconnects.

### Organizations

Every await of a request is a step: `ReadSession`, `ListOrganizations`,
`ClearActive`, `PickOnly` and `ReadRole` are `resolveAuthContext`;
`CheckWorkspace`, `AllowCreate`, `CreateOrganization`, `FindInvitation`,
`AcceptInvitation`, `MarkAccepted`, `InsertMember`, `EnterOrganization`,
`ActivateTarget` and `RecordEvent` are `createWorkspace` and `acceptInvitation`,
which share their end.  The four in the middle are the statements of better-auth's
`acceptInvitation`, which runs them without a lock: as the table of members has no
index on organisation and user, two tabs that both found the invitation pending both
insert a row (`joins` counts the rows), and the organisation may then be listed twice
(`AfterFixUp`).  `Fail` ends a request at any step and undoes nothing.  Other calls of
better-auth are one step each.  better-auth is not part of the repository; this
is its documented behaviour and that of its released source.
Other tabs switch, sign in anew or send the same request; others may remove the
user from the organisation.  `before`, `switched`, `joins` and `lost` are auxiliary.

### Invitations

`Submit`, `RequestAnswered`, `RequestTimesOut`, `Reconcile`, `ReconcileFails` and
`Refresh` are the form of `users-workspace.tsx`; `ResolveContext`,
`CreateInvitation`, `Enqueue`, `MailInline` and `RecordEvent` are the request at
the API, with the flag `asyncInviteEmail`, and the fallback to an inline mail when
the queue does not answer; `StartJob`, `MailJob`, `CompleteJob`, `JobFails`,
`WorkerCrashes` and `LockExpires` are the mail worker, and `StrayMails` the mail of one
whose job was given to another.  The mailer returns with the mail out or, where the
provider is Resend (`SilentRefusals`), with a refusal in a result that nobody looks at
(`SendMail`); it throws when the mail was refused, or when it went out and the answer
was lost (`SendMailThrows`).  The job has the invitation's id.  The list on
the page, `shown`, is of the organisation that was active when it was read, and
the request goes to the one that is active when it is handled.

### Navigation

A location is a page with what its `redirectTo` holds.  `Proxy` is `proxy.ts`,
which knows only whether there is a cookie; `RenderRedirect` and `Render` are the
server components, which know the session; `MountOnboarding`, `Answer`, `AnswerFails`
and `Ready` are the onboarding page, which knows what is cached, and keeps what is
cached when the API does not answer (`ApiFails`).  The other actions are links, visits
from outside, another tab, sessions that end, and the forms, buttons and the switcher.
Each of these last is three steps: the click sends a call (`Sends`), the call has its
effect (`Serve`) or fails (`CallFails`), and the page goes on to the destination it had
at the click (`GoOnFrom`), wherever the tab is by then.  Two equal calls that were sent
from pages left since are one.  A tab that loads another page takes no click until that
is rendered.  `resolveAuthContext` is one step here (`Resolved`).

## Runs

| Run | Instance | Shows |
|---|---|---|
| `repository` | 2 clients, 1 reader, 2 keys, 1 value, writes begun while revision < 2 | histories, events, audit rows and snapshots agree; no lost update, no spurious conflict, one kind of wait cycle; `ConfigRepository` implements `ConfigStore`; transactions end |
| `outbox` | 2 events, 2 timer batches and the first one, limit 1, 3 disruptions, with and without brokers | nothing dropped, repetitions bounded (the bound is reached), stop is final, every row settles |
| `propagation` | 1 client, 3 writes, up to 5 records | a client runs with what it was told of, never goes back, and converges for writes published after it subscribed |
| `propagation_gap` | 1 client, 3 writes, 4 records | expected violation: a write published between snapshot and subscription is missed |
| `webhook_faults` | 1 event, 1 endpoint, 2 slots, 3 attempts; 1 lost job, 2 failing queries, 1 changed secret, 1 expired lock, 2 crashes | repetitions explained, pending rows have jobs and settle, delivered rows stay delivered |
| `webhook_counters` | 1 slot, 3 attempts, 1 failing query | expected violation: the job is used up while the row waits for another attempt |
| `api_shutdown` | 3 streams, Redis | the gauge is right, consumers end with their streams, the process ends unless a consumer or the connection to Redis keeps it |
| `simulator_panel` | 1 token, 2 runs, 2 writes | only the last run shows, open streams are explained, snapshots move forward and outlive their token by one answer at most, live runs converge |
| `config_workspace` | 2 apps, 1 environment, 1 entry, 1 token, 3 writes, 2 if tokens are among them | own writes are shown, commits replace what was shown, only answers take the selection apart, tables converge |
| `organizations` | 2 tabs, 1 organisation to be invited to, 2 to be created | a second workspace needs an overlap, roles belong to their organisation, fix-ups respect choices, every row of the members' table is audited once |
| `invitations` | 2 organisations, 2 roles, 2 submissions, 2 attempts, silent refusals, 2 faults, or 1 and a switch | notices are true, invitations go where the page said, jobs are done when mailed or silently refused, mails are repeated for counted reasons |
| `navigation` | 2 accounts (two organisations; none), 3 organisations, 4 actions of users, 1 outage | redirects end, and the destination survives them |

The two expected violations are the findings of `PROJECT.json`:

- `propagation_gap`: the client loads its snapshot, then subscribes at the end of
  the partition, and the event "connected" makes it do nothing; a change published
  in between stays unseen until another one comes.  Reloading on "connected"
  would close the gap.
- `webhook_counters`: the row and the job count attempts apart.  A query that
  fails outside the try costs an attempt of the job only, so with a receiver that
  keeps refusing the job fails while the row still says pending, next attempt at
  some time that nobody watches.

Why the bounds suffice.  A conflict on an entry needs two transactions, and the
second key lets them meet in a snapshot of two entries; a key is first created and
then updated or rolled back within two revisions, and more versions than that exist
because transactions begun below the bound may all commit.  The proofs cover any
number of clients, keys and revisions.  Two batches are enough for an overlap, and
two events with limit 1 for a listing that leaves rows out.  Clients do not
interact, so one is enough for `ConfigPropagation`; three writes can be published
out of order around a subscription with room for two repetitions.  Deliveries
interact only through the slots they share, so one is enough for
`WebhookDelivery`; three attempts (five in the code) have a first, a middle and a
last one, and each kind of fault may happen as often as it takes to lose a job.
Streams interact only through the gauge and the shutdown.  A run of the panel
meets at most the one that replaced it; a token meets itself as "no token", and
two writes make an order.  On the configuration page a rollback needs two earlier
versions, a second app is there to be created and selected while the environment
of the first is shown, and a token needs its creation and its revocation.  Tabs
are symmetric and two are enough for every race of two requests; a user without
and with an own workspace meets the invitation.  Two submissions are enough for a
late first request to meet the second; mails of different invitations do not interact,
and two faults with two attempts lose a mail's answer and its retry's, or the lock of a
worker whose mail still goes out.  Four actions, after a sign-in or before it, are a deep link,
a sign-in, onboarding or a switch, and a link followed before the call is answered; with
one outage they also bring back a cached answer of an earlier session.  Each exception
that a property of `Navigation` names is met at these bounds: without it the property
is violated.

Fairness.  `ConfigRepository`: strong fairness of each client's statements,
because PostgreSQL grants a row lock in the order of requests, and weak fairness
of the deadlock detector; requests and failures are never forced.
`OutboxPublisher`: weak fairness of timer ticks, of the steps of each open batch
(the event loop serves every callback), of the passing of backoffs, of process
start, stop and exit, and of the kill that follows a signal (the supervisor's
grace period); commits of the API and disruptions are never forced.
`ConfigPropagation`: weak fairness of each first publication, which `RowsSettle`
of `OutboxPublisher` gives, and of the client's steps.  `ApiServer`: weak fairness
of each stream's callback and of its abort, and of the server; clients are never
forced to leave.  `WebhookDelivery`: weak fairness of requests and of slots (a
request to a receiver ends, by fetch's own timeouts if need be), strong fairness
of each job's being handed out, since the queue is first in, first out.
`SimulatorPanel`: as long as an event can be published, a request answered or a run
resumed, one of them is; every run has finitely many steps, so none waits for ever.
`ConfigWorkspace`: weak fairness of answers to queries and of event handlers.
`Navigation`: weak fairness of the redirects, of answers and effects, and of the
passing of 30 s; calls may stay unanswered and an outage may last.  `Organizations`
and `Invitations` state safety only.  No user, failure or other administrator is ever forced to act.

## Observed behaviours

Met while modelling.  The models behave this way too, but for the one about
`createEnvironment`, which was read in the code only.  But for the one about refused
mails no text of the repository promises otherwise, so they are no findings.

- API process: it does not exit after a shutdown once it has enqueued a job, because
  the connection of the job queues to Redis is never closed; a supervisor has to kill it.
- Webhooks: with a changed BETTER_AUTH_SECRET every attempt of a job is used up before
  the try, and its row stays pending with no attempt counted.
- Configuration page: after creating an app the old environment stays selected,
  after creating an environment the old entry (`SelectionStraysOnAnswers`); a save
  that is answered after the environment was left selects an entry of the one that
  was left; an event of the stream invalidates the entries and not the open
  history; an invalidation that meets the first load of a query is lost; a request
  that timed out in the browser may have committed.
- `createEnvironment` does not check that the app belongs to the caller's
  organisation; `handleRepositoryError` looks at `error.code`, which drizzle wraps.
- Simulator panel: the catch block leaves the reader open; Stop or leaving the page
  before the headers of the stream have come leaves a stream open at the API that no
  one reads; a revoked token keeps its stream until the event of the revocation; a
  request whose token is revoked between look-up and snapshot gets one snapshot from
  after the revocation; revoking can be repeated.
- Workspaces: two requests that both checked before either created make two
  workspaces; a request that fails after joining leaves no audit row, and a retry
  adds none (`JoinsAreAuditedOnce` says exactly that); two tabs that accept an
  invitation at once both insert a member and both record it; an acceptance that fails
  between its statements leaves an accepted invitation that nobody joined by; a role may
  belong to another organisation if a tab switches between two reads.
- Invitations: after a switch the page still lists the old organisation and the
  form invites to the new one; a notice after a time-out may rest on an earlier
  invitation; a mail that Resend refuses completes its job and is not tried again,
  because the mailer does not look at the result of the SDK's call, which returns the
  refusal (the SDK is not part of the repository; docs/operations/async-platform.md:118
  speaks of retries); a mail is repeated when the queue's or the provider's answer is lost, or a
  worker loses the lock of its job or dies with the mail out.
- Navigation: a cookie whose session ended sends a tab round between the sign-in
  form and a page; a cached answer "ready" of an earlier session sends it round between
  the onboarding page and its destination while the API is down; the destination is lost
  when a denied `/health` meets a user without workspace, when the session ends after
  the proxy saw the cookie, when an onboarding page becomes ready under a link, when a
  form or button is answered after the user followed a link, and when the switcher of
  an onboarding page is used; the cached answer of `GET /onboarding` outlives a sign-out;
  sessions survive a password reset.

## Proofs

Every theorem holds for all values of the constants that the `ASSUME` of its module
admits; `PROJECT.json` lists the theorems with the properties they state.

| Module | Theorems about |
|---|---|
| `ConfigRepositoryProofs` | versions, events, snapshots, audit rows, wait cycles, lost updates, duplicates, and the refinement of `ConfigStore` |
| `OutboxPublisherProofs` | nothing dropped, copies bounded, stop is final |
| `EventStreamProofs` | gauge and consumers of the server; writes and snapshots of its clients |
| `WebhookDeliveryProofs` | repeated deliveries, delivered rows, rows and their jobs |
| `SimulatorPanelProofs` | what the panel shows, its streams, its snapshots |
| `ConfigWorkspaceProofs` | own writes, replaced versions, the selection |
| `OrganizationsProofs` | joinings, second workspaces, roles, fix-ups |
| `InvitationsProofs` | where invitations go, notices, mails and jobs |

### ConfigRepository

For any sets of clients, readers, keys and values and any bound on revisions, from
`NoneAssumption` (NULL is no value) and `MaxRevisionAssumption`.

`VersionsContiguous` is not inductive: a commit appends version `base + 1`, where
`base` was read long before.  `VInv` adds what makes that number right.  A
transaction that holds the index key of its version has a `base` that is still
current (`TransactionsCurrent`), because the index let it in only when neither a
committed nor a pending row had that number, and no two transactions hold index
keys of one entry (`LocksExclusive`), so no other commit can move the entry
before this one does.  The same holds of the environment's row and the revision.
`VersionsAreContiguous`, `RevisionsAreAnnounced` and `NoUpdateIsLost` follow.  The
proof has a lemma for ending a transaction, one for going on to the next
statement, and one per statement on top of them.

`RInv` adds the other records: entry rows point at their newest version and nothing
recorded is ahead of the tables (`RecordsCurrent`), a transaction calls its write by
what it has read and a rollback writes the value it goes back to
(`WritesDescribed`), and row locks are exclusive (`EntryLocksExclusive`).  Since what
a transaction has read is still true when it commits, what it says of itself becomes
true of the tables: `SnapshotsCoverTheirRevision` and `AuditsAgreeWithEvents` are
conjuncts of `RInv`.  `IInv`, which the run checks, is both.

`WaitCyclesArePairs` needs the order of locks: an upsert holds the row of its entry and
waits for the index key, a rollback holds the key and waits for the row, and nobody
waits for a transaction that waits for the environment.  Four clients on two keys
can make a set of waiting transactions out of two such pairs, which is what the
property says; an earlier version of it, that there are never more than two, held on
the instance of the run and not in general.

`TransactionsAreAtomicWrites` is the refinement.  The histories and the log of
`ConfigStore` are chosen out of sets of rows (`VersionRow`, `EventOf`); `VInv` says
that there is exactly one to choose (`RowsAreFound`), so that the tables are sequences
(`TablesAreSequences`), that all steps but a commit leave them alone (`TablesKept`)
and that a commit appends to one history and to the log (`CommitHistory`,
`CommitLog`), as `Upsert` or `Rollback` of the abstract store does.

### OutboxPublisher

For any number of events, batches, disruptions and any batch limit.  A row is marked
published long after its event was sent, by a batch that others may have overtaken:
for `NothingIsDropped` the invariant adds that a batch which awaits its UPDATE has a
row that is in the topic (`SentIsInTopic`), and copies never leave the topic.

`CopiesStayBounded` keeps an account for every event (`CopiesAreAccounted`) of the
copies in the topic and those still to come without a further disruption (`Owed`).
For a published row these are the batches that listed it and have yet to send it; for
any other they are a whole round, one batch for each of `Ticks`, less the batches that
have sent it and await their UPDATE.  A batch that awaits marking it failed is worth a
round more, and so is a pending signal (`Kept`), whose kill may cut batches short: the
disruption behind either has paid for it.  All together stay within
`Cardinality(Ticks) * (1 + disruptions)`.  That no batch of the timer is open during
the first batch of `start()` (`FirstBatchIsAlone`) is why that one needs no share of
its own.  `StoppedStaysStopped` is an action property.

### The event stream

`GaugeIsRight` and `LeaksAreMissed` hold for any finite set of streams.  A number that
two callbacks decrement is right because `connectionCounted` is set for exactly the
open streams that were not aborted (`CountedAreOpen`), so that the gauge is the
cardinality of that set; `ConsumersAreKnown` says in which phases a stream that was not
missed has a consumer.

`EventsBringTheirWrite` and `SnapshotsMoveForward` hold for any number of clients and
writes.  The type invariant already says that the topic names only committed
revisions; as a reload reads the newest one, it covers every record, and the property
is inductive with it.

### WebhookDelivery

For any events and endpoints, any finite number of slots, any number of attempts, stalls and
faults.  `DInv` is what rows, jobs and attempts have in common: the owner of a job is
at work on it (`OwnersWork`), a row is enqueued once, by its request, and is gone only
with its endpoint (`RowsAndJobs`).

`DuplicatesHaveReasons` is an account again (`Accounted`): the requests a receiver has
accepted, the attempts that go on although the queue has given their job away
(`Late`), and one if the attempt the queue knows of, or the next one, may still be
accepted (`Owed`), are at most one more than the results that were lost or came too late
(`unrecorded`).  A delivered row, or a deleted endpoint, means that no further attempt
sends anything (`Settled`); a late attempt that fails may take that back, and has
paid for it by being late.  Each step of an attempt pays for itself
(`ProcessorPays`), and an expired lock or a crash is what raises `unrecorded`.
`DeliveredRowsAreKept` follows from the account: a delivered row has been accepted
(`SuccessesWereAccepted`), and who sets it back is owed another acceptance or is late
(`SetBackIsExplained`), so one result must have been lost.

`PendingRowsAreBacked` compares the two counters that decide when to give up.  As long
as no call has failed, no secret was changed and no lock has expired (`Calm`), the queue
knows of every attempt, the attempt's number is above what the queue has counted (`Counted`), and the
row has counted at least as much as the queue (`Backed`); so the row gives up first, and
a job that throws has another attempt.

### Pages and sessions

`SimulatorPanelProofs`: for any number of tokens, runs and writes, from
`PanelAssumption`.  What is shown is right because a run that still works either
owns the panel or was aborted (`RunsAreOwned`), because a stream is closed by the
abort once the run has its reader (`StreamsFollowRuns`), and because an answer on its
way is as new as what is shown, and what is shown while a request is admitted is older
than a revocation (`AnswersAreRecent`): so one snapshot from after it may be shown, and
none after that.  There is one lemma per action.

`ConfigWorkspaceProofs`: for any apps, environments, entries, tokens and writes, from
`WorkspaceAssumption`.  `OwnWritesStayVisible` rests on `OwnWritesAreAwaited`: a
request is as young as the page's last answered write on its query, or the query is
stale.  For `ShownVersionsAreReplaced` the API compares numbers and the page shows a
prefix of the log: the lemma `VersionsGrow` says that equal numbers mean that nothing
was written in between, and `SubmissionIsOfShown` that a submission keeps, over every
commit of others, the version it was clicked on.  `ClicksKeepTheSelectionTogether` is
an action property.

`OrganizationsProofs`: for any number of tabs and organisations, from
`OrganizationAssumption`.  The properties speak of a session that other tabs change;
`ContextIsExplained` says what a request knows of it at each await unless it was
switched.  The account of joinings is kept by every step: a request that inserts a row
adds one to `joins` and itself to `Joining`, and leaves it by recording or by failing.

`InvitationsProofs`: for any number of organisations, roles, submissions, attempts,
switches and faults.  `KInv` says what is known of a submission at each step of its
request; on top of it each result has an invariant of its own, that of the mails
saying that mails sent and mails due (`Due`), those of workers without a lock included,
are at most one more than the repetitions.  `DoneJobsHaveMailed` assumes a provider that
throws when it refuses.

### What proving changed

- The wait-cycle property was false for four clients (see above) and was restated.
- `Find` of `WebhookDelivery` was a CASE with overlapping guards, which TLA+ leaves
  open and TLC reads from the top; it is an IF now, in the order of the code.
- `Slots` and `Ticks` are finite and there is a timer batch, which the counting
  properties need and the code's fixed concurrency and timer give.

### Only model-checked

Liveness (`TransactionsEnd`, `RowsSettle`, `SubscribedClientsConverge`,
`QueuedDeliveriesSettle`, `ShutdownEnds`, `LiveRunsConverge`, `TablesConverge`,
`RedirectsEnd`, and `RefusedDeliveriesSettle`, which fails) is out of the prover's
reach: it rests on fairness, that is on ENABLED.
`DestinationIsKept` of `Navigation` is left to TLC.

## Not modelled

See the notes in `PROJECT.json`.

- Logging, metrics and tracing are output that no component reads back; shared UI
  components, layout and wording keep no state of their own.
- Environment parsing, feature flags and the choice of a mail provider are
  functions of the configuration; where a flag decides between two protocols
  (`asyncInviteEmail`, Kafka or not) it is a variable or constant of the model.
- zod schemas, value normalisation, checksums, encryption and signatures are
  functions of their input; properties tell values apart by identity only.
- The cutting of event streams into blocks, a function of the bytes.
- The queries of the dashboard whose answers only fill a table (apps,
  environments, tokens, members, webhooks).
- The internals of better-auth, BullMQ, KafkaJS, Resend, TanStack Query and PostgreSQL
  beyond the behaviour the code relies on, which `map` marks as external.

## Plan

Written, in this order: the write path (`ConfigStore`, `ConfigRepository`),
publication (`OutboxPublisher`), propagation to a client (`ConfigPropagation`), the
API process (`ApiServer`), webhooks (`WebhookDelivery`), the browser client
(`SimulatorPanel`), workspaces and sessions (`Organizations`), invitations
(`Invitations`), the configuration page (`ConfigWorkspace`), the way to a page
(`Navigation`), and the proofs about all of them but `ConfigStore`, which has no
theorem of its own, and `Navigation`.

What could follow: the action property of `Navigation`; and the audit rows of apps,
environments and tokens.
