------------------------------ MODULE Invitations ------------------------------
(***************************************************************************)
(* Inviting a teammate: the form of the users page (users-workspace.tsx),  *)
(* POST /invitations (user-service.ts), the mail that better-auth asks for *)
(* (sendInvitationEmail in packages/auth) and the worker that sends it.    *)
(*                                                                         *)
(* An administrator of all Orgs invites one e-mail address.  The form      *)
(* gives up after 45 s and looks for the invitation in the list; the       *)
(* request goes on without it.  The mail is a job, or is sent by the       *)
(* request when the job cannot be queued.  A refusal of the provider is an *)
(* exception (SMTP) or a result that the mailer does not look at (Resend). *)
(***************************************************************************)
EXTENDS Integers

CONSTANTS
    Orgs,           \* organisations of the administrator
    Roles,          \* roles to invite as
    None,           \* nothing yet
    MaxSubmits,     \* bound on submissions
    MaxAttempts,    \* attempts of a job
    SilentRefusals, \* the provider is Resend
    MaxSwitches,    \* bound on switches of the organisation
    MaxFaults       \* bound on calls that fail and switches together

ASSUME InvitationAssumption ==
    /\ MaxSubmits \in Nat /\ MaxAttempts \in Nat \ {0}
    /\ MaxSwitches \in Nat /\ MaxFaults \in Nat /\ SilentRefusals \in BOOLEAN
    /\ None \notin Orgs \cup Roles /\ None \notin {"queued", "error"}

VARIABLES
    \* session, database and queue
    active,         \* activeOrganizationId of the session
    invitations,    \* n -> the row of invitations made by the n-th submission, or None
    job,            \* invitation -> state of its job
    attempts,       \* invitation -> attempts of its job that failed
    strays,         \* invitation -> workers about to mail it without the lock of its job
    mailed,         \* invitation -> mails sent
    async,          \* the feature flag asyncInviteEmail, read when the API starts
    \* the requests
    request,        \* n -> the n-th submission at the API
    \* the page
    shown,          \* the workspace the page shows: its organisation and pending rows
    form,           \* "idle", or what handleSubmit awaits
    notice,         \* None, "queued" or "error"
    submitted,      \* submissions so far; the form waits for the last one
    \* auxiliary
    refused,        \* invitation -> the provider has refused a mail and nobody looked
    repeats,        \* invitation -> reasons for another mail
    switches,       \* switches so far
    faults          \* calls that failed so far

mails == <<async, job, attempts, strays, mailed, refused, repeats>>
page == <<shown, form, notice, submitted>>
session == <<active, switches>>
vars == <<session, invitations, mails, request, page, faults>>

-----------------------------------------------------------------------------
Submits == 1..MaxSubmits

RequestSteps == {"none", "resolve", "create", "enqueue", "mail", "audit", "ok", "failed"}

\* shown: the organisation on the page at the click;
\* moved: the session named another one at the click, or changed before it was read.
Requests ==
    [step : RequestSteps, role : Roles \cup {None}, org : Orgs \cup {None},
     shown : Orgs \cup {None}, moved : BOOLEAN]

Invitation == [org : Orgs, role : Roles, status : {"pending", "canceled", "accepted"}]

ASSUME RowAssumption == None \notin Invitation

TypeOK ==
    /\ active \in Orgs
    /\ invitations \in [Submits -> Invitation \cup {None}]
    /\ job \in [Submits -> {"none", "queued", "sending", "sent", "done", "failed"}]
    /\ attempts \in [Submits -> Nat]
    /\ async \in BOOLEAN
    /\ strays \in [Submits -> Nat]
    /\ mailed \in [Submits -> Nat]
    /\ refused \in [Submits -> BOOLEAN]
    /\ request \in [Submits -> Requests]
    /\ shown \in [org : Orgs, rows : SUBSET Submits]
    /\ form \in {"idle", "sending", "refetching"}
    /\ notice \in {None, "queued", "error"}
    /\ submitted \in 0..MaxSubmits
    /\ repeats \in [Submits -> Nat]
    /\ switches \in 0..MaxSwitches
    /\ faults \in 0..MaxFaults

Status(i) == IF invitations[i] = None THEN "none" ELSE invitations[i].status

Pending(o) == {i \in Submits : Status(i) = "pending" /\ invitations[i].org = o}

Init ==
    /\ active \in Orgs
    /\ invitations = [i \in Submits |-> None]
    /\ job = [i \in Submits |-> "none"]
    /\ attempts = [i \in Submits |-> 0]
    /\ async \in BOOLEAN
    /\ strays = [i \in Submits |-> 0]
    /\ mailed = [i \in Submits |-> 0]
    /\ refused = [i \in Submits |-> FALSE]
    /\ request = [n \in Submits |-> [step |-> "none", role |-> None, org |-> None,
                                     shown |-> None, moved |-> FALSE]]
    /\ shown = [org |-> active, rows |-> {}]
    /\ form = "idle" /\ notice = None /\ submitted = 0
    /\ repeats = [i \in Submits |-> 0]
    /\ switches = 0 /\ faults = 0

Fault == faults + switches < MaxFaults /\ faults' = faults + 1

-----------------------------------------------------------------------------
(* The page.                                                               *)

\* handleSubmit.
Submit(role) ==
    /\ form = "idle"
    /\ submitted < MaxSubmits
    /\ form' = "sending" /\ notice' = None
    /\ submitted' = submitted + 1
    /\ request' = [request EXCEPT ![submitted + 1] =
                     [step |-> "resolve", role |-> role, org |-> None,
                      shown |-> shown.org, moved |-> shown.org # active]]
    /\ UNCHANGED <<session, invitations, mails, shown, faults>>

\* The list of the organisation the session names now.
Refetched == shown' = [org |-> active, rows |-> Pending(active)]

\* Refresh, or the page is visited again after staleTime.
Refresh ==
    /\ Refetched
    /\ UNCHANGED <<session, invitations, mails, request, form, notice, submitted, faults>>

\* Both refetches that follow an answered request are one with Refresh.
RequestAnswered ==
    /\ form = "sending"
    /\ request[submitted].step \in {"ok", "failed"}
    /\ notice' = IF request[submitted].step = "ok" THEN "queued" ELSE "error"
    /\ form' = "idle"
    /\ UNCHANGED <<session, invitations, mails, request, shown, submitted, faults>>

\* 45 s passed; the request is aborted on this side only.
RequestTimesOut ==
    /\ form = "sending"
    /\ form' = "refetching"
    /\ UNCHANGED <<session, invitations, mails, request, shown, notice, submitted, faults>>

\* Faulty: any pending invitation of the address will do.
MatchesAddress(rows) == rows # {}

Matches(rows) == \E i \in rows : invitations[i].role = request[submitted].role

\* A matching invitation in the list counts as success.
Reconcile ==
    /\ form = "refetching"
    /\ Refetched
    /\ notice' = IF Matches(Pending(active)) THEN "queued" ELSE "error"
    /\ form' = "idle"
    /\ UNCHANGED <<session, invitations, mails, request, submitted, faults>>

\* The refetch fails too: its result still holds the list of before.
ReconcileFails ==
    /\ form = "refetching"
    /\ Fault
    /\ notice' = IF Matches(shown.rows) THEN "queued" ELSE "error"
    /\ form' = "idle"
    /\ UNCHANGED <<session, invitations, mails, request, shown, submitted>>

\* The switcher changes the session; the list stays as it was read.
SwitchOrganization(o) ==
    /\ switches < MaxSwitches /\ faults + switches < MaxFaults
    /\ switches' = switches + 1
    /\ o # active
    /\ active' = o
    /\ request' = [n \in Submits |->
                     [request[n] EXCEPT !.moved = @ \/ request[n].step = "resolve"]]
    /\ UNCHANGED <<invitations, mails, page, faults>>

-----------------------------------------------------------------------------
(* POST /invitations.                                                      *)

\* Faulty: the organisation is the user's first.
AnyOrganization(n) == CHOOSE o \in Orgs : TRUE

\* resolveAuthContext; Organizations has its steps.
OrganizationOf(n) == active

ResolveContext(n) ==
    /\ request[n].step = "resolve"
    /\ request' = [request EXCEPT ![n].step = "create", ![n].org = OrganizationOf(n)]
    /\ UNCHANGED <<session, invitations, mails, page, faults>>

\* better-auth refuses a member, and cancels the pending invitations of the address.
CreateInvitation(n) ==
    /\ request[n].step = "create"
    /\ LET o == request[n].org
       IN  IF \E i \in Submits : Status(i) = "accepted" /\ invitations[i].org = o
           THEN /\ request' = [request EXCEPT ![n].step = "failed"]
                /\ UNCHANGED invitations
           ELSE /\ invitations' = [i \in Submits |->
                     CASE i = n -> [org |-> o, role |-> request[n].role, status |-> "pending"]
                       [] i # n /\ i \in Pending(o) -> [invitations[i] EXCEPT !.status = "canceled"]
                       [] OTHER -> invitations[i]]
                /\ request' = [request EXCEPT ![n].step = IF async THEN "enqueue" ELSE "mail"]
    /\ UNCHANGED <<session, mails, page, faults>>

\* enqueueInviteEmailJob; the job's id is the invitation's.
Enqueue(n) ==
    /\ request[n].step = "enqueue"
    /\ job' = [job EXCEPT ![n] = "queued"]
    /\ request' = [request EXCEPT ![n].step = "audit"]
    /\ UNCHANGED <<session, invitations, async, attempts, strays, mailed, refused, repeats, page, faults>>

\* Redis does not answer; it may have taken the job.  The mail is sent here.
EnqueueFails(n) ==
    /\ request[n].step = "enqueue"
    /\ Fault
    /\ \/ UNCHANGED <<job, repeats>>
       \/ /\ job' = [job EXCEPT ![n] = "queued"]
          /\ repeats' = [repeats EXCEPT ![n] = @ + 1]
    /\ request' = [request EXCEPT ![n].step = "mail"]
    /\ UNCHANGED <<session, invitations, async, attempts, strays, mailed, refused, page>>

\* mailer.sendInvitation returns: the mail is out, or refused with a result that is not
\* looked at.
SendMail(i) ==
    \/ /\ mailed' = [mailed EXCEPT ![i] = @ + 1]
       /\ UNCHANGED <<refused, faults>>
    \/ /\ SilentRefusals
       /\ Fault
       /\ refused' = [refused EXCEPT ![i] = TRUE]
       /\ UNCHANGED mailed

\* It throws: the mail is refused, or it is out and the answer was lost.
SendMailThrows(i) ==
    /\ Fault
    /\ mailed' \in {mailed, [mailed EXCEPT ![i] = @ + 1]}
    /\ UNCHANGED refused

MailInline(n) ==
    /\ request[n].step = "mail"
    /\ SendMail(n)
    /\ request' = [request EXCEPT ![n].step = "audit"]
    /\ UNCHANGED <<session, invitations, async, job, attempts, strays, repeats, page>>

\* better-auth goes on or fails the request.
MailInlineFails(n) ==
    /\ request[n].step = "mail"
    /\ SendMailThrows(n)
    /\ \E step \in {"audit", "failed"} : request' = [request EXCEPT ![n].step = step]
    /\ UNCHANGED <<session, invitations, async, job, attempts, strays, repeats, page>>

\* The audit event, its webhooks and the response.
RecordEvent(n) ==
    /\ request[n].step = "audit"
    /\ request' = [request EXCEPT ![n].step = "ok"]
    /\ UNCHANGED <<session, invitations, mails, page, faults>>

\* A query fails; what was written stays.
RequestFails(n) ==
    /\ request[n].step \in {"resolve", "create", "audit"}
    /\ Fault
    /\ request' = [request EXCEPT ![n].step = "failed"]
    /\ UNCHANGED <<session, invitations, mails, page>>

\* The invited user accepts.
Accept(i) ==
    /\ Status(i) = "pending"
    /\ invitations' = [invitations EXCEPT ![i].status = "accepted"]
    /\ UNCHANGED <<session, mails, request, page, faults>>

-----------------------------------------------------------------------------
(* The worker.                                                             *)

\* Faulty: the job ends without looking at the status of the row it is about.
StartJobSkipped(i) ==
    /\ job[i] = "queued"
    /\ job' = [job EXCEPT ![i] = "done"]
    /\ UNCHANGED <<session, invitations, async, attempts, strays, mailed, refused, repeats,
                   request, page, faults>>

\* A row that is not pending any more is skipped.
StartJob(i) ==
    /\ job[i] = "queued"
    /\ job' = [job EXCEPT ![i] =
                 IF Status(i) = "pending" THEN "sending" ELSE "done"]
    /\ UNCHANGED <<session, invitations, async, attempts, strays, mailed, refused, repeats,
                   request, page, faults>>

MailJob(i) ==
    /\ job[i] = "sending"
    /\ SendMail(i)
    /\ job' = [job EXCEPT ![i] = "sent"]
    /\ UNCHANGED <<session, invitations, async, attempts, strays, repeats, request, page>>

CompleteJob(i) ==
    /\ job[i] = "sent"
    /\ job' = [job EXCEPT ![i] = "done"]
    /\ UNCHANGED <<session, invitations, async, attempts, strays, mailed, refused, repeats,
                   request, page, faults>>

\* The job is tried again after its backoff, until its attempts are used up.
Retry(i) ==
    /\ attempts' = [attempts EXCEPT ![i] = @ + 1]
    /\ job' = [job EXCEPT ![i] = IF attempts[i] + 1 < MaxAttempts THEN "queued" ELSE "failed"]

\* Faulty: a completed job is queued again.
RetryCompleted(i) ==
    /\ job[i] \in {"sending", "done"}
    /\ attempts[i] < MaxAttempts
    /\ Fault
    /\ Retry(i)
    /\ UNCHANGED <<session, invitations, async, strays, mailed, refused, repeats, request, page>>

\* The query of the row fails, or sendInvitation throws.
JobFails(i) ==
    /\ \/ job[i] = "queued" /\ Fault /\ UNCHANGED <<mailed, refused>>
       \/ job[i] = "sending" /\ SendMailThrows(i)
    /\ Retry(i)
    /\ repeats' = [repeats EXCEPT ![i] =
                     IF mailed' # mailed /\ job'[i] = "queued" THEN @ + 1 ELSE @]
    /\ UNCHANGED <<session, invitations, async, strays, request, page>>

\* BullMQ queues a stalled job again, unless it has stalled too often.
Stalls(i) ==
    /\ Fault
    /\ \E state \in {"queued", "failed"} : job' = [job EXCEPT ![i] = state]

\* The worker dies, maybe with the mail out.
WorkerCrashes(i) ==
    /\ job[i] \in {"sending", "sent"}
    /\ Stalls(i)
    /\ repeats' = [repeats EXCEPT ![i] =
                     IF job[i] = "sent" /\ job'[i] = "queued" THEN @ + 1 ELSE @]
    /\ UNCHANGED <<session, invitations, async, attempts, strays, mailed, refused, request, page>>

\* The worker's lock is not renewed in time, and its job goes to another one; what it
\* still does with the job counts for nothing, but its mail goes out.
LockExpires(i) ==
    /\ job[i] \in {"sending", "sent"}
    /\ Stalls(i)
    /\ strays' = [strays EXCEPT ![i] = IF job[i] = "sending" THEN @ + 1 ELSE @]
    /\ repeats' = [repeats EXCEPT ![i] = IF job'[i] = "queued" THEN @ + 1 ELSE @]
    /\ UNCHANGED <<session, invitations, async, attempts, mailed, refused, request, page>>

StrayMails(i) ==
    /\ strays[i] > 0
    /\ strays' = [strays EXCEPT ![i] = @ - 1]
    /\ SendMail(i) \/ SendMailThrows(i)
    /\ UNCHANGED <<session, invitations, async, job, attempts, repeats, request, page>>

-----------------------------------------------------------------------------
Handle(n) ==
    \/ ResolveContext(n) \/ CreateInvitation(n) \/ Enqueue(n) \/ MailInline(n) \/ RecordEvent(n)

Work(i) == StartJob(i) \/ MailJob(i) \/ CompleteJob(i)

Next ==
    \/ \E role \in Roles : Submit(role)
    \/ Refresh \/ RequestAnswered \/ RequestTimesOut \/ Reconcile \/ ReconcileFails
    \/ \E o \in Orgs : SwitchOrganization(o)
    \/ \E n \in Submits : Handle(n) \/ EnqueueFails(n) \/ MailInlineFails(n) \/ RequestFails(n)
    \/ \E i \in Submits :
          Work(i) \/ Accept(i) \/ JobFails(i) \/ WorkerCrashes(i) \/ LockExpires(i) \/ StrayMails(i)

Spec == Init /\ [][Next]_vars

-----------------------------------------------------------------------------
(* Properties.                                                             *)

\* "Invitation queued for ..." is said only if an invitation with the submitted role
\* was created, however the answer, the 45 s and the refetches raced; it may be an
\* earlier one that was found in the list.
QueuedNoticesAreTrue ==
    notice = "queued" =>
        \E i \in Submits :
            invitations[i] # None /\ invitations[i].role = request[submitted].role

\* The invitation goes to the organisation the page named at the click, unless the
\* session was switched since the page read its list: a switch leaves the list of
\* the old organisation on the page and sends the invitation to the new one.
InvitationsGoWhereShown ==
    \A n \in Submits :
        invitations[n] # None =>
            request[n].moved \/ invitations[n].org = request[n].shown

\* A job completes only when its mail was sent or its invitation is no longer pending,
\* whatever crashes, lost locks and exceptions left it at.  The one exception is a mail
\* that Resend refused: the mailer does not look at the result, so it is not tried again.
DoneJobsAreMailed ==
    \A i \in Submits :
        job[i] = "done" =>
            \/ mailed[i] > 0
            \/ invitations[i].status # "pending"
            \/ SilentRefusals /\ refused[i]

\* An invitation is mailed once, and once more only where the queue took a job or the
\* provider a mail and did not say so, or a worker died with the mail out or lost the
\* lock of its job.
MailsAreExplained ==
    \A i \in Submits : mailed[i] <= 1 + repeats[i]

================================================================================
