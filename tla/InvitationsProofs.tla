--------------------------- MODULE InvitationsProofs ---------------------------
(***************************************************************************)
(* Proofs about Invitations, for any organisations, roles and bounds.      *)
(*                                                                         *)
(* KInv says how far the invitation of a submission has come from the step *)
(* of its request.  On it rest three invariants that need nothing of each  *)
(* other: where an invitation goes (AInv), what the page knows (NInv) and  *)
(* how many mails are still to come (MInv).                                *)
(***************************************************************************)
EXTENDS Invitations, TLAPS

RequestsKnown ==
    \A n \in Submits :
        /\ n > submitted => request[n].step = "none"
        /\ request[n].step \in {"none", "resolve", "create"} => invitations[n] = None
        /\ request[n].step \in {"enqueue", "mail", "audit", "ok"} => invitations[n] # None
        /\ request[n].step # "none" => request[n].role \in Roles
        /\ request[n].step = "create" => request[n].org \in Orgs
        /\ invitations[n] # None => invitations[n].role = request[n].role

FormKnown == form # "idle" => submitted \in Submits

KInv == TypeOK /\ RequestsKnown /\ FormKnown

\* What a request will invite to, or has, is what its user saw.
AInv ==
    \A n \in Submits :
        /\ request[n].step = "resolve" => request[n].moved \/ request[n].shown = active
        /\ request[n].step = "create" => request[n].moved \/ request[n].shown = request[n].org
        /\ invitations[n] # None => request[n].moved \/ invitations[n].org = request[n].shown

\* Rows on the page exist.
NInv ==
    /\ \A i \in shown.rows : invitations[i] # None
    /\ notice = "queued" => submitted \in Submits
    /\ QueuedNoticesAreTrue

\* The mails that the request, the job and the stray workers of i are about to send.
Due(i) ==
    (IF request[i].step \in {"enqueue", "mail"} THEN 1 ELSE 0)
      + (IF job[i] \in {"queued", "sending"} THEN 1 ELSE 0)
      + strays[i]

\* The mail of i went out, or was refused and nobody looked.
Answered(i) == mailed[i] > 0 \/ (SilentRefusals /\ refused[i])

MailsKnown(i) ==
    /\ job[i] # "none" => invitations[i] # None
    /\ request[i].step \in {"none", "resolve", "create", "enqueue"} => job[i] = "none" /\ strays[i] = 0
    /\ request[i].step \in {"none", "resolve", "create"} => mailed[i] = 0
    /\ job[i] = "sent" => Answered(i)
    /\ job[i] = "done" => Answered(i) \/ invitations[i].status # "pending"
    /\ mailed[i] + Due(i) <= 1 + repeats[i]

MInv == \A i \in Submits : MailsKnown(i)

-----------------------------------------------------------------------------
(* Types.                                                                  *)

\* The record of a request after an update of one of its fields.
LEMMA RequestUpdates ==
    ASSUME NEW r \in Requests, NEW s \in RequestSteps, NEW o \in Orgs, NEW b \in BOOLEAN
    PROVE  /\ [r EXCEPT !.step = s] \in Requests
           /\ [r EXCEPT !.step = s, !.org = o] \in Requests
           /\ [r EXCEPT !.moved = b] \in Requests
BY DEF Requests

\* The initial states.
LEMMA KInit == Init => KInv
<1> SUFFICES ASSUME Init PROVE KInv
  OBVIOUS
<1>1. request \in [Submits -> Requests]
  BY DEF Init, Requests, RequestSteps
<1>2. TypeOK
  <2>1. /\ invitations \in [Submits -> Invitation \cup {None}]
        /\ job \in [Submits -> {"none", "queued", "sending", "sent", "done", "failed"}]
        /\ attempts \in [Submits -> Nat]
        /\ mailed \in [Submits -> Nat]
        /\ repeats \in [Submits -> Nat]
        /\ strays \in [Submits -> Nat]
        /\ refused \in [Submits -> BOOLEAN]
    BY InvitationAssumption DEF Init
  <2>2. shown \in [org : Orgs, rows : SUBSET Submits]
    BY DEF Init
  <2>3. /\ submitted \in 0..MaxSubmits
        /\ switches \in 0..MaxSwitches
        /\ faults \in 0..MaxFaults
    BY InvitationAssumption DEF Init
  <2>4. async \in BOOLEAN /\ active \in Orgs /\ notice = None /\ form = "idle"
    BY DEF Init
  <2>5. QED
    BY <1>1, <2>1, <2>2, <2>3, <2>4 DEF TypeOK
<1>3. \A n \in Submits : request[n].step = "none" /\ invitations[n] = None
  BY DEF Init
<1>4. RequestsKnown
  BY <1>3 DEF RequestsKnown
<1>5. FormKnown
  BY DEF Init, FormKnown
<1>6. QED
  BY <1>2, <1>4, <1>5 DEF KInv

\* Steps that leave requests and rows alone, or a fault more or less.
LEMMA KFrame ==
    ASSUME KInv, UNCHANGED <<invitations, request, submitted>>,
           active' \in Orgs, switches' \in 0..MaxSwitches, faults' \in 0..MaxFaults,
           async' \in BOOLEAN,
           job' \in [Submits -> {"none", "queued", "sending", "sent", "done", "failed"}],
           attempts' \in [Submits -> Nat],
           mailed' \in [Submits -> Nat], repeats' \in [Submits -> Nat],
           strays' \in [Submits -> Nat], refused' \in [Submits -> BOOLEAN],
           shown' \in [org : Orgs, rows : SUBSET Submits],
           form' \in {"idle", "sending", "refetching"}, form' # "idle" => form # "idle",
           notice' \in {None, "queued", "error"}
    PROVE  KInv'
BY DEF KInv, TypeOK, RequestsKnown, FormKnown

\* A step of request n alone, to a step with the same knowledge of its row.
LEMMA KStep ==
    ASSUME KInv, NEW n \in Submits, NEW s \in RequestSteps,
           request[n].step \notin {"none"}, s # "none",
           request' = [request EXCEPT ![n].step = s],
           s \in {"resolve", "create"} => FALSE,
           s \in {"enqueue", "mail", "audit", "ok"} => invitations[n] # None,
           UNCHANGED <<session, invitations, async, page>>,
           job' \in [Submits -> {"none", "queued", "sending", "sent", "done", "failed"}],
           attempts' \in [Submits -> Nat],
           mailed' \in [Submits -> Nat], repeats' \in [Submits -> Nat],
           strays' \in [Submits -> Nat], refused' \in [Submits -> BOOLEAN],
           faults' \in 0..MaxFaults
    PROVE  KInv'
<1>1. request' \in [Submits -> Requests]
  BY RequestUpdates DEF KInv, TypeOK
<1>2. TypeOK'
  BY <1>1 DEF KInv, TypeOK, session, page
<1>3. RequestsKnown'
  BY DEF KInv, TypeOK, Requests, RequestsKnown, page
<1>4. FormKnown'
  BY DEF KInv, FormKnown, page
<1>5. QED
  BY <1>2, <1>3, <1>4 DEF KInv

\* Each action keeps what is known of the requests.
LEMMA KSubmit == ASSUME KInv, NEW role \in Roles, Submit(role) PROVE KInv'
<1>1. submitted + 1 \in Submits /\ submitted \in Int /\ shown.org \in Orgs
  BY InvitationAssumption DEF KInv, TypeOK, Submit, Submits
<1>2. (shown.org # active) \in BOOLEAN
  OBVIOUS
<1>3. PICK moved \in BOOLEAN :
        request' = [request EXCEPT ![submitted + 1] =
                      [step |-> "resolve", role |-> role, org |-> None,
                       shown |-> shown.org, moved |-> moved]]
  BY <1>2 DEF Submit
<1>4. [step |-> "resolve", role |-> role, org |-> None, shown |-> shown.org, moved |-> moved]
        \in Requests
  BY <1>1, <1>3 DEF Requests, RequestSteps
<1>5. request' \in [Submits -> Requests]
  BY <1>3, <1>4 DEF KInv, TypeOK
<1>6. submitted' \in 0..MaxSubmits
  BY InvitationAssumption DEF KInv, TypeOK, Submit
<1>7. TypeOK'
  BY <1>5, <1>6 DEF KInv, TypeOK, Submit, session, mails
<1>8. RequestsKnown'
  BY <1>1, <1>3 DEF KInv, TypeOK, RequestsKnown, Submit, Submits
<1>9. FormKnown'
  BY <1>1 DEF FormKnown, Submit
<1>10. QED
  BY <1>7, <1>8, <1>9 DEF KInv

\* A switch marks the requests that have still to resolve.
LEMMA KSwitch == ASSUME KInv, NEW o \in Orgs, SwitchOrganization(o) PROVE KInv'
<1>1. \A n \in Submits : (request[n].moved \/ request[n].step = "resolve") \in BOOLEAN
  OBVIOUS
<1>2. \A n \in Submits : \E b \in BOOLEAN :
        request'[n] = [request[n] EXCEPT !.moved = b]
  BY <1>1 DEF SwitchOrganization
<1>3. ASSUME NEW n \in Submits
      PROVE  /\ request'[n] \in Requests
             /\ request'[n].step = request[n].step
             /\ request'[n].role = request[n].role
             /\ request'[n].org = request[n].org
  <2>1. PICK b \in BOOLEAN : request'[n] = [request[n] EXCEPT !.moved = b]
    BY <1>2
  <2>2. request[n] \in Requests
    BY DEF KInv, TypeOK
  <2>3. QED
    BY <2>1, <2>2 DEF Requests
<1>4. request' \in [Submits -> Requests]
  BY <1>3 DEF SwitchOrganization
<1>6. switches' \in 0..MaxSwitches
  BY InvitationAssumption DEF KInv, TypeOK, SwitchOrganization
<1>7. TypeOK'
  BY <1>4, <1>6 DEF KInv, TypeOK, SwitchOrganization, mails, page
<1>8. RequestsKnown'
  BY <1>3 DEF KInv, RequestsKnown, SwitchOrganization, page
<1>9. FormKnown'
  BY DEF KInv, FormKnown, SwitchOrganization, page
<1>10. QED
  BY <1>7, <1>8, <1>9 DEF KInv

\* The request takes the organisation that is active.
LEMMA KResolve == ASSUME KInv, NEW n \in Submits, ResolveContext(n) PROVE KInv'
<1>1. request' = [request EXCEPT ![n] = [@ EXCEPT !.step = "create", !.org = active]]
  BY DEF ResolveContext, OrganizationOf, KInv, TypeOK
<1>2. request[n] \in Requests /\ active \in Orgs /\ request[n].step = "resolve"
  BY DEF KInv, TypeOK, ResolveContext
<1>3. request' \in [Submits -> Requests]
  BY <1>1, <1>2, RequestUpdates DEF KInv, TypeOK, RequestSteps
<1>4. TypeOK'
  BY <1>3 DEF KInv, TypeOK, ResolveContext, session, mails, page
<1>5. /\ request'[n].step = "create" /\ request'[n].org = active
      /\ request'[n].role = request[n].role
      /\ \A m \in Submits \ {n} : request'[m] = request[m]
  BY <1>1, <1>2 DEF KInv, TypeOK, Requests
<1>6. RequestsKnown'
  BY <1>2, <1>5, ZenonT(60) DEF KInv, RequestsKnown, ResolveContext, page
<1>7. FormKnown'
  BY DEF KInv, FormKnown, ResolveContext, page
<1>8. QED
  BY <1>4, <1>6, <1>7 DEF KInv

\* A row is created, or the call fails.
LEMMA KCreate == ASSUME KInv, NEW n \in Submits, CreateInvitation(n) PROVE KInv'
<1>1. /\ request[n] \in Requests /\ request[n].step = "create"
      /\ request[n].org \in Orgs /\ request[n].role \in Roles
      /\ UNCHANGED <<session, mails, page, faults>>
  BY DEF KInv, TypeOK, RequestsKnown, CreateInvitation
<1>2. CASE /\ request' = [request EXCEPT ![n].step = "failed"]
           /\ UNCHANGED invitations
  BY <1>1, <1>2, KStep DEF KInv, TypeOK, RequestSteps, mails
<1>3. ASSUME NEW s \in {"enqueue", "mail"},
             request' = [request EXCEPT ![n].step = s],
             invitations' = [i \in Submits |->
               CASE i = n -> [org |-> request[n].org, role |-> request[n].role,
                              status |-> "pending"]
                 [] i # n /\ i \in Pending(request[n].org) ->
                      [invitations[i] EXCEPT !.status = "canceled"]
                 [] OTHER -> invitations[i]]
      PROVE  KInv'
  <2>1. invitations'[n] \in Invitation /\ invitations'[n].role = request[n].role
    BY <1>1, <1>3 DEF Invitation
  <2>2. ASSUME NEW i \in Submits \ {n}
        PROVE  \/ invitations'[i] = invitations[i]
               \/ /\ invitations[i] # None
                  /\ invitations'[i] \in Invitation
                  /\ invitations'[i].role = invitations[i].role
    <3>1. invitations[i] \in Invitation \cup {None}
      BY DEF KInv, TypeOK
    <3>2. CASE i \in Pending(request[n].org)
      BY <1>3, <3>1, <3>2 DEF Pending, Status, Invitation
    <3>3. CASE i \notin Pending(request[n].org)
      BY <1>3, <3>3
    <3>4. QED
      BY <3>2, <3>3
  <2>3. invitations' \in [Submits -> Invitation \cup {None}]
    <3>1. \A i \in Submits : invitations'[i] \in Invitation \cup {None}
      BY <2>1, <2>2 DEF KInv, TypeOK
    <3>2. QED
      BY <1>3, <3>1
  <2>4. request' \in [Submits -> Requests]
    BY <1>1, <1>3, RequestUpdates DEF KInv, TypeOK, RequestSteps
  <2>5. TypeOK'
    BY <1>1, <2>3, <2>4 DEF KInv, TypeOK, session, mails, page
  <2>6. /\ request'[n].step = s /\ request'[n].role = request[n].role
        /\ \A m \in Submits \ {n} : request'[m] = request[m]
    BY <1>1, <1>3 DEF KInv, TypeOK, Requests
  <2>7. RequestsKnown'
    <3>1. submitted' = submitted /\ invitations'[n] # None
      BY <1>1, <2>1, RowAssumption DEF page
    <3>2. ASSUME NEW i \in Submits \ {n} PROVE (invitations'[i] = None) <=> (invitations[i] = None)
      BY <2>2, RowAssumption
    <3>3. QED
      BY <1>1, <1>3, <2>1, <2>2, <2>6, <3>1, <3>2 DEF KInv, RequestsKnown
  <2>8. FormKnown'
    BY <1>1 DEF KInv, FormKnown, page
  <2>9. QED
    BY <2>5, <2>7, <2>8 DEF KInv
<1>4. QED
  BY <1>2, <1>3 DEF CreateInvitation

\* The invited user accepts; only the status changes.
LEMMA KAccept == ASSUME KInv, NEW i \in Submits, Accept(i) PROVE KInv'
<1>1. invitations[i] \in Invitation
  BY DEF KInv, TypeOK, Accept, Status
<1>2. /\ invitations' = [invitations EXCEPT ![i] = [invitations[i] EXCEPT !.status = "accepted"]]
      /\ UNCHANGED <<session, mails, request, page, faults>>
  BY DEF Accept
<1>3. /\ [invitations[i] EXCEPT !.status = "accepted"] \in Invitation
      /\ [invitations[i] EXCEPT !.status = "accepted"].role = invitations[i].role
  BY <1>1 DEF Invitation
<1>4. /\ invitations'[i] \in Invitation /\ invitations'[i].role = invitations[i].role
      /\ \A m \in Submits \ {i} : invitations'[m] = invitations[m]
  BY <1>2, <1>3 DEF KInv, TypeOK
<1>5. invitations' \in [Submits -> Invitation \cup {None}]
  BY <1>2, <1>3 DEF KInv, TypeOK
<1>6. TypeOK'
  BY <1>2, <1>5 DEF KInv, TypeOK, session, mails, page
<1>7. RequestsKnown'
  BY <1>1, <1>2, <1>4, RowAssumption DEF KInv, RequestsKnown, page
<1>8. FormKnown'
  BY <1>2 DEF KInv, FormKnown, page
<1>9. QED
  BY <1>6, <1>7, <1>8 DEF KInv

\* The steps of the page that submit nothing.
LEMMA KPage ==
    ASSUME KInv, Refresh \/ RequestAnswered \/ RequestTimesOut \/ Reconcile \/ ReconcileFails
    PROVE  KInv'
<1>1. [org |-> active, rows |-> Pending(active)] \in [org : Orgs, rows : SUBSET Submits]
  BY DEF KInv, TypeOK, Pending
<1>2. CASE Refresh
  BY <1>1, <1>2, KFrame DEF Refresh, Refetched, KInv, TypeOK, session, mails
<1>3. CASE RequestAnswered
  BY <1>3, KFrame DEF RequestAnswered, KInv, TypeOK, session, mails
<1>4. CASE RequestTimesOut
  BY <1>4, KFrame DEF RequestTimesOut, KInv, TypeOK, session, mails
<1>5. CASE Reconcile
  BY <1>1, <1>5, KFrame DEF Reconcile, Refetched, KInv, TypeOK, session, mails
<1>6. CASE ReconcileFails
  <2>1. faults' \in 0..MaxFaults
    BY <1>6, InvitationAssumption DEF ReconcileFails, Fault, KInv, TypeOK
  <2>2. QED
    BY <1>6, <2>1, KFrame DEF ReconcileFails, KInv, TypeOK, session, mails
<1>7. QED
  BY <1>2, <1>3, <1>4, <1>5, <1>6

\* What a call of the mailer leaves, whether it returns or throws.
LEMMA Sends ==
    ASSUME KInv, NEW i \in Submits, SendMail(i) \/ SendMailThrows(i)
    PROVE  /\ mailed' \in [Submits -> Nat] /\ refused' \in [Submits -> BOOLEAN]
           /\ faults' \in 0..MaxFaults
           /\ \A m \in Submits \ {i} : mailed'[m] = mailed[m] /\ refused'[m] = refused[m]
           /\ mailed'[i] = mailed[i] \/ mailed'[i] = mailed[i] + 1
           /\ mailed' # mailed => mailed'[i] = mailed[i] + 1
           /\ Answered(i) => Answered(i)'
           /\ SendMail(i) => Answered(i)'
<1>1. /\ mailed \in [Submits -> Nat] /\ refused \in [Submits -> BOOLEAN]
      /\ faults \in 0..MaxFaults /\ switches \in 0..MaxSwitches
  BY DEF KInv, TypeOK
<1>2. Fault => faults' \in 0..MaxFaults
  BY <1>1, InvitationAssumption DEF Fault
<1>3. CASE mailed' = [mailed EXCEPT ![i] = @ + 1] /\ refused' = refused /\ faults' \in 0..MaxFaults
  BY <1>1, <1>3 DEF Answered
<1>4. CASE mailed' = mailed /\ refused' = [refused EXCEPT ![i] = TRUE] /\ SilentRefusals
             /\ faults' \in 0..MaxFaults
  BY <1>1, <1>4 DEF Answered
<1>5. CASE mailed' = mailed /\ refused' = refused /\ SendMailThrows(i)
  <2>1. ~SendMail(i) \/ Answered(i)'
    <3>1. mailed[i] + 1 # mailed[i]
      BY <1>1
    <3> QED BY <1>1, <1>5, <3>1 DEF SendMail, Answered
  <2> QED BY <1>1, <1>2, <1>5, <2>1 DEF SendMailThrows, Answered
<1>6. \/ mailed' = [mailed EXCEPT ![i] = @ + 1] /\ refused' = refused /\ faults' \in 0..MaxFaults
      \/ /\ mailed' = mailed /\ refused' = [refused EXCEPT ![i] = TRUE] /\ SilentRefusals
         /\ faults' \in 0..MaxFaults
      \/ mailed' = mailed /\ refused' = refused /\ SendMailThrows(i)
  BY <1>1, <1>2 DEF SendMail, SendMailThrows
<1> QED BY <1>3, <1>4, <1>5, <1>6

\* The steps of a request that write no row.
LEMMA KRequest ==
    ASSUME KInv, NEW n \in Submits,
           Enqueue(n) \/ EnqueueFails(n) \/ MailInline(n) \/ MailInlineFails(n)
             \/ RecordEvent(n) \/ RequestFails(n)
    PROVE  KInv'
<1>1. Fault => faults' \in 0..MaxFaults
  BY InvitationAssumption DEF Fault, KInv, TypeOK
<1>2. /\ request[n].step \in {"enqueue", "mail", "audit"} => invitations[n] # None
      /\ faults \in 0..MaxFaults
  BY DEF KInv, TypeOK, RequestsKnown
<1>3. CASE Enqueue(n)
  BY <1>2, <1>3, KStep DEF Enqueue, KInv, TypeOK, RequestSteps
<1>4. CASE EnqueueFails(n)
  <2>1. /\ repeats' \in [Submits -> Nat]
        /\ job' \in [Submits -> {"none", "queued", "sending", "sent", "done", "failed"}]
    BY <1>4 DEF EnqueueFails, KInv, TypeOK
  <2>2. /\ UNCHANGED <<session, invitations, async, attempts, strays, mailed, refused, page>>
        /\ Fault
        /\ request[n].step = "enqueue"
        /\ request' = [request EXCEPT ![n].step = "mail"]
    BY <1>4 DEF EnqueueFails
  <2>3. QED
    BY <1>1, <1>2, <2>1, <2>2, KStep DEF KInv, TypeOK, RequestSteps
<1>5. CASE MailInline(n)
  <2>1. mailed' \in [Submits -> Nat] /\ refused' \in [Submits -> BOOLEAN] /\ faults' \in 0..MaxFaults
    BY <1>5, Sends DEF MailInline
  <2>2. /\ UNCHANGED <<session, invitations, async, job, attempts, strays, repeats, page>>
        /\ request[n].step = "mail"
        /\ request' = [request EXCEPT ![n].step = "audit"]
    BY <1>5 DEF MailInline
  <2>3. QED
    BY <1>2, <2>1, <2>2, KStep DEF KInv, TypeOK, RequestSteps
<1>6. CASE MailInlineFails(n)
  <2>1. mailed' \in [Submits -> Nat] /\ refused' \in [Submits -> BOOLEAN] /\ faults' \in 0..MaxFaults
    BY <1>6, Sends DEF MailInlineFails
  <2>2. /\ UNCHANGED <<session, invitations, async, job, attempts, strays, repeats, page>>
        /\ request[n].step = "mail"
        /\ \E step \in {"audit", "failed"} : request' = [request EXCEPT ![n].step = step]
    BY <1>6 DEF MailInlineFails
  <2>3. QED
    BY <1>2, <2>1, <2>2, KStep DEF KInv, TypeOK, RequestSteps
<1>7. CASE RecordEvent(n)
  BY <1>2, <1>7, KStep DEF RecordEvent, KInv, TypeOK, RequestSteps, mails
<1>8. CASE RequestFails(n)
  BY <1>1, <1>2, <1>8, KStep DEF RequestFails, KInv, TypeOK, RequestSteps, mails
<1>9. QED
  BY <1>3, <1>4, <1>5, <1>6, <1>7, <1>8

\* The steps of the worker.
LEMMA KWorker ==
    ASSUME KInv, NEW i \in Submits,
           \/ Work(i) \/ JobFails(i) \/ WorkerCrashes(i) \/ LockExpires(i) \/ StrayMails(i)
    PROVE  KInv'
<1>1. Fault => faults' \in 0..MaxFaults
  BY InvitationAssumption DEF Fault, KInv, TypeOK
<1>2. CASE StartJob(i)
  BY <1>2, KFrame DEF StartJob, KInv, TypeOK, session, page
<1>3. CASE MailJob(i)
  <2>1. mailed' \in [Submits -> Nat] /\ refused' \in [Submits -> BOOLEAN] /\ faults' \in 0..MaxFaults
    BY <1>3, Sends DEF MailJob
  <2> QED BY <1>3, <2>1, KFrame DEF MailJob, KInv, TypeOK, session, page
<1>4. CASE CompleteJob(i)
  BY <1>4, KFrame DEF CompleteJob, KInv, TypeOK, session, page
<1>5. CASE JobFails(i)
  <2>1. /\ attempts' \in [Submits -> Nat]
        /\ job' \in [Submits -> {"none", "queued", "sending", "sent", "done", "failed"}]
    BY <1>5 DEF JobFails, Retry, KInv, TypeOK
  <2>2. mailed' \in [Submits -> Nat] /\ refused' \in [Submits -> BOOLEAN] /\ faults' \in 0..MaxFaults
    <3>1. CASE Fault /\ UNCHANGED <<mailed, refused>>
      BY <1>1, <3>1 DEF KInv, TypeOK
    <3>2. CASE SendMailThrows(i)
      BY <3>2, Sends
    <3> QED BY <1>5, <3>1, <3>2 DEF JobFails
  <2>3. repeats' \in [Submits -> Nat]
    BY <1>5 DEF JobFails, KInv, TypeOK
  <2>4. UNCHANGED <<session, invitations, async, strays, request, page>>
    BY <1>5 DEF JobFails
  <2>5. QED
    BY <2>1, <2>2, <2>3, <2>4, KFrame DEF KInv, TypeOK, session, page
<1>6. CASE WorkerCrashes(i) \/ LockExpires(i)
  <2>1. /\ job' \in [Submits -> {"none", "queued", "sending", "sent", "done", "failed"}]
        /\ faults' \in 0..MaxFaults
    BY <1>1, <1>6 DEF WorkerCrashes, LockExpires, Stalls, KInv, TypeOK
  <2>2. repeats' \in [Submits -> Nat] /\ strays' \in [Submits -> Nat]
    BY <1>6 DEF WorkerCrashes, LockExpires, KInv, TypeOK
  <2>3. UNCHANGED <<session, invitations, async, attempts, mailed, refused, request, page>>
    BY <1>6 DEF WorkerCrashes, LockExpires
  <2> QED BY <2>1, <2>2, <2>3, KFrame DEF KInv, TypeOK, session, page
<1>7. CASE StrayMails(i)
  <2>1. mailed' \in [Submits -> Nat] /\ refused' \in [Submits -> BOOLEAN] /\ faults' \in 0..MaxFaults
    BY <1>7, Sends DEF StrayMails
  <2>2. strays' \in [Submits -> Nat]
    BY <1>7 DEF StrayMails, KInv, TypeOK
  <2>3. UNCHANGED <<session, invitations, async, job, attempts, repeats, request, page>>
    BY <1>7 DEF StrayMails
  <2> QED BY <2>1, <2>2, <2>3, KFrame DEF KInv, TypeOK, session, page
<1>8. QED
  BY <1>2, <1>3, <1>4, <1>5, <1>6, <1>7 DEF Work

\* A step that changes nothing.
LEMMA KStutter == ASSUME KInv, UNCHANGED vars PROVE KInv'
BY DEF vars, session, mails, page, KInv, TypeOK, RequestsKnown, FormKnown

\* What is known of the requests is inductive.
LEMMA KNext == KInv /\ [Next]_vars => KInv'
<1> SUFFICES ASSUME KInv, [Next]_vars PROVE KInv'
  OBVIOUS
<1>1. ASSUME NEW role \in Roles, Submit(role) PROVE KInv'
  BY <1>1, KSubmit
<1>2. CASE Refresh \/ RequestAnswered \/ RequestTimesOut \/ Reconcile \/ ReconcileFails
  BY <1>2, KPage
<1>3. ASSUME NEW o \in Orgs, SwitchOrganization(o) PROVE KInv'
  BY <1>3, KSwitch
<1>4. ASSUME NEW n \in Submits,
             Handle(n) \/ EnqueueFails(n) \/ MailInlineFails(n) \/ RequestFails(n)
      PROVE  KInv'
  BY <1>4, KResolve, KCreate, KRequest DEF Handle
<1>5. ASSUME NEW i \in Submits,
             \/ Work(i) \/ Accept(i) \/ JobFails(i) \/ WorkerCrashes(i) \/ LockExpires(i)
             \/ StrayMails(i)
      PROVE  KInv'
  BY <1>5, KAccept, KWorker
<1>6. CASE UNCHANGED vars
  BY <1>6, KStutter
<1>7. QED
  BY <1>1, <1>2, <1>3, <1>4, <1>5, <1>6 DEF Next

\* A request's step, its row and the form agree in every state.
THEOREM RequestsAreKnown == Spec => []KInv
BY KInit, KNext, PTL DEF Spec

-----------------------------------------------------------------------------
(* Where an invitation goes.                                               *)

\* At first there is no request.
LEMMA AInit == Init => AInv
BY DEF Init, AInv

\* A step that leaves rows and the session, and brings no request to "resolve" or "create".
LEMMA AFrame ==
    ASSUME KInv, AInv, UNCHANGED <<active, invitations>>,
           \A n \in Submits :
               /\ request'[n].step \in {"resolve", "create"} => request'[n].step = request[n].step
               /\ request'[n].moved = request[n].moved
               /\ request'[n].shown = request[n].shown
               /\ request'[n].org = request[n].org
    PROVE  AInv'
BY DEF AInv

\* Only its step of a request changes.
LEMMA StepOnly ==
    ASSUME KInv, NEW n \in Submits, NEW s, request' = [request EXCEPT ![n].step = s]
    PROVE  \A m \in Submits :
               /\ request'[m].step = IF m = n THEN s ELSE request[m].step
               /\ request'[m].role = request[m].role
               /\ request'[m].moved = request[m].moved
               /\ request'[m].shown = request[m].shown
               /\ request'[m].org = request[m].org
<1> SUFFICES ASSUME NEW m \in Submits
             PROVE  /\ request'[m].step = IF m = n THEN s ELSE request[m].step
                    /\ request'[m].role = request[m].role
                    /\ request'[m].moved = request[m].moved
                    /\ request'[m].shown = request[m].shown
                    /\ request'[m].org = request[m].org
  OBVIOUS
<1>1. request[m] \in Requests /\ request \in [Submits -> Requests]
  BY DEF KInv, TypeOK
<1>2. CASE m = n
  BY <1>1, <1>2 DEF Requests
<1>3. CASE m # n
  BY <1>1, <1>3
<1>4. QED
  BY <1>2, <1>3

\* Moving request n on leaves the steps of the others.
LEMMA StepIs ==
    ASSUME KInv, NEW n \in Submits, NEW s, request' = [request EXCEPT ![n].step = s]
    PROVE  \A m \in Submits : request'[m].step = IF m = n THEN s ELSE request[m].step
<1>1. \A m \in Submits :
               /\ request'[m].step = IF m = n THEN s ELSE request[m].step
               /\ request'[m].role = request[m].role
               /\ request'[m].moved = request[m].moved
               /\ request'[m].shown = request[m].shown
               /\ request'[m].org = request[m].org
  BY StepOnly
<1>2. QED
  BY <1>1

\* A row stays, with its organisation and role.
LEMMA RowsStay ==
    ASSUME KInv, [Next]_vars
    PROVE  \A i \in Submits :
               invitations[i] # None =>
                   /\ invitations'[i] # None
                   /\ invitations'[i].role = invitations[i].role
                   /\ invitations'[i].org = invitations[i].org
<1>1. ASSUME NEW n \in Submits, CreateInvitation(n), NEW i \in Submits, invitations[i] # None
      PROVE  /\ invitations'[i] # None
             /\ invitations'[i].role = invitations[i].role
             /\ invitations'[i].org = invitations[i].org
  <2>1. i # n /\ invitations[i] \in Invitation
    BY <1>1 DEF KInv, TypeOK, RequestsKnown, CreateInvitation
  <2>2. \/ invitations'[i] = invitations[i]
        \/ invitations'[i] = [invitations[i] EXCEPT !.status = "canceled"]
    BY <1>1, <2>1 DEF CreateInvitation
  <2>3. [invitations[i] EXCEPT !.status = "canceled"] \in Invitation
    BY <2>1 DEF Invitation
  <2>4. QED
    BY <2>1, <2>2, <2>3, RowAssumption DEF Invitation
<1>2. ASSUME NEW n \in Submits, Accept(n), NEW i \in Submits, invitations[i] # None
      PROVE  /\ invitations'[i] # None
             /\ invitations'[i].role = invitations[i].role
             /\ invitations'[i].org = invitations[i].org
  <2>1. invitations[i] \in Invitation /\ invitations \in [Submits -> Invitation \cup {None}]
    BY <1>2 DEF KInv, TypeOK
  <2>2. \/ invitations'[i] = invitations[i]
        \/ invitations'[i] = [invitations[i] EXCEPT !.status = "accepted"]
    BY <1>2, <2>1 DEF Accept
  <2>3. [invitations[i] EXCEPT !.status = "accepted"] \in Invitation
    BY <2>1 DEF Invitation
  <2>4. QED
    BY <2>1, <2>2, <2>3, RowAssumption DEF Invitation
<1>3. \/ \E n \in Submits : CreateInvitation(n) \/ Accept(n)
      \/ UNCHANGED invitations
  BY DEF Next, vars, Submit, Refresh, RequestAnswered, RequestTimesOut, Reconcile, ReconcileFails,
         SwitchOrganization, Handle, ResolveContext, Enqueue, MailInline, RecordEvent,
         EnqueueFails, MailInlineFails, RequestFails, Work, StartJob, MailJob, CompleteJob,
         JobFails, WorkerCrashes, LockExpires, StrayMails
<1>4. QED
  BY <1>1, <1>2, <1>3

\* Where an invitation goes is inductive.
LEMMA ANext == KInv /\ AInv /\ [Next]_vars => AInv'
<1> SUFFICES ASSUME KInv, AInv, [Next]_vars PROVE AInv'
  OBVIOUS
<1>1. ASSUME NEW role \in Roles, Submit(role) PROVE AInv'
  <2>1. submitted + 1 \in Submits /\ request \in [Submits -> Requests]
    BY <1>1, InvitationAssumption DEF KInv, TypeOK, Submit, Submits
  <2>2. request[submitted + 1].step = "none"
    BY <2>1 DEF KInv, TypeOK, RequestsKnown, Submits
  <2>3. invitations[submitted + 1] = None /\ invitations' = invitations /\ active' = active
    BY <1>1, <2>1, <2>2 DEF KInv, RequestsKnown, Submit, session
  <2>4. /\ request'[submitted + 1].step = "resolve"
        /\ request'[submitted + 1].moved \/ request'[submitted + 1].shown = active
        /\ \A m \in Submits \ {submitted + 1} : request'[m] = request[m]
    BY <1>1, <2>1 DEF Submit
  <2>5. QED
    BY <2>3, <2>4 DEF AInv
<1>2. CASE Refresh \/ RequestAnswered \/ RequestTimesOut \/ Reconcile \/ ReconcileFails
  <2>1. UNCHANGED <<active, invitations, request>>
    BY <1>2 DEF Refresh, RequestAnswered, RequestTimesOut, Reconcile, ReconcileFails, session
  <2>2. QED
    BY <2>1 DEF AInv
<1>3. ASSUME NEW o \in Orgs, SwitchOrganization(o) PROVE AInv'
  <2>1. ASSUME NEW n \in Submits
        PROVE  /\ request'[n].step = request[n].step
               /\ request'[n].shown = request[n].shown
               /\ request'[n].org = request[n].org
               /\ request'[n].moved <=> request[n].moved \/ request[n].step = "resolve"
    <3>1. request[n] \in Requests
      BY DEF KInv, TypeOK
    <3>2. PICK b \in BOOLEAN : b <=> request[n].moved \/ request[n].step = "resolve"
      OBVIOUS
    <3>3. request'[n] = [request[n] EXCEPT !.moved = (request[n].moved \/ request[n].step = "resolve")]
      BY <1>3 DEF SwitchOrganization
    <3>4. request'[n].moved = (request[n].moved \/ request[n].step = "resolve")
      BY <3>1, <3>3 DEF Requests
    <3>5. QED
      BY <3>1, <3>3, <3>4 DEF Requests
  <2>2. invitations' = invitations
    BY <1>3 DEF SwitchOrganization
  <2>3. QED
    BY <2>1, <2>2 DEF AInv
<1>4. ASSUME NEW n \in Submits, ResolveContext(n) PROVE AInv'
  <2>1. request' = [request EXCEPT ![n] = [@ EXCEPT !.step = "create", !.org = active]]
    BY <1>4 DEF ResolveContext, OrganizationOf, KInv, TypeOK
  <2>2. request[n] \in Requests /\ request[n].step = "resolve" /\ request \in [Submits -> Requests]
    BY <1>4 DEF KInv, TypeOK, ResolveContext
  <2>3. /\ request'[n].step = "create" /\ request'[n].org = active
        /\ request'[n].moved = request[n].moved /\ request'[n].shown = request[n].shown
        /\ \A m \in Submits \ {n} : request'[m] = request[m]
    BY <2>1, <2>2 DEF Requests
  <2>4. invitations' = invitations /\ active' = active
    BY <1>4 DEF ResolveContext, session
  <2>5. QED
    BY <2>2, <2>3, <2>4 DEF AInv
<1>5. ASSUME NEW n \in Submits, CreateInvitation(n) PROVE AInv'
  <2>1. active' = active /\ request[n].step = "create"
    BY <1>5 DEF CreateInvitation, session
  <2>2. PICK s \in {"enqueue", "mail", "failed"} : request' = [request EXCEPT ![n].step = s]
    BY <1>5 DEF CreateInvitation
  <2>3. \A m \in Submits :
            /\ request'[m].step = IF m = n THEN s ELSE request[m].step
            /\ request'[m].role = request[m].role
            /\ request'[m].moved = request[m].moved
            /\ request'[m].shown = request[m].shown
            /\ request'[m].org = request[m].org
    BY <2>2, StepOnly
  <2>4. invitations[n] = None
    BY <2>1 DEF KInv, RequestsKnown
  <2>5. invitations'[n] = None \/ invitations'[n].org = request[n].org
    BY <1>5, <2>4 DEF CreateInvitation
  <2>6. \A m \in Submits \ {n} :
            invitations'[m] # None => invitations[m] # None /\ invitations'[m].org = invitations[m].org
    <3>1. SUFFICES ASSUME NEW m \in Submits \ {n}, invitations'[m] # None
                   PROVE  invitations[m] # None
      BY RowsStay, <1>5 DEF Next, Handle
    <3>2. \/ invitations'[m] = invitations[m]
          \/ m \in Pending(request[n].org)
      BY <1>5 DEF CreateInvitation
    <3>3. QED
      BY <3>1, <3>2 DEF Pending, Status
  <2>7. QED
    BY <2>1, <2>3, <2>5, <2>6 DEF AInv
<1>6. ASSUME NEW n \in Submits,
             \/ Enqueue(n) \/ EnqueueFails(n) \/ MailInline(n) \/ MailInlineFails(n)
             \/ RecordEvent(n) \/ RequestFails(n)
      PROVE  AInv'
  <2>1. UNCHANGED <<active, invitations>>
    BY <1>6 DEF Enqueue, EnqueueFails, MailInline, MailInlineFails, RecordEvent, RequestFails, session
  <2>2. PICK s \in {"mail", "audit", "ok", "failed"} : request' = [request EXCEPT ![n].step = s]
    BY <1>6 DEF Enqueue, EnqueueFails, MailInline, MailInlineFails, RecordEvent, RequestFails
  <2>3. \A m \in Submits :
            /\ request'[m].step = IF m = n THEN s ELSE request[m].step
            /\ request'[m].role = request[m].role
            /\ request'[m].moved = request[m].moved
            /\ request'[m].shown = request[m].shown
            /\ request'[m].org = request[m].org
    BY <2>2, StepOnly
  <2>4. QED
    BY <2>1, <2>3, AFrame
<1>7. ASSUME NEW i \in Submits, Accept(i) PROVE AInv'
  <2>1. UNCHANGED <<active, request>> /\ invitations[i] # None
    BY <1>7 DEF Accept, Status, session
  <2>2. \A m \in Submits \ {i} : invitations'[m] = invitations[m]
    BY <1>7 DEF Accept, KInv, TypeOK
  <2>3. invitations'[i].org = invitations[i].org
    BY <1>7, <2>1, RowsStay DEF Next
  <2>4. QED
    BY <2>1, <2>2, <2>3 DEF AInv
<1>8. ASSUME NEW i \in Submits,
             \/ Work(i) \/ JobFails(i) \/ WorkerCrashes(i) \/ LockExpires(i) \/ StrayMails(i)
      PROVE  AInv'
  <2>1. UNCHANGED <<active, invitations, request>>
    BY <1>8 DEF Work, StartJob, MailJob, CompleteJob, JobFails, WorkerCrashes, LockExpires,
                StrayMails, session
  <2>2. QED
    BY <2>1 DEF AInv
<1>9. CASE UNCHANGED vars
  BY <1>9 DEF vars, session, AInv
<1>10. QED
  BY <1>1, <1>2, <1>3, <1>4, <1>5, <1>6, <1>7, <1>8, <1>9 DEF Next, Handle

\* An invitation belongs to the organisation that its sender saw, or the session was
\* switched between the page's read and the request's.
THEOREM InvitationsAreWhereShown == Spec => []InvitationsGoWhereShown
<1>1. AInv => InvitationsGoWhereShown
  BY DEF AInv, InvitationsGoWhereShown
<1>2. QED
  BY <1>1, AInit, ANext, RequestsAreKnown, PTL DEF Spec

-----------------------------------------------------------------------------
(* What the page says.                                                     *)

\* At first there is no notice.
LEMMA NInit == Init => NInv
BY InvitationAssumption DEF Init, NInv, QueuedNoticesAreTrue

\* The notice, the list and the form's request stay.
LEMMA NFrame ==
    ASSUME KInv, NInv, [Next]_vars, UNCHANGED <<shown, notice, submitted>>,
           submitted \in Submits => request'[submitted].role = request[submitted].role
    PROVE  NInv'
<1>1. \A i \in Submits :
         invitations[i] # None =>
             invitations'[i] # None /\ invitations'[i].role = invitations[i].role
  BY RowsStay
<1>2. shown.rows \in SUBSET Submits
  BY DEF KInv, TypeOK
<1>3. (\A i \in shown.rows : invitations[i] # None)'
  BY <1>1, <1>2 DEF NInv
<1>4. QueuedNoticesAreTrue' /\ (notice = "queued" => submitted \in Submits)'
  BY <1>1 DEF NInv, QueuedNoticesAreTrue
<1>5. QED
  BY <1>3, <1>4 DEF NInv

\* A matching row is an invitation of the submitted role.
LEMMA MatchFound ==
    ASSUME NEW rows \in SUBSET Submits, \A i \in rows : invitations[i] # None, Matches(rows)
    PROVE  \E i \in Submits :
               invitations[i] # None /\ invitations[i].role = request[submitted].role
BY DEF Matches

\* What notices say is inductive.
LEMMA NNext == KInv /\ NInv /\ [Next]_vars => NInv'
<1> SUFFICES ASSUME KInv, NInv, [Next]_vars PROVE NInv'
  OBVIOUS
<1>a. \A i \in Pending(active) : i \in Submits /\ invitations[i] # None
  BY DEF Pending, Status
<1>1. ASSUME NEW role \in Roles, Submit(role) PROVE NInv'
  <2>1. UNCHANGED <<invitations, shown>> /\ notice' = None
    BY <1>1 DEF Submit
  <2>2. None # "queued"
    BY InvitationAssumption
  <2>3. QED
    BY <2>1, <2>2 DEF NInv, QueuedNoticesAreTrue
<1>2. CASE Refresh
  BY <1>a, <1>2 DEF Refresh, Refetched, NInv, QueuedNoticesAreTrue
<1>3. CASE RequestAnswered
  <2>1. submitted \in Submits /\ submitted' = submitted
    BY <1>3 DEF RequestAnswered, KInv, FormKnown
  <2>2. UNCHANGED <<invitations, request, shown>>
    BY <1>3 DEF RequestAnswered
  <2>3. ASSUME notice' = "queued"
        PROVE  invitations[submitted] # None
                 /\ invitations[submitted].role = request[submitted].role
    <3>1. request[submitted].step = "ok"
      BY <1>3, <2>3 DEF RequestAnswered
    <3>2. QED
      BY <2>1, <3>1 DEF KInv, RequestsKnown
  <2>4. QED
    BY <2>1, <2>2, <2>3 DEF NInv, QueuedNoticesAreTrue
<1>4. CASE RequestTimesOut
  BY <1>4, NFrame DEF RequestTimesOut
<1>5. CASE Reconcile
  <2>1. submitted \in Submits /\ submitted' = submitted
    BY <1>5 DEF Reconcile, KInv, FormKnown
  <2>2. UNCHANGED <<invitations, request>> /\ shown'.rows = Pending(active)
    BY <1>5 DEF Reconcile, Refetched
  <2>3. notice' = "queued" => Matches(Pending(active))
    BY <1>5 DEF Reconcile
  <2>4. QED
    BY <1>a, <2>1, <2>2, <2>3, MatchFound DEF NInv, QueuedNoticesAreTrue
<1>6. CASE ReconcileFails
  <2>1. submitted \in Submits /\ submitted' = submitted
    BY <1>6 DEF ReconcileFails, KInv, FormKnown
  <2>2. UNCHANGED <<invitations, request, shown>> /\ shown.rows \in SUBSET Submits
    BY <1>6 DEF ReconcileFails, KInv, TypeOK
  <2>3. notice' = "queued" => Matches(shown.rows)
    BY <1>6 DEF ReconcileFails
  <2>4. QED
    BY <2>1, <2>2, <2>3, MatchFound DEF NInv, QueuedNoticesAreTrue
<1>7. ASSUME NEW o \in Orgs, SwitchOrganization(o) PROVE NInv'
  <2>1. ASSUME submitted \in Submits PROVE request'[submitted].role = request[submitted].role
    <3>1. request[submitted] \in Requests
      BY <2>1 DEF KInv, TypeOK
    <3>2. request'[submitted] =
            [request[submitted] EXCEPT
               !.moved = (request[submitted].moved \/ request[submitted].step = "resolve")]
      BY <1>7, <2>1 DEF SwitchOrganization
    <3>3. QED
      BY <3>1, <3>2 DEF Requests
  <2>2. UNCHANGED <<shown, notice, submitted>>
    BY <1>7 DEF SwitchOrganization, page
  <2>3. QED
    BY <2>1, <2>2, NFrame
<1>8. ASSUME NEW n \in Submits, ResolveContext(n) PROVE NInv'
  <2>1. request' = [request EXCEPT ![n] = [@ EXCEPT !.step = "create", !.org = active]]
    BY <1>8 DEF ResolveContext, OrganizationOf, KInv, TypeOK
  <2>2. \A m \in Submits : request[m] \in Requests
    BY DEF KInv, TypeOK
  <2>3. ASSUME submitted \in Submits PROVE request'[submitted].role = request[submitted].role
    BY <2>1, <2>2, <2>3 DEF Requests, KInv, TypeOK
  <2>4. UNCHANGED <<shown, notice, submitted>>
    BY <1>8 DEF ResolveContext, page
  <2>5. QED
    BY <2>3, <2>4, NFrame
<1>9. ASSUME NEW n \in Submits,
             \/ CreateInvitation(n) \/ Enqueue(n) \/ EnqueueFails(n) \/ MailInline(n)
             \/ MailInlineFails(n) \/ RecordEvent(n) \/ RequestFails(n)
      PROVE  NInv'
  <2>1. PICK s \in RequestSteps : request' = [request EXCEPT ![n].step = s]
    BY <1>9 DEF CreateInvitation, Enqueue, EnqueueFails, MailInline, MailInlineFails,
                RecordEvent, RequestFails, RequestSteps
  <2>2. \A m \in Submits :
            /\ request'[m].step = IF m = n THEN s ELSE request[m].step
            /\ request'[m].role = request[m].role
            /\ request'[m].moved = request[m].moved
            /\ request'[m].shown = request[m].shown
            /\ request'[m].org = request[m].org
    BY <2>1, StepOnly
  <2>3. UNCHANGED <<shown, notice, submitted>>
    BY <1>9 DEF CreateInvitation, Enqueue, EnqueueFails, MailInline, MailInlineFails,
                RecordEvent, RequestFails, page
  <2>4. QED
    BY <2>2, <2>3, NFrame
<1>10. ASSUME NEW i \in Submits,
              \/ Work(i) \/ Accept(i) \/ JobFails(i) \/ WorkerCrashes(i) \/ LockExpires(i)
              \/ StrayMails(i)
       PROVE  NInv'
  <2>1. UNCHANGED <<request, shown, notice, submitted>>
    BY <1>10 DEF Work, StartJob, MailJob, CompleteJob, Accept, JobFails, WorkerCrashes,
                 LockExpires, StrayMails, page
  <2>2. QED
    BY <2>1, NFrame
<1>11. CASE UNCHANGED vars
  <2>1. UNCHANGED <<request, shown, notice, submitted>>
    BY <1>11 DEF vars, page
  <2>2. QED
    BY <2>1, NFrame
<1>12. QED
  BY <1>1, <1>2, <1>3, <1>4, <1>5, <1>6, <1>7, <1>8, <1>9, <1>10, <1>11 DEF Next, Handle

\* "Invitation queued" is said of an invitation that was created with the role.
THEOREM NoticesAreTrue == Spec => []QueuedNoticesAreTrue
<1>1. NInv => QueuedNoticesAreTrue
  BY DEF NInv
<1>2. QED
  BY <1>1, NInit, NNext, RequestsAreKnown, PTL DEF Spec

-----------------------------------------------------------------------------
(* How often an invitation is mailed.                                      *)

\* At first nothing is mailed.
LEMMA MInit == Init => MInv
<1> SUFFICES ASSUME Init, NEW i \in Submits PROVE MailsKnown(i)
  BY DEF MInv
<1>1. /\ job[i] = "none" /\ mailed[i] = 0 /\ repeats[i] = 0 /\ request[i].step = "none"
      /\ strays[i] = 0
  BY DEF Init
<1>2. QED
  BY <1>1 DEF MailsKnown, Due

\* A row that is not pending stays so.
LEMMA SettledStay ==
    ASSUME KInv, [Next]_vars, NEW i \in Submits, invitations[i] # None,
           invitations[i].status # "pending"
    PROVE  invitations'[i].status # "pending"
<1>1. invitations[i] \in Invitation
  BY DEF KInv, TypeOK
<1>2. ASSUME NEW n \in Submits, CreateInvitation(n) PROVE invitations'[i] = invitations[i]
  <2>1. i # n
    BY <1>2 DEF KInv, RequestsKnown, CreateInvitation
  <2>2. \A o : i \notin Pending(o)
    BY DEF Pending, Status
  <2>3. QED
    BY <1>2, <2>1, <2>2 DEF CreateInvitation
<1>3. ASSUME NEW n \in Submits, Accept(n) PROVE invitations'[i] = invitations[i]
  BY <1>3 DEF Accept, Status, KInv, TypeOK
<1>4. \/ \E n \in Submits : CreateInvitation(n) \/ Accept(n)
      \/ UNCHANGED invitations
  BY DEF Next, vars, Submit, Refresh, RequestAnswered, RequestTimesOut, Reconcile, ReconcileFails,
         SwitchOrganization, Handle, ResolveContext, Enqueue, MailInline, RecordEvent,
         EnqueueFails, MailInlineFails, RequestFails, Work, StartJob, MailJob, CompleteJob,
         JobFails, WorkerCrashes, LockExpires, StrayMails
<1>5. QED
  BY <1>2, <1>3, <1>4

\* The mails and the step of invitation i stay, or its request ends.
LEMMA MStays ==
    ASSUME KInv, [Next]_vars, NEW i \in Submits, MailsKnown(i),
           job'[i] = job[i], mailed'[i] = mailed[i], repeats'[i] = repeats[i],
           strays'[i] = strays[i], refused'[i] = refused[i],
           \/ request'[i].step = request[i].step
           \/ request'[i].step \in {"create", "failed"}
              /\ request[i].step \in {"resolve", "create"}
           \/ request'[i].step \in {"audit", "ok", "failed"}
              /\ request[i].step \in {"mail", "audit"}
    PROVE  MailsKnown(i)'
<1>1. job[i] # "none" => invitations'[i] # None
  BY RowsStay DEF MailsKnown
<1>2. Answered(i)' <=> Answered(i)
  BY DEF Answered
<1>3. job[i] = "done" => Answered(i) \/ invitations'[i].status # "pending"
  BY SettledStay DEF MailsKnown
<1>4. mailed[i] \in Nat /\ repeats[i] \in Nat /\ strays[i] \in Nat
  BY DEF KInv, TypeOK
<1>5. mailed[i] + Due(i)' <= 1 + repeats[i]
  BY <1>4 DEF MailsKnown, Due
<1>6. QED
  BY <1>1, <1>2, <1>3, <1>4, <1>5 DEF MailsKnown

\* A step that leaves the mails, and every request or the step of one.
LEMMA MFrame ==
    ASSUME KInv, MInv, [Next]_vars, UNCHANGED <<job, mailed, repeats, strays, refused>>,
           \A m \in Submits : request'[m].step = request[m].step
    PROVE  MInv'
BY MStays DEF MInv

\* A new row has one mail to come.
LEMMA MCreate == ASSUME KInv, MInv, NEW n \in Submits, CreateInvitation(n) PROVE MInv'
<1>1. PICK s \in {"enqueue", "mail", "failed"} : request' = [request EXCEPT ![n].step = s]
  BY DEF CreateInvitation
<1>2. /\ request[n].step = "create" /\ UNCHANGED <<job, mailed, repeats, strays, refused>>
      /\ [Next]_vars
  BY DEF CreateInvitation, mails, Next, Handle
<1>3. \A m \in Submits : request'[m].step = IF m = n THEN s ELSE request[m].step
  BY <1>1, StepIs, ZenonT(60)
<1>4. ASSUME NEW m \in Submits \ {n} PROVE MailsKnown(m)'
  BY <1>2, <1>3, MStays DEF MInv
<1>5. mailed[n] = 0 /\ repeats[n] \in Nat /\ job[n] = "none" /\ strays[n] = 0
  BY <1>2 DEF MInv, MailsKnown, KInv, TypeOK
<1>6. MailsKnown(n)'
  BY <1>2, <1>3, <1>5 DEF MailsKnown, Due
<1>7. QED
  BY <1>4, <1>6 DEF MInv

\* The steps of a request that queue or send its mail.
LEMMA MRequest ==
    ASSUME KInv, MInv, NEW n \in Submits,
           Enqueue(n) \/ EnqueueFails(n) \/ MailInline(n) \/ MailInlineFails(n)
    PROVE  MInv'
<1>1. PICK s \in {"mail", "audit", "failed"} : request' = [request EXCEPT ![n].step = s]
  BY DEF Enqueue, EnqueueFails, MailInline, MailInlineFails
<1>2. [Next]_vars
  BY DEF Next, Handle
<1>3. \A m \in Submits : request'[m].step = IF m = n THEN s ELSE request[m].step
  BY <1>1, StepIs, ZenonT(60)
<1>a. MailInline(n) \/ MailInlineFails(n) => SendMail(n) \/ SendMailThrows(n)
  BY DEF MailInline, MailInlineFails
<1>4. \A m \in Submits \ {n} :
          /\ job'[m] = job[m] /\ mailed'[m] = mailed[m] /\ repeats'[m] = repeats[m]
          /\ strays'[m] = strays[m] /\ refused'[m] = refused[m]
  <2>1. CASE Enqueue(n) \/ EnqueueFails(n)
    BY <2>1 DEF Enqueue, EnqueueFails, KInv, TypeOK
  <2>2. CASE MailInline(n) \/ MailInlineFails(n)
    BY <1>a, <2>2, Sends DEF MailInline, MailInlineFails
  <2> QED BY <2>1, <2>2
<1>5. \A m \in Submits \ {n} : MailsKnown(m)'
  BY <1>2, <1>3, <1>4, MStays DEF MInv
<1>6. /\ mailed[n] \in Nat /\ repeats[n] \in Nat /\ strays[n] \in Nat /\ MailsKnown(n)
      /\ job \in [Submits -> {"none", "queued", "sending", "sent", "done", "failed"}]
      /\ mailed \in [Submits -> Nat] /\ repeats \in [Submits -> Nat]
      /\ request \in [Submits -> Requests]
      /\ request[n].step \in {"enqueue", "mail"} => invitations[n] # None
  BY DEF KInv, TypeOK, MInv, RequestsKnown
<1>7. CASE Enqueue(n)
  <2>1. /\ job'[n] = "queued" /\ mailed'[n] = mailed[n] /\ repeats'[n] = repeats[n]
        /\ request[n].step = "enqueue" /\ request'[n].step = "audit"
        /\ invitations' = invitations /\ strays' = strays
    BY <1>1, <1>3, <1>6, <1>7 DEF Enqueue, KInv, TypeOK, Requests
  <2>2. MailsKnown(n)'
    BY <1>6, <2>1 DEF MailsKnown, Due
  <2>3. QED
    BY <1>5, <2>2 DEF MInv
<1>8. CASE EnqueueFails(n)
  <2>1. /\ mailed'[n] = mailed[n] /\ request[n].step = "enqueue"
        /\ \/ job'[n] = job[n] /\ repeats'[n] = repeats[n]
           \/ job'[n] = "queued" /\ repeats'[n] = repeats[n] + 1
        /\ invitations' = invitations /\ strays' = strays
    BY <1>6, <1>8 DEF EnqueueFails
  <2>2. MailsKnown(n)'
    <3>1. request'[n].step = "mail"
      BY <1>6, <1>8 DEF EnqueueFails, Requests
    <3>2. job[n] = "none"
      BY <1>6, <2>1 DEF MailsKnown
    <3>3. QED
      BY <1>6, <2>1, <3>1, <3>2 DEF MailsKnown, Due
  <2>3. QED
    BY <1>5, <2>2 DEF MInv
<1>9. CASE MailInline(n) \/ MailInlineFails(n)
  <2>1. /\ job'[n] = job[n] /\ repeats'[n] = repeats[n]
        /\ request[n].step = "mail" /\ invitations' = invitations /\ strays' = strays
    BY <1>9 DEF MailInline, MailInlineFails
  <2>2. request'[n].step \in {"audit", "failed"}
    BY <1>6, <1>9 DEF MailInline, MailInlineFails, Requests
  <2>3. /\ mailed'[n] = mailed[n] \/ mailed'[n] = mailed[n] + 1
        /\ Answered(n) => Answered(n)'
    BY <1>a, <1>9, Sends
  <2>4. MailsKnown(n)'
    BY <1>6, <2>1, <2>2, <2>3 DEF MailsKnown, Due
  <2>5. QED
    BY <1>5, <2>4 DEF MInv
<1>10. QED
  BY <1>7, <1>8, <1>9

\* The steps of the worker.
LEMMA MWorker ==
    ASSUME KInv, MInv, NEW i \in Submits,
           \/ Work(i) \/ JobFails(i) \/ WorkerCrashes(i) \/ LockExpires(i) \/ StrayMails(i)
    PROVE  MInv'
<1>1. [Next]_vars /\ UNCHANGED <<invitations, request>>
  BY DEF Next, Work, StartJob, MailJob, CompleteJob, JobFails, WorkerCrashes, LockExpires, StrayMails
<1>a. \/ SendMail(i) \/ SendMailThrows(i)
      \/ mailed' = mailed /\ refused' = refused
  BY DEF Work, StartJob, MailJob, CompleteJob, JobFails, WorkerCrashes, LockExpires, StrayMails
<1>b. /\ \A m \in Submits \ {i} : mailed'[m] = mailed[m] /\ refused'[m] = refused[m]
      /\ Answered(i) => Answered(i)'
  BY <1>a, Sends DEF Answered
<1>2. \A m \in Submits \ {i} :
          /\ job'[m] = job[m] /\ mailed'[m] = mailed[m] /\ repeats'[m] = repeats[m]
          /\ strays'[m] = strays[m] /\ refused'[m] = refused[m]
  BY <1>b DEF Work, StartJob, MailJob, CompleteJob, JobFails, Retry, WorkerCrashes, Stalls,
              LockExpires, StrayMails, KInv, TypeOK
<1>3. \A m \in Submits \ {i} : MailsKnown(m)'
  BY <1>1, <1>2, MStays DEF MInv
<1>4. /\ mailed[i] \in Nat /\ repeats[i] \in Nat /\ strays[i] \in Nat /\ MailsKnown(i)
      /\ job \in [Submits -> {"none", "queued", "sending", "sent", "done", "failed"}]
      /\ repeats \in [Submits -> Nat] /\ strays \in [Submits -> Nat]
  BY DEF KInv, TypeOK, MInv
<1>5. CASE StartJob(i)
  <2>1. /\ job[i] = "queued" /\ mailed'[i] = mailed[i] /\ repeats'[i] = repeats[i]
        /\ job'[i] = (IF Status(i) = "pending" THEN "sending" ELSE "done") /\ strays' = strays
    BY <1>4, <1>5 DEF StartJob
  <2>2. invitations[i] # None
    BY <1>4, <2>1 DEF MailsKnown
  <2>3. MailsKnown(i)'
    BY <1>1, <1>4, <2>1, <2>2 DEF MailsKnown, Due, Status
  <2>4. QED
    BY <1>3, <2>3 DEF MInv
<1>6. CASE MailJob(i)
  <2>1. /\ job[i] = "sending" /\ repeats'[i] = repeats[i] /\ job'[i] = "sent" /\ strays' = strays
    BY <1>4, <1>6 DEF MailJob
  <2>2. (mailed'[i] = mailed[i] \/ mailed'[i] = mailed[i] + 1) /\ Answered(i)'
    BY <1>6, Sends DEF MailJob
  <2>3. MailsKnown(i)'
    BY <1>1, <1>4, <2>1, <2>2 DEF MailsKnown, Due
  <2>4. QED
    BY <1>3, <2>3 DEF MInv
<1>7. CASE CompleteJob(i)
  <2>1. /\ job[i] = "sent" /\ mailed'[i] = mailed[i] /\ repeats'[i] = repeats[i]
        /\ job'[i] = "done" /\ strays' = strays
    BY <1>4, <1>7 DEF CompleteJob
  <2>2. MailsKnown(i)'
    BY <1>1, <1>4, <1>b, <2>1 DEF MailsKnown, Due
  <2>3. QED
    BY <1>3, <2>2 DEF MInv
<1>8. CASE JobFails(i)
  <2>1. /\ job[i] \in {"queued", "sending"} /\ job'[i] \in {"queued", "failed"} /\ strays' = strays
        /\ repeats'[i] = IF mailed' # mailed /\ job'[i] = "queued" THEN repeats[i] + 1 ELSE repeats[i]
    BY <1>4, <1>8 DEF JobFails, Retry
  <2>2. mailed'[i] = mailed[i] \/ (mailed'[i] = mailed[i] + 1 /\ mailed' # mailed)
    <3>1. CASE SendMailThrows(i)
      <4>1. mailed'[i] = mailed[i] \/ mailed'[i] = mailed[i] + 1
        BY <3>1, Sends
      <4> QED BY <1>4, <4>1
    <3>2. CASE mailed' = mailed
      BY <3>2
    <3> QED BY <1>8, <3>1, <3>2 DEF JobFails
  <2>3. MailsKnown(i)'
    BY <1>1, <1>4, <2>1, <2>2 DEF MailsKnown, Due
  <2>4. QED
    BY <1>3, <2>3 DEF MInv
<1>9. CASE WorkerCrashes(i)
  <2>1. /\ job[i] \in {"sending", "sent"} /\ mailed'[i] = mailed[i] /\ job'[i] \in {"queued", "failed"}
        /\ repeats'[i] = IF job[i] = "sent" /\ job'[i] = "queued" THEN repeats[i] + 1 ELSE repeats[i]
        /\ strays' = strays
    BY <1>4, <1>9 DEF WorkerCrashes, Stalls
  <2>2. MailsKnown(i)'
    BY <1>1, <1>4, <2>1 DEF MailsKnown, Due
  <2>3. QED
    BY <1>3, <2>2 DEF MInv
<1>10. CASE LockExpires(i)
  <2>1. /\ job[i] \in {"sending", "sent"} /\ mailed'[i] = mailed[i] /\ job'[i] \in {"queued", "failed"}
        /\ repeats'[i] = IF job'[i] = "queued" THEN repeats[i] + 1 ELSE repeats[i]
        /\ strays'[i] = IF job[i] = "sending" THEN strays[i] + 1 ELSE strays[i]
    BY <1>4, <1>10 DEF LockExpires, Stalls
  <2>2. MailsKnown(i)'
    BY <1>1, <1>4, <2>1 DEF MailsKnown, Due
  <2>3. QED
    BY <1>3, <2>2 DEF MInv
<1>11. CASE StrayMails(i)
  <2>1. /\ job' = job /\ repeats' = repeats /\ strays[i] > 0 /\ strays'[i] = strays[i] - 1
    BY <1>4, <1>11 DEF StrayMails
  <2>2. mailed'[i] = mailed[i] \/ mailed'[i] = mailed[i] + 1
    BY <1>11, Sends DEF StrayMails
  <2>3. MailsKnown(i)'
    BY <1>1, <1>4, <1>b, <2>1, <2>2 DEF MailsKnown, Due
  <2>4. QED
    BY <1>3, <2>3 DEF MInv
<1>12. QED
  BY <1>5, <1>6, <1>7, <1>8, <1>9, <1>10, <1>11 DEF Work

\* The account of mails is inductive.
LEMMA MNext == KInv /\ MInv /\ [Next]_vars => MInv'
<1> SUFFICES ASSUME KInv, MInv, [Next]_vars PROVE MInv'
  OBVIOUS
<1>1. ASSUME NEW role \in Roles, Submit(role) PROVE MInv'
  <2>1. submitted + 1 \in Submits /\ request \in [Submits -> Requests]
    BY <1>1, InvitationAssumption DEF KInv, TypeOK, Submit, Submits
  <2>2. request[submitted + 1].step = "none"
    BY <2>1 DEF KInv, TypeOK, RequestsKnown, Submits
  <2>3. UNCHANGED <<invitations, job, mailed, repeats, strays, refused>>
    BY <1>1 DEF Submit, mails
  <2>4. /\ request'[submitted + 1].step = "resolve"
        /\ \A m \in Submits \ {submitted + 1} : request'[m] = request[m]
    BY <1>1, <2>1 DEF Submit
  <2>5. ASSUME NEW m \in Submits PROVE MailsKnown(m)'
    <3>1. \/ request'[m].step = request[m].step
          \/ request[m].step = "none" /\ request'[m].step = "resolve"
      BY <2>2, <2>4
    <3>2. /\ mailed[m] \in Nat /\ repeats[m] \in Nat /\ MailsKnown(m)
          /\ request[m].step = "none" => invitations[m] = None
      BY DEF KInv, TypeOK, RequestsKnown, MInv
    <3>3. CASE request'[m].step = request[m].step
      BY <1>1, <3>2, <3>3, <2>3, MStays DEF Next
    <3>4. CASE request[m].step = "none" /\ request'[m].step = "resolve"
      BY <2>3, <3>2, <3>4 DEF MailsKnown, Due
    <3>5. QED
      BY <3>1, <3>3, <3>4
  <2>6. QED
    BY <2>5 DEF MInv
<1>2. CASE Refresh \/ RequestAnswered \/ RequestTimesOut \/ Reconcile \/ ReconcileFails
  <2>1. UNCHANGED <<request, job, mailed, repeats, strays, refused>>
    BY <1>2 DEF Refresh, RequestAnswered, RequestTimesOut, Reconcile, ReconcileFails, mails
  <2>2. QED
    BY <2>1, MFrame
<1>3. ASSUME NEW o \in Orgs, SwitchOrganization(o) PROVE MInv'
  <2>1. ASSUME NEW m \in Submits PROVE request'[m].step = request[m].step
    <3>1. request[m] \in Requests
      BY DEF KInv, TypeOK
    <3>2. request'[m] =
            [request[m] EXCEPT !.moved = (request[m].moved \/ request[m].step = "resolve")]
      BY <1>3 DEF SwitchOrganization
    <3>3. QED
      BY <3>1, <3>2 DEF Requests
  <2>2. UNCHANGED <<job, mailed, repeats, strays, refused>>
    BY <1>3 DEF SwitchOrganization, mails
  <2>3. QED
    BY <2>1, <2>2, MFrame
<1>4. ASSUME NEW n \in Submits, ResolveContext(n) PROVE MInv'
  <2>1. request' = [request EXCEPT ![n] = [@ EXCEPT !.step = "create", !.org = active]]
    BY <1>4 DEF ResolveContext, OrganizationOf, KInv, TypeOK
  <2>2. request[n] \in Requests /\ request[n].step = "resolve" /\ request \in [Submits -> Requests]
    BY <1>4 DEF KInv, TypeOK, ResolveContext
  <2>3. /\ request'[n].step = "create"
        /\ \A m \in Submits \ {n} : request'[m] = request[m]
    BY <2>1, <2>2 DEF Requests
  <2>4. UNCHANGED <<job, mailed, repeats, strays, refused>>
    BY <1>4 DEF ResolveContext, mails
  <2>5. QED
    BY <2>2, <2>3, <2>4, MStays DEF MInv
<1>5. ASSUME NEW n \in Submits, RecordEvent(n) \/ RequestFails(n)
      PROVE  MInv'
  <2>1. PICK s \in {"ok", "failed"} : request' = [request EXCEPT ![n].step = s]
    BY <1>5 DEF RecordEvent, RequestFails
  <2>2. \/ request[n].step = "audit"
        \/ request[n].step \in {"resolve", "create"} /\ s = "failed"
    <3>1. ASSUME NEW t, request' = [request EXCEPT ![n].step = t] PROVE s = t
      <4>1. request[n] \in Requests /\ request \in [Submits -> Requests]
        BY DEF KInv, TypeOK
      <4>2. request'[n].step = t
        BY <3>1, <4>1 DEF Requests
      <4>3. request'[n].step = s
        BY <2>1, <4>1 DEF Requests
      <4>4. QED
        BY <4>2, <4>3
    <3>2. QED
      BY <1>5, <3>1 DEF RecordEvent, RequestFails
  <2>3. \A m \in Submits : request'[m].step = IF m = n THEN s ELSE request[m].step
    BY <2>1, StepIs, ZenonT(60)
  <2>4. UNCHANGED <<job, mailed, repeats, strays, refused>>
    BY <1>5 DEF RecordEvent, RequestFails, mails
  <2>5. QED
    BY <2>2, <2>3, <2>4, MStays DEF MInv
<1>6. ASSUME NEW i \in Submits, Accept(i) PROVE MInv'
  <2>1. UNCHANGED <<request, job, mailed, repeats, strays, refused>>
    BY <1>6 DEF Accept, mails
  <2>2. QED
    BY <2>1, MFrame
<1>7. CASE UNCHANGED vars
  <2>1. UNCHANGED <<request, job, mailed, repeats, strays, refused>>
    BY <1>7 DEF vars, mails
  <2>2. QED
    BY <2>1, MFrame
<1>8. QED
  BY <1>1, <1>2, <1>3, <1>4, <1>5, <1>6, <1>7, MCreate, MRequest, MWorker DEF Next, Handle

\* Every mail is accounted for, and no job ends without its mail for nothing.
THEOREM MailsAreAccounted == Spec => [](MailsAreExplained /\ DoneJobsAreMailed)
<1>1. KInv /\ MInv => MailsAreExplained /\ DoneJobsAreMailed
  <2> SUFFICES ASSUME KInv, MInv, NEW i \in Submits
               PROVE  /\ mailed[i] <= 1 + repeats[i]
                      /\ job[i] = "done" => Answered(i) \/ invitations[i].status # "pending"
    BY DEF MailsAreExplained, DoneJobsAreMailed, Answered
  <2>1. mailed[i] \in Nat /\ repeats[i] \in Nat /\ strays[i] \in Nat
    BY DEF KInv, TypeOK
  <2>2. QED
    BY <2>1 DEF MInv, MailsKnown, Due
<1>2. QED
  BY <1>1, MInit, MNext, RequestsAreKnown, PTL DEF Spec

\* Where a refusal is an exception (SMTP), a mail job that is done has sent its mail,
\* unless the invitation was no longer pending when the worker looked at it.
COROLLARY DoneJobsHaveMailed ==
    ~SilentRefusals =>
        (Spec => [](DoneJobsAreMailed
                      /\ \A i \in Submits :
                            job[i] = "done" => mailed[i] > 0 \/ invitations[i].status # "pending"))
<1>1. ASSUME ~SilentRefusals, DoneJobsAreMailed
      PROVE  \A i \in Submits :
                 job[i] = "done" => mailed[i] > 0 \/ invitations[i].status # "pending"
  BY <1>1 DEF DoneJobsAreMailed
<1>2. CASE ~SilentRefusals
  <2>1. DoneJobsAreMailed =>
            \A i \in Submits :
                job[i] = "done" => mailed[i] > 0 \/ invitations[i].status # "pending"
    BY <1>1, <1>2
  <2> QED BY <2>1, MailsAreAccounted, PTL
<1> QED BY <1>2

\* Types.
THEOREM TypesAreKept == Spec => []TypeOK
<1>1. KInv => TypeOK
  BY DEF KInv
<1>2. QED
  BY <1>1, RequestsAreKnown, PTL

================================================================================
