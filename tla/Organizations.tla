----------------------------- MODULE Organizations -----------------------------
(***************************************************************************)
(* How the API finds the workspace and the role of a request, and how a    *)
(* user gets a workspace: resolveAuthContext (packages/auth), createWork-   *)
(* space and acceptInvitation (user-service.ts).                           *)
(*                                                                         *)
(* One user works in several tabs on one session.  Each await of a request *)
(* is a step of its own, what lies between two of them belongs to the      *)
(* other tabs.  A call of better-auth is one step where the order of its   *)
(* statements tells nothing apart; acceptInvitation, whose statements two  *)
(* tabs can interleave, is four.                                           *)
(* The routes resolve the context twice (hydrateAuthContext, then require- *)
(* AuthenticatedUser); the first one is a page load of the same tab here.  *)
(***************************************************************************)
EXTENDS Integers, FiniteSets

CONSTANTS
    Tabs,           \* tabs of the browser, one request each at a time
    Orgs,           \* the organisation of the invitation, and those the user may create
    Invited,        \* the organisation the user is invited to
    None            \* no organisation, no role

ASSUME OrganizationAssumption ==
    /\ Invited \in Orgs /\ None \notin Orgs \cup {"owner", "member"}
    /\ IsFiniteSet(Tabs)

VARIABLES
    members,        \* organisation -> role of the user, or None
    invitation,     \* status of the invitation
    active,         \* activeOrganizationId of the session
    audit,          \* organisation -> events recorded about the user's joining it
    req,            \* tab -> its request
    \* auxiliary
    joins,          \* organisation -> memberships of the user ever inserted
    lost,           \* organisation -> joinings whose request failed before its event
    switched,       \* tab -> another tab has joined or changed active since its request
                    \* read active
    before          \* tab -> memberships when its request was sent

vars == <<members, invitation, active, audit, req, joins, lost, switched, before>>

-----------------------------------------------------------------------------
Roles == {"owner", "member"}
Kinds == {"page", "create", "accept"}
Steps == {"idle", "session", "list", "clear", "pick", "role", "answer",
          "check", "allow", "create", "find", "accept", "mark", "member", "enter",
          "activate", "audit", "return"}

\* read: the organisation the session named; orgs, org and role: the context;
\* target: the organisation joined.
Requests ==
    [kind : Kinds, step : Steps, read : Orgs \cup {None}, orgs : SUBSET Orgs,
     org : Orgs \cup {None}, role : Roles \cup {None}, target : Orgs \cup {None}]

NoRequest ==
    [kind |-> "page", step |-> "idle", read |-> None, orgs |-> {}, org |-> None,
     role |-> None, target |-> None]

\* Faulty: only workspaces the user owns count.
OwnedOnly == {o \in Orgs : members[o] = "owner"}

Memberships == {o \in Orgs : members[o] # None}

At(t, step) == req[t].step = step

TypeOK ==
    /\ members \in [Orgs -> Roles \cup {None}]
    /\ invitation \in {"pending", "accepted"}
    /\ active \in Orgs \cup {None}
    /\ audit \in [Orgs -> Nat]
    /\ req \in [Tabs -> Requests]
    /\ joins \in [Orgs -> Nat]
    /\ lost \in [Orgs -> Nat]
    /\ switched \in [Tabs -> BOOLEAN]
    /\ before \in [Tabs -> SUBSET Orgs]

Init ==
    /\ members = [o \in Orgs |-> None]
    /\ invitation = "pending"
    /\ active = None
    /\ audit = [o \in Orgs |-> 0]
    /\ req = [t \in Tabs |-> NoRequest]
    /\ joins = [o \in Orgs |-> 0]
    /\ lost = [o \in Orgs |-> 0]
    /\ switched = [t \in Tabs |-> FALSE]
    /\ before = [t \in Tabs |-> {}]

-----------------------------------------------------------------------------
Goto(t, step) == req' = [req EXCEPT ![t].step = step]

\* The response, of whatever status.
Done(t) == req' = [req EXCEPT ![t] = NoRequest]

\* setActiveOrganization of better-auth: members only.
Activates(t, o) ==
    /\ o \in Memberships \cup {None}
    /\ active' = o
    /\ switched' = [u \in Tabs |-> switched[u] \/ (u # t /\ o # active)]

Send(t, kind) ==
    /\ At(t, "idle")
    /\ req' = [req EXCEPT ![t] = [NoRequest EXCEPT !.kind = kind, !.step = "session"]]
    /\ before' = [before EXCEPT ![t] = {o \in Orgs : members[o] # None}]
    /\ UNCHANGED <<members, invitation, active, audit, joins, lost, switched>>

\* authClient.organization.setActive: the switcher and the onboarding page.
Switch(t, o) ==
    /\ At(t, "idle")
    /\ o # None
    /\ Activates(t, o)
    /\ UNCHANGED <<members, invitation, audit, req, joins, lost, before>>

\* A new session names no organisation.
SignIn ==
    /\ \A t \in Tabs : At(t, "idle")
    /\ active' = None
    /\ UNCHANGED <<members, invitation, audit, req, joins, lost, switched, before>>

\* The user is removed from the organisation by others.  Of a user who joined it twice
\* this is the removal of the last row: the other one changes nothing here.
Remove ==
    /\ members[Invited] # None
    /\ members' = [members EXCEPT ![Invited] = None]
    /\ UNCHANGED <<invitation, active, audit, req, joins, lost, switched, before>>

-----------------------------------------------------------------------------
(* resolveAuthContext.                                                     *)

ReadSession(t) ==
    /\ At(t, "session")
    /\ req' = [req EXCEPT ![t].read = active, ![t].step = "list"]
    /\ switched' = [switched EXCEPT ![t] = FALSE]
    /\ UNCHANGED <<members, invitation, active, audit, joins, lost, before>>

\* Faulty: the first organisation is taken whatever the session names.
AfterFixUpFirst(org, orgs) == IF orgs # {} THEN {"pick"} ELSE {"role"}

\* A session without an organisation gets the only one there is; one that was joined
\* twice may be listed twice, and is then not the only one.
AfterFixUp(org, orgs) ==
    IF org = None /\ Cardinality(orgs) = 1
    THEN {"pick"} \cup {step \in {"role"} : \E o \in orgs : joins[o] > 1}
    ELSE {"role"}

ListOrganizations(t) ==
    /\ At(t, "list")
    /\ LET org == IF req[t].read \in Memberships THEN req[t].read ELSE None
       IN  \E step \in IF req[t].read # org THEN {"clear"} ELSE AfterFixUp(org, Memberships) :
              req' = [req EXCEPT ![t].orgs = Memberships, ![t].org = org, ![t].step = step]
    /\ UNCHANGED <<members, invitation, active, audit, joins, lost, switched, before>>

\* The session named an organisation the user is not a member of.
ClearActive(t) ==
    /\ At(t, "clear")
    /\ Activates(t, None)
    /\ \E step \in AfterFixUp(None, req[t].orgs) : Goto(t, step)
    /\ UNCHANGED <<members, invitation, audit, joins, lost, before>>

\* Faulty: the context has the organisation, the session has not.
PickInContextOnly(t) ==
    /\ At(t, "pick")
    /\ \E o \in req[t].orgs :
          req' = [req EXCEPT ![t].org = o, ![t].step = "role"]
    /\ UNCHANGED <<members, invitation, active, audit, joins, lost, switched, before>>

PickOnly(t) ==
    /\ At(t, "pick")
    /\ \E o \in req[t].orgs :
          /\ Activates(t, o)
          /\ req' = [req EXCEPT ![t].org = o, ![t].step = "role"]
    /\ UNCHANGED <<members, invitation, audit, joins, lost, before>>

AfterContext(t) ==
    CASE req[t].kind = "page" -> "answer"
      [] req[t].kind = "create" -> "check"
      [] req[t].kind = "accept" -> "find"

\* getActiveMemberRole goes by the organisation the session names now; it fails if
\* there is none, and then there is no role.
ReadRole(t) ==
    /\ At(t, "role")
    /\ req' = [req EXCEPT ![t].step = AfterContext(t),
                 ![t].role = IF req[t].org # None /\ active \in Memberships
                             THEN members[active] ELSE None]
    /\ UNCHANGED <<members, invitation, active, audit, joins, lost, switched, before>>

\* A page, or an answer of the API, is made of the context.
Answer(t) ==
    /\ At(t, "answer")
    /\ Done(t)
    /\ UNCHANGED <<members, invitation, active, audit, joins, lost, switched, before>>

-----------------------------------------------------------------------------
(* POST /workspaces.                                                       *)

CheckWorkspace(t) ==
    /\ At(t, "check")
    /\ IF req[t].orgs # {} \/ req[t].org # None \/ Memberships # {}
       THEN Done(t)
       ELSE Goto(t, "allow")
    /\ UNCHANGED <<members, invitation, active, audit, joins, lost, switched, before>>

\* allowUserToCreateOrganization, which better-auth asks before it creates.
AllowCreate(t) ==
    /\ At(t, "allow")
    /\ IF Memberships # {} THEN Done(t) ELSE Goto(t, "create")
    /\ UNCHANGED <<members, invitation, active, audit, joins, lost, switched, before>>

\* The creator is its owner and, as keepCurrentActiveOrganization is false, in it.
CreateOrganization(t) ==
    /\ At(t, "create")
    /\ \E o \in Orgs \ {Invited} :
          /\ members[o] = None
          /\ joins' = [joins EXCEPT ![o] = @ + 1]
          /\ members' = [members EXCEPT ![o] = "owner"]
          /\ active' = o
          /\ req' = [req EXCEPT ![t].target = o, ![t].step = "activate"]
    /\ switched' = [u \in Tabs |-> switched[u] \/ u # t]
    /\ UNCHANGED <<invitation, audit, lost, before>>

-----------------------------------------------------------------------------
(* POST /invitations/:id/accept.                                           *)

\* A member of the context only gets the organisation activated.
FindInvitation(t) ==
    /\ At(t, "find")
    /\ CASE Invited \in req[t].orgs ->
              req' = [req EXCEPT ![t].target = Invited, ![t].step = "return"]
         [] Invited \notin req[t].orgs /\ invitation = "pending" -> Goto(t, "accept")
         [] OTHER -> Done(t)
    /\ UNCHANGED <<members, invitation, active, audit, joins, lost, switched, before>>

\* auth.api.acceptInvitation reads the invitation, updates its status, inserts the row
\* of the member and makes the organisation the session's.  It refuses an invitation that
\* was accepted before it read; no index of the table of members refuses a second row.
AcceptInvitation(t) ==
    /\ At(t, "accept")
    /\ IF invitation = "pending" THEN Goto(t, "mark") ELSE Done(t)
    /\ UNCHANGED <<members, invitation, active, audit, joins, lost, switched, before>>

MarkAccepted(t) ==
    /\ At(t, "mark")
    /\ invitation' = "accepted"
    /\ Goto(t, "member")
    /\ UNCHANGED <<members, active, audit, joins, lost, switched, before>>

InsertMember(t) ==
    /\ At(t, "member")
    /\ members' = [members EXCEPT ![Invited] = "member"]
    /\ joins' = [joins EXCEPT ![Invited] = @ + 1]
    /\ req' = [req EXCEPT ![t].target = Invited, ![t].step = "enter"]
    /\ switched' = [u \in Tabs |-> switched[u] \/ u # t]
    /\ UNCHANGED <<invitation, active, audit, lost, before>>

EnterOrganization(t) ==
    /\ At(t, "enter")
    /\ active' = req[t].target
    /\ switched' = [u \in Tabs |-> switched[u] \/ u # t]
    /\ Goto(t, "activate")
    /\ UNCHANGED <<members, invitation, audit, joins, lost, before>>

-----------------------------------------------------------------------------
(* The end of both.                                                        *)

\* Faulty: the request is answered once the organisation is active.
ActivateTargetOnly(t) ==
    /\ At(t, "activate") \/ At(t, "return")
    /\ Activates(t, req[t].target)
    /\ Done(t)
    /\ UNCHANGED <<members, invitation, audit, joins, lost, before>>

ActivateTarget(t) ==
    /\ At(t, "activate") \/ At(t, "return")
    /\ Activates(t, req[t].target)
    /\ IF At(t, "activate") THEN Goto(t, "audit") ELSE Done(t)
    /\ UNCHANGED <<members, invitation, audit, joins, lost, before>>

\* recordOrganizationAccessEvent; WebhookDelivery has the deliveries it creates.
RecordEvent(t) ==
    /\ At(t, "audit")
    /\ audit' = [audit EXCEPT ![req[t].target] = @ + 1]
    /\ Done(t)
    /\ UNCHANGED <<members, invitation, active, joins, lost, switched, before>>

\* A request that has joined an organisation and not recorded it yet.
InJoining(t) == At(t, "enter") \/ At(t, "activate") \/ At(t, "audit")

\* Any call may fail; nothing is undone.
Fail(t) ==
    /\ ~At(t, "idle")
    /\ Done(t)
    /\ lost' = IF InJoining(t) THEN [lost EXCEPT ![req[t].target] = @ + 1] ELSE lost
    /\ UNCHANGED <<members, invitation, active, audit, joins, switched, before>>

-----------------------------------------------------------------------------
Resolve(t) ==
    ReadSession(t) \/ ListOrganizations(t) \/ ClearActive(t) \/ PickOnly(t) \/ ReadRole(t)

Join(t) ==
    \/ CheckWorkspace(t) \/ AllowCreate(t) \/ CreateOrganization(t)
    \/ FindInvitation(t) \/ AcceptInvitation(t) \/ MarkAccepted(t) \/ InsertMember(t)
    \/ EnterOrganization(t)
    \/ ActivateTarget(t) \/ RecordEvent(t)

Next ==
    \/ \E t \in Tabs :
          \/ \E kind \in Kinds : Send(t, kind)
          \/ \E o \in Orgs : Switch(t, o)
          \/ Resolve(t) \/ Join(t) \/ Answer(t) \/ Fail(t)
    \/ SignIn \/ Remove

Spec == Init /\ [][Next]_vars

-----------------------------------------------------------------------------
(* Properties.                                                             *)

\* "This starter allows one self-created workspace per account": the three checks
\* keep a user who has been a member of anything since the request was sent from
\* creating another workspace.  Two workspaces of one user were both asked for before
\* either existed; the user may also have been removed from the invitation's organisation
\* and brought back by the second of two acceptances after the checks.
SecondWorkspacesOverlap ==
    [][\A t \in Tabs : CreateOrganization(t) =>
          \A o \in before[t] : members[o] = None \/ (o = Invited /\ joins[o] > 1)]_vars

Joined(o) == joins[o] > 0

Joining(o) == {t \in Tabs : req[t].target = o /\ InJoining(t)}

\* Every row of the table of members is recorded once, by the request that inserted it,
\* unless that request failed on the way: a retry finds a member, activates the
\* organisation and records nothing.  Two overlapping acceptances insert two rows and
\* record both.
JoinsAreAuditedOnce ==
    \A o \in Orgs : Cardinality(Joining(o)) + audit[o] + lost[o] = joins[o]

\* The role of a context is the user's role in the organisation of the context,
\* though the two are read by different calls, unless another tab joined an organisation
\* or changed that of the session in between.
RoleIsOfOrganization ==
    [][\A t \in Tabs : ReadRole(t) /\ req[t].org # None =>
          switched[t] \/ req'[t].role = members[req[t].org]]_vars

\* Resolving a context takes no organisation out of the session that the user is a
\* member of, unless another tab joined it or put it there while the context was resolved.
FixUpsRespectChoices ==
    [][\A t \in Tabs : (ClearActive(t) \/ PickOnly(t)) /\ active' # active =>
          switched[t] \/ active \notin Memberships]_vars

================================================================================
