------------------------------- MODULE Navigation -------------------------------
(***************************************************************************)
(* One tab of the dashboard and the redirects that bring it to a page: the *)
(* proxy of the web app (proxy.ts), the server components of the pages     *)
(* (lib/auth.ts), and what the pages do by themselves: the forms, the      *)
(* switcher, and the onboarding page with its cached answer of             *)
(* GET /onboarding.  A form or button awaits a call and goes on to another *)
(* page when it is answered, wherever the tab is by then.                  *)
(*                                                                         *)
(* A location is a page and what its redirectTo or denied parameter holds: *)
(* <<"signIn", "onboarding", "users">> is                                  *)
(* /sign-in?redirectTo=/onboarding?redirectTo=/users.                      *)
(***************************************************************************)
EXTENDS Integers, SequencesExt

CONSTANTS
    Accounts,
    Orgs,
    None,           \* no session, no organisation, nothing cached or asked
    MemberOf,       \* account -> its organisations at first
    Privileged,     \* <<account, organisation>>: owner or admin
    MaxActions,     \* bound on what users do
    MaxOutages      \* bound on outages of the API

ASSUME NavigationAssumption ==
    /\ MemberOf \in [Accounts -> SUBSET Orgs]
    /\ MaxActions \in Nat /\ MaxOutages \in Nat
    /\ None \notin Orgs \cup Accounts

VARIABLES
    down,           \* the API does not answer
    \* browser and database
    cookie,         \* the browser has a session cookie
    session,        \* the session behind it, None if it ended
    members,        \* account -> its organisations
    mailed,         \* a mail with a link to reset a password was not used yet
    \* the tab
    location,       \* where it is, or is going
    step,           \* "proxy", "server" or "shown"
    mounted,        \* the location whose onboarding page is mounted, or <<>>
    effect,         \* an effect of that page is about to leave it
    \* the query cache: GET /onboarding
    data,           \* the context it was answered with
    fresh,          \* answered less than staleTime ago
    fetching,
    failed,         \* the last fetch failed; the page shows that instead of its buttons
    calls,          \* what forms and buttons sent and have not gone on from
    \* auxiliary
    asked,          \* the page asked for last by a link or the address bar, if Kept
    actions,        \* what users did so far
    outages         \* outages so far

cache == <<data, fresh, fetching, failed>>
tab == <<location, step, mounted, effect, cache>>
server == <<session, members, mailed>>
api == <<down, outages>>
vars == <<api, cookie, server, tab, calls, asked, actions>>

-----------------------------------------------------------------------------
AuthPages == {"signIn", "signUp", "forgotPassword"}
Protected == {"users", "health", "onboarding"}

\* Their header knows the user; that of the other pages shows a visitor.
AppPages == Protected \cup {"configs", "acceptInvite"}

\* The pages that sign-in, onboarding and denials lead back to.
Kept == {"users", "configs", "health"}

Pages == AppPages \cup AuthPages \cup {"home", "resetPassword"}

Contexts == [account : Accounts, active : Orgs \cup {None}, orgs : SUBSET Orgs]

\* who signs in or accepts, and the organisation it is about; to: the page to go on to,
\* <<>> when the page that sent it is gone; left: the tab left that page since.
Calls ==
    [call : {"signIn", "signOut", "reset", "activate", "switch", "create", "accept"},
     who : Accounts \cup {None}, org : Orgs \cup {None}, to : Seq(Pages),
     done : BOOLEAN, left : BOOLEAN]

TypeOK ==
    /\ {down, cookie} \subseteq BOOLEAN
    /\ session \in [account : Accounts, active : Orgs \cup {None}] \cup {None}
    /\ members \in [Accounts -> SUBSET Orgs]
    /\ mailed \in BOOLEAN
    /\ location \in Seq(Pages) /\ Len(location) \in 1..3
    /\ step \in {"proxy", "server", "shown"}
    /\ mounted = <<>> \/ Head(mounted) = "onboarding"
    /\ {effect, fresh, fetching, failed} \subseteq BOOLEAN
    /\ \A c \in calls : c \in Calls
    /\ data \in Contexts \cup {None}
    /\ asked \in Kept \cup {None}
    /\ actions \in 0..MaxActions /\ outages \in 0..MaxOutages

Page == Head(location)

NewSession(a) == [account |-> a, active |-> None]

\* The home page in a new tab, of a visitor or of a user who signed in before.
Init ==
    /\ down = FALSE
    /\ session \in {None} \cup {NewSession(a) : a \in Accounts} /\ cookie = (session # None)
    /\ members = MemberOf /\ mailed = FALSE
    /\ location = <<"home">> /\ step = "shown" /\ mounted = <<>> /\ effect = FALSE
    /\ data = None /\ fresh = FALSE /\ fetching = FALSE /\ failed = FALSE
    /\ calls = {}
    /\ asked = None /\ actions = 0 /\ outages = 0

SignedIn == cookie /\ session # None

\* What resolveAuthContext makes of the session: the only organisation is activated.
Resolved ==
    LET orgs == members[session.account]
    IN  [account |-> session.account, orgs |-> orgs,
         active |-> IF session.active = None /\ Cardinality(orgs) = 1
                    THEN CHOOSE o \in orgs : TRUE
                    ELSE session.active]

Resolves ==
    session' = IF SignedIn THEN [session EXCEPT !.active = Resolved.active] ELSE session

Left(cs) == {[c EXCEPT !.left = TRUE] : c \in cs}

\* The tab goes to l; the page it shows stays until the next one is rendered.
Load(l, cs) == location' = l /\ step' = "proxy" /\ calls' = Left(cs)

GoOn(l, cs) == Load(l, cs) /\ UNCHANGED <<mounted, effect, cache>>

\* redirectTo, or the default of the form or page.
Destination(l, default) == IF Tail(l) = <<>> THEN default ELSE Tail(l)

-----------------------------------------------------------------------------
(* The redirects.                                                          *)

Proxy ==
    /\ step = "proxy"
    /\ IF ~cookie /\ Page \in Protected THEN Load(<<"signIn">> \o location, calls)
       ELSE IF cookie /\ Page \in AuthPages THEN Load(Destination(location, <<"onboarding">>), calls)
       ELSE step' = "server" /\ UNCHANGED <<location, calls>>
    /\ UNCHANGED <<api, cookie, server, mounted, effect, cache, asked, actions>>

\* Faulty: the users page is where everyone comes back to.
NeedsWorkspaceForUsers(page) == <<"onboarding", "users">>

NeedsWorkspace(page) == <<"onboarding", page>>

\* Faulty: the default of the proxy and the forms.
LeaveOnboardingByDefault(l) == Destination(l, <<"onboarding">>)

LeaveOnboarding(l) == Destination(l, <<"users">>)

\* requireRole, of owners and admins.
HasRole == SignedIn /\ <<session.account, Resolved.active>> \in Privileged

\* Where the server component of the page sends the tab; its own location if nowhere.
Redirected ==
    CASE Page \in {"users", "configs"} ->
            IF ~SignedIn THEN <<"signIn", Page>>
            ELSE IF Resolved.active = None THEN NeedsWorkspace(Page) ELSE location
      [] Page = "health" -> IF HasRole THEN location ELSE <<"users", "health">>
      [] Page = "onboarding" ->
            IF ~SignedIn THEN <<"signIn", "onboarding">>
            ELSE IF Resolved.active # None THEN LeaveOnboarding(location) ELSE location
      [] OTHER -> location

RenderRedirect ==
    /\ step = "server"
    /\ Redirected # location
    /\ Resolves
    /\ GoOn(Redirected, calls)
    /\ UNCHANGED <<api, cookie, members, mailed, asked, actions>>

\* The onboarding page mounts, its query fetches unless it is fresh, and what is cached
\* is acted on; the router may keep a page that is at this very location.
MountOnboarding ==
    \/ /\ mounted = location
       /\ UNCHANGED <<mounted, effect, cache>>
    \/ /\ mounted' = location
       /\ effect' = (data # None /\ data.active # None)
       /\ fetching' = (fetching \/ ~fresh)
       /\ UNCHANGED <<data, fresh, failed>>

Render ==
    /\ step = "server"
    /\ Redirected = location
    /\ Resolves
    /\ step' = "shown" /\ UNCHANGED location
    /\ IF Page = "onboarding" THEN MountOnboarding
       ELSE mounted' = <<>> /\ effect' = FALSE /\ UNCHANGED cache
    /\ UNCHANGED <<api, cookie, members, mailed, calls, asked, actions>>

-----------------------------------------------------------------------------
(* The onboarding page by itself.                                          *)

\* The answer of GET /onboarding.
Answer ==
    /\ fetching /\ SignedIn /\ ~down
    /\ fetching' = FALSE /\ failed' = FALSE
    /\ data' = Resolved /\ fresh' = TRUE
    /\ effect' = (effect \/ (mounted # <<>> /\ data # Resolved /\ Resolved.active # None))
    /\ Resolves
    /\ UNCHANGED <<api, cookie, members, mailed, location, step, mounted, calls, asked, actions>>

\* 401 without a session; 5xx or the time-out, twice, from an API that is down.  What
\* was answered before stays in the cache.
AnswerFails ==
    /\ fetching /\ (~SignedIn \/ down)
    /\ fetching' = FALSE /\ failed' = TRUE
    /\ UNCHANGED <<api, cookie, server, location, step, mounted, effect, data, fresh, calls,
                   asked, actions>>

\* staleTime, 30 s.
Age ==
    /\ fresh
    /\ fresh' = FALSE
    /\ UNCHANGED <<api, cookie, server, location, step, mounted, effect, data, fetching, failed,
                   calls, asked, actions>>

\* nextStep "ready": the page replaces itself by its destination.
Ready ==
    /\ effect
    /\ effect' = FALSE
    /\ Load(LeaveOnboarding(mounted), calls)
    /\ UNCHANGED <<api, cookie, server, mounted, cache, asked, actions>>

-----------------------------------------------------------------------------
(* What the user does.                                                     *)

Acts == actions < MaxActions /\ actions' = actions + 1
Clicks == step = "shown" /\ Acts
Asks(p) == asked' = IF p \in Kept THEN p ELSE None

\* The items of the header; Health only for who may see it.
NavItems == {"home", "configs", "users"} \cup (IF Page \in AppPages THEN {"health"} ELSE {})

\* The menu of the header offers onboarding to a user without organisations, and the
\* forms to a visitor.
AccountLinks == {"signIn", "signUp"} \cup (IF Page \in AppPages THEN {"onboarding"} ELSE {})

HomeLinks == {"configs", "users", "health"}

\* Each form links to others, without redirectTo.
FormLinks ==
    CASE Page = "signIn" -> {"signUp", "forgotPassword"}
      [] Page \in {"signUp", "forgotPassword", "resetPassword"} -> {"signIn"}
      [] OTHER -> {}

\* The onboarding page links to the invitations of the account.
Links ==
    NavItems \cup AccountLinks \cup FormLinks
        \cup (IF Page = "home" THEN HomeLinks ELSE {})
        \cup (IF Page = "onboarding" THEN {"acceptInvite"} ELSE {})

FollowLink(p) ==
    /\ Clicks
    /\ p \in Links
    /\ GoOn(<<p>>, calls) /\ Asks(p)
    /\ UNCHANGED <<api, cookie, server>>

\* A page from outside, which starts the tab over; nobody waits for its calls any more.
Open(p) ==
    /\ Acts
    /\ Load(<<p>>, {[c EXCEPT !.to = <<>>] : c \in {d \in calls : ~d.done}})
    /\ Asks(p)
    /\ mounted' = <<>> /\ effect' = FALSE
    /\ data' = None /\ fresh' = FALSE /\ fetching' = FALSE /\ failed' = FALSE
    /\ UNCHANGED <<api, cookie, server>>

\* The address bar, or the mail of an invitation.
Visit(p) == p # "resetPassword" /\ Open(p)

\* The mail of a reset; without its token the page has no form.
OpenReset == mailed /\ Open("resetPassword")

RequestReset ==
    /\ Clicks
    /\ Page = "forgotPassword"
    /\ mailed' = TRUE
    /\ UNCHANGED <<api, cookie, session, members, tab, calls, asked>>

\* "Sign in to continue", "Create account" of an invitation, for who is signed out.
SignInToAccept(p) ==
    /\ Clicks
    /\ Page = "acceptInvite" /\ ~SignedIn
    /\ GoOn(<<p, "acceptInvite">>, calls)
    /\ UNCHANGED <<api, cookie, server, asked>>

-----------------------------------------------------------------------------
(* Calls that are awaited before the page goes on.  The button is disabled *)
(* until then; other buttons and links are not.                            *)

Sends(call, who, org, to) ==
    /\ ~\E c \in calls : c.call = call /\ ~c.left
    /\ calls' = calls \cup
          {[call |-> call, who |-> who, org |-> org, to |-> to, done |-> FALSE, left |-> FALSE]}
    /\ UNCHANGED <<api, cookie, server, tab, asked>>

ResetPassword ==
    /\ Clicks
    /\ Page = "resetPassword"
    /\ Sends("reset", None, None, <<"signIn">>)

SignIn(a) ==
    /\ Clicks
    /\ Page = "signIn"
    /\ Sends("signIn", a, None, Destination(location, <<"onboarding">>))

\* A new account is signed in at once.
SignUp(a) ==
    /\ Clicks
    /\ Page = "signUp"
    /\ members[a] = {}
    /\ Sends("signIn", a, None, Destination(location, <<"onboarding">>))

SignOut ==
    /\ Clicks
    /\ cookie /\ Page \in AppPages
    /\ Sends("signOut", None, None, <<"home">>)

\* The onboarding page shows its buttons, by the cached answer.
ShowsButtons == mounted # <<>> /\ data # None /\ ~failed

\* nextStep "select-workspace".
OfferedWorkspaces == IF data.active = None THEN data.orgs ELSE {}

\* canCreateWorkspace.
OffersCreation == data.orgs = {}

\* "Use workspace" of the onboarding page.
ActivateWorkspace(o) ==
    /\ Clicks
    /\ ShowsButtons
    /\ o \in OfferedWorkspaces
    /\ Sends("activate", None, o, LeaveOnboarding(mounted))

CreateWorkspace(o) ==
    /\ Clicks
    /\ ShowsButtons /\ OffersCreation
    /\ Sends("create", None, o, LeaveOnboarding(mounted))

\* "Accept invitation"; Organizations has the steps of the API.
AcceptInvitation(o) ==
    /\ Clicks
    /\ Page = "acceptInvite"
    /\ SignedIn
    /\ Sends("accept", session.account, o, <<"users">>)

\* The switcher goes to the page that was denied, else to the page it is on, without
\* the redirectTo of an onboarding page.
NextRoute == IF Page = "users" /\ Tail(location) # <<>> THEN Tail(location) ELSE <<Page>>

SwitchOrganization(o) ==
    /\ Clicks
    /\ Page \in AppPages
    /\ SignedIn /\ session.active # o /\ o \in members[session.account]
    /\ Cardinality(members[session.account]) > 1
    /\ Sends("switch", None, o, NextRoute)

Activates(o) ==
    /\ SignedIn /\ o \in members[session.account]
    /\ session' = [session EXCEPT !.active = o]

\* What a call does where it is answered; createWorkspace and acceptInvitation are of
\* the API, the others of the web app.
Effect(c) ==
    \/ /\ c.call = "signIn"
       /\ cookie' = TRUE /\ session' = NewSession(c.who)
       /\ UNCHANGED <<members, mailed>>
    \/ /\ c.call = "signOut"
       /\ cookie' = FALSE /\ session' = None
       /\ UNCHANGED <<members, mailed>>
    \/ /\ c.call = "reset" /\ mailed
       /\ mailed' = FALSE
       /\ UNCHANGED <<cookie, session, members>>
    \/ /\ c.call \in {"activate", "switch"}
       /\ Activates(c.org)
       /\ UNCHANGED <<cookie, members, mailed>>
    \/ /\ c.call = "create" /\ ~down
       /\ SignedIn /\ members[session.account] = {}
       /\ \A a \in Accounts : c.org \notin members[a]
       /\ members' = [members EXCEPT ![session.account] = {c.org}]
       /\ session' = [session EXCEPT !.active = c.org]
       /\ UNCHANGED <<cookie, mailed>>
    \/ /\ c.call = "accept" /\ ~down
       /\ SignedIn /\ session.account = c.who
       /\ members' = [members EXCEPT ![c.who] = @ \cup {c.org}]
       /\ session' = [session EXCEPT !.active = c.org]
       /\ UNCHANGED <<cookie, mailed>>

Serve(c) ==
    /\ ~c.done
    /\ Effect(c)
    /\ calls' = (calls \ {c}) \cup
          (IF c.to = <<>> THEN {} ELSE {[c EXCEPT !.done = TRUE]})
    /\ UNCHANGED <<api, tab, asked, actions>>

\* It is refused, or lost with or without its effect: the page shows an error.
CallFails(c) ==
    /\ calls' = calls \ {c}
    /\ UNCHANGED <<api, cookie, server, tab, asked, actions>>

\* router.replace or router.push, whatever the tab shows by now.
GoOnFrom(c) ==
    /\ c.done
    /\ GoOn(c.to, calls \ {c})
    /\ UNCHANGED <<api, cookie, server, asked, actions>>

-----------------------------------------------------------------------------
\* Another tab signs out or in, or activates an organisation.
OtherTab ==
    /\ Acts
    /\ \/ cookie' = FALSE /\ session' = None
       \/ \E a \in Accounts : cookie' = TRUE /\ session' = NewSession(a)
       \/ \E o \in Orgs : Activates(o) /\ UNCHANGED cookie
    /\ UNCHANGED <<api, members, mailed, tab, calls, asked>>

\* The session expires or is revoked; the cookie stays.
Revoke ==
    /\ Acts
    /\ session # None
    /\ session' = None
    /\ UNCHANGED <<api, cookie, members, mailed, tab, calls, asked>>

ApiFails ==
    /\ outages < MaxOutages /\ outages' = outages + 1
    /\ ~down /\ down' = TRUE
    /\ UNCHANGED <<cookie, server, tab, calls, asked, actions>>

ApiRecovers ==
    /\ down /\ down' = FALSE
    /\ UNCHANGED <<outages, cookie, server, tab, calls, asked, actions>>

-----------------------------------------------------------------------------
User ==
    \/ \E p \in Pages : Visit(p) \/ FollowLink(p)
    \/ OpenReset \/ RequestReset \/ ResetPassword
    \/ \E p \in {"signIn", "signUp"} : SignInToAccept(p)
    \/ \E a \in Accounts : SignIn(a) \/ SignUp(a)
    \/ \E o \in Orgs : ActivateWorkspace(o) \/ CreateWorkspace(o) \/ AcceptInvitation(o)
                         \/ SwitchOrganization(o)
    \/ SignOut

Next ==
    \/ User \/ OtherTab \/ Revoke \/ ApiFails \/ ApiRecovers
    \/ Proxy \/ RenderRedirect \/ Render \/ Answer \/ AnswerFails \/ Age \/ Ready
    \/ \E c \in calls : Serve(c) \/ CallFails(c) \/ GoOnFrom(c)

Spec == Init /\ [][Next]_vars

\* Requests are answered, effects run and time passes.
Fairness ==
    /\ WF_vars(Proxy) /\ WF_vars(RenderRedirect) /\ WF_vars(Render)
    /\ WF_vars(Answer \/ AnswerFails) /\ WF_vars(Age) /\ WF_vars(Ready)

FairSpec == Spec /\ Fairness

-----------------------------------------------------------------------------
(* Properties.                                                             *)

\* The redirects of the proxy, of the pages and of the onboarding effect, which all
\* decide by themselves, end on a page when the user leaves the tab alone.  A tab goes
\* round for ever between the sign-in and a page with a cookie whose session is gone, and
\* between the onboarding page and its destination while the API is down and the cached
\* answer is of a time when a workspace was active.
RedirectsEnd ==
    <>[](\/ step = "shown" /\ ~effect
         \/ cookie /\ session = None
         \/ down /\ data # None /\ data.active # None)

\* The page a user asked for is kept through sign-in and onboarding.  Lost are a denied
\* /health where there is no workspace, the parameter of a page whose session ended
\* after the proxy saw the cookie, a link on an onboarding page that becomes ready
\* before the link is followed, what the tab shows when a form or button of an earlier page is answered,
\* and the redirectTo of an onboarding page whose switcher is used.
DestinationIsKept ==
    [][ \A p \in Kept :
          asked = p /\ asked' = p /\ Last(location) = p
            => \/ Last(location') = p
               \/ p = "health" /\ location' = <<"onboarding", "users">>
               \/ RenderRedirect /\ session = None
               \/ Ready /\ location # mounted
               \/ \E c \in calls :
                     /\ GoOnFrom(c)
                     /\ \/ c.left \/ c.call = "signOut"
                        \/ c.call = "switch" /\ c.to = <<"onboarding">> ]_vars

================================================================================
