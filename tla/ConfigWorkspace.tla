---------------------------- MODULE ConfigWorkspace ----------------------------
(***************************************************************************)
(* The configuration page of the dashboard (config-workspace.tsx): what is *)
(* selected, the query cache behind the tables, the event stream that      *)
(* invalidates it, and one mutation at a time, while other administrators  *)
(* write through the same API.                                             *)
(*                                                                         *)
(* An app, an environment and an entry are named by slug or key, so that   *)
(* to create one again is to be refused by the unique index.  Entries and  *)
(* tokens are never deleted, so the committed writes are one growing se-   *)
(* quence, and what a query has read is how much of it there was.  The     *)
(* table of tokens may show any of them: its query is left out.            *)
(***************************************************************************)
EXTENDS Integers, Sequences, FiniteSets

CONSTANTS
    Apps, Envs, Entries, Tokens,
    AppOf,          \* environment -> its app
    EnvOf,          \* entry or token -> its environment
    Existing,       \* apps and environments there are before the page is opened
    None,
    Idle,           \* no request of a query is on its way
    MaxWrites,      \* bound on versions
    MaxMixed        \* bound on versions if there are versions of tokens among them

ASSUME WorkspaceAssumption ==
    /\ AppOf \in [Envs -> Apps] /\ EnvOf \in [Entries \cup Tokens -> Envs]
    /\ Apps \cap Envs = {} /\ Envs \cap Entries = {} /\ Entries \cap Tokens = {}
    /\ MaxWrites \in Nat /\ MaxMixed \in 0..MaxWrites
    /\ None \notin Apps \cup Envs \cup Entries \cup Tokens \cup Nat
    /\ Idle \notin Nat
    /\ Existing \subseteq Apps \cup Envs

VARIABLES
    \* the API and its database
    created,        \* apps and environments
    log,            \* the entries and tokens written, in the order of the commits
    \* the page
    app, env, entry,    \* selectedAppId, selectedEnvironmentId, selectedEntryId
    data,           \* query -> None, or the length of the log when it was read
    stale,          \* query -> isInvalidated
    flight,         \* query -> Idle, or the length of the log when it was requested
    mutation,       \* None, or the one submitted
    live,           \* liveState is "live", not "connecting" or "offline"
    pushed,         \* events on the stream the page has not handled
    \* auxiliary
    own             \* query -> 0, or length of the log after the page's last answered
                    \* write that the query has still to show

db == <<created, log>>
selection == <<app, env, entry>>
cache == <<data, stale, flight>>
stream == <<live, pushed>>
vars == <<db, selection, cache, mutation, stream, own>>

-----------------------------------------------------------------------------
\* useConfigEntriesQuery of an environment, useConfigEntryVersionsQuery of an entry.
Queries == Envs \cup Entries

\* Versions of entry x after the first n writes; a token has one when it is created,
\* and more when it is revoked.
VersionAt(x, n) == Cardinality({i \in 1..n : log[i] = x})

\* Tokens there were after the first n writes.
Issued(n) == {k \in Tokens : VersionAt(k, n) > 0}

Kinds == {"app", "environment", "entry", "rollback", "token", "revocation"}

Mutations ==
    [kind : Kinds, target : Apps \cup Envs \cup Entries \cup Tokens,
     env : Envs \cup {None},
     history : Entries \cup {None}, expected : 0..MaxWrites, version : 0..MaxWrites,
     basis : 0..MaxWrites, phase : {"sent", "done", "refreshing"}]

TypeOK ==
    /\ created \in SUBSET (Apps \cup Envs)
    /\ log \in Seq(Entries \cup Tokens)
    /\ app \in Apps \cup {None} /\ env \in Envs \cup {None} /\ entry \in Entries \cup {None}
    /\ data \in [Queries -> (0..Len(log)) \cup {None}]
    /\ stale \in [Queries -> BOOLEAN]
    /\ flight \in [Queries -> (0..Len(log)) \cup {Idle}]
    /\ mutation \in Mutations \cup {None}
    /\ live \in BOOLEAN
    /\ pushed \in 0..MaxWrites
    /\ own \in [Queries -> 0..Len(log)]

Init ==
    /\ created = Existing
    /\ log = <<>>
    /\ app = None /\ env = None /\ entry = None
    /\ data = [q \in Queries |-> None]
    /\ stale = [q \in Queries |-> FALSE]
    /\ flight = [q \in Queries |-> Idle]
    /\ mutation = None
    /\ live = FALSE /\ pushed = 0
    /\ own = [q \in Queries |-> 0]

-----------------------------------------------------------------------------
(* The query cache.  A query is observed while it is selected.             *)

Observed == {env, entry} \cap Queries

\* A component that starts to observe a query fetches what is missing, stale or
\* older than staleTime.
Outdated(qs, aged) ==
    {q \in qs : flight[q] = Idle /\ (data[q] = None \/ stale[q] \/ aged)}

Fetch(qs) == flight' = [q \in Queries |-> IF q \in qs THEN Len(log) ELSE flight[q]]

Mount(q) == \E aged \in BOOLEAN : Fetch(Outdated({q}, aged))

\* A request that is on its way for want of data is not restarted; nor is one for
\* a query that is not observed any more.
Restarted(qs) == {q \in qs \cap Observed : data[q] # None \/ flight[q] = Idle}

\* invalidateQueries, and the fetches of what is mounted in the same step.
Invalidate(qs, mounted) ==
    /\ \E aged \in BOOLEAN : Fetch(Restarted(qs) \cup Outdated(mounted, aged))
    /\ stale' = [q \in Queries |-> stale[q] \/ (q \in qs /\ data[q] # None)]

\* The API read the rows some time after the request and before now; the query is
\* fresh.
QueryArrives(q) ==
    /\ flight[q] # Idle
    /\ \E n \in flight[q]..Len(log) :
          /\ data' = [data EXCEPT ![q] = n]
          /\ own' = [own EXCEPT ![q] = IF n >= @ THEN 0 ELSE @]
    /\ stale' = [stale EXCEPT ![q] = FALSE]
    /\ flight' = [flight EXCEPT ![q] = Idle]
    /\ UNCHANGED <<db, selection, mutation, stream>>

\* The request fails, and its one retry too.
QueryFails(q) ==
    /\ flight[q] # Idle
    /\ flight' = [flight EXCEPT ![q] = Idle]
    /\ UNCHANGED <<db, selection, data, stale, mutation, stream, own>>

-----------------------------------------------------------------------------
(* Selection.  The page opens another event stream when app or environment *)
(* changes.                                                                *)

Reconnect == live' = FALSE /\ pushed' = 0

\* An app is listed from some time after it was created.
ListedApps == Apps \cap created

\* So is an environment, under its app.
ListedEnvironments == {e \in Envs \cap created : AppOf[e] = app}

\* Faulty: the environment stays.
SelectAppOnly(a) ==
    /\ a \in ListedApps \ {app}
    /\ app' = a
    /\ Reconnect
    /\ UNCHANGED <<db, env, entry, cache, mutation, own>>

\* The effect that selects the first app, and the Select of apps.
SelectApp(a) ==
    /\ a \in ListedApps \ {app}
    /\ app' = a /\ env' = None /\ entry' = None
    /\ Reconnect
    /\ UNCHANGED <<db, cache, mutation, own>>

\* The effect that selects the first environment of the app, and the Select.
SelectEnvironment(e) ==
    /\ e \in ListedEnvironments \ {env}
    /\ env' = e /\ entry' = None
    /\ Mount(e)
    /\ Reconnect
    /\ UNCHANGED <<db, app, data, stale, mutation, own>>

Listed == {x \in Entries : EnvOf[x] = env /\ data[env] # None /\ VersionAt(x, data[env]) > 0}

\* The effect that selects the first entry, and a click on a row.
SelectEntry(x) ==
    /\ env # None
    /\ x \in Listed \ {entry}
    /\ entry' = x
    /\ Mount(x)
    /\ UNCHANGED <<db, app, env, data, stale, mutation, stream, own>>

-----------------------------------------------------------------------------
(* Mutations.  isSubmitting disables every button that would start another. *)

Submit(kind, target, e, x, basis, expected, version) ==
    /\ mutation = None
    /\ mutation' = [kind |-> kind, target |-> target, env |-> e, history |-> x,
                    basis |-> basis, expected |-> expected, version |-> version,
                    phase |-> "sent"]
    /\ UNCHANGED <<db, selection, cache, stream, own>>

CreateApp(a) == Submit("app", a, None, None, 0, 0, 0)

CreateEnvironment(e) == AppOf[e] = app /\ Submit("environment", e, None, None, 0, 0, 0)

\* What the table shows: nothing while it is loading.
Shown == IF data[env] = None THEN 0 ELSE data[env]

\* With the version of the key in the table, 0 if it is not there.
SaveEntry(x) ==
    /\ EnvOf[x] = env
    /\ Submit("entry", x, env, entry, Shown, VersionAt(x, Shown), 0)

\* The history of an entry, as it was read.
ListedVersions(x) == IF data[x] = None THEN {} ELSE 1..VersionAt(x, data[x])

\* A button of the history of the selected entry.
RollbackEntry(n) ==
    /\ env # None
    /\ entry \in Listed
    /\ n \in ListedVersions(entry)
    /\ n # VersionAt(entry, Shown)
    /\ Submit("rollback", entry, env, entry, Shown, VersionAt(entry, Shown), n)

\* The secret is new, and so is the row it makes.
CreateToken(k) ==
    /\ EnvOf[k] = env /\ k \notin Issued(Len(log))
    /\ Submit("token", k, env, None, 0, 0, 0)

\* The button of a token that the table shows as active: as it was at some time.
RevokeToken(k) ==
    /\ EnvOf[k] = env /\ k \in Issued(Len(log))
    /\ Submit("revocation", k, env, None, 0, 0, 0)

Phase(p) == mutation' = [mutation EXCEPT !.phase = p]

\* A commit; its event comes down the stream of the environment, if it is up.
Commit(x) ==
    /\ Len(log) < IF Issued(Len(log)) \cup ({x} \cap Tokens) = {} THEN MaxWrites ELSE MaxMixed
    /\ log' = Append(log, x)
    /\ pushed' = IF EnvOf[x] = env /\ live THEN pushed + 1 ELSE pushed
    /\ UNCHANGED <<created, live>>

Current(x) == VersionAt(x, Len(log))

Submitted == mutation # None /\ mutation.phase = "sent"

\* The API creates it, or its slug is taken: the error is shown and the buttons are
\* enabled.
Create(kind) ==
    /\ Submitted
    /\ mutation.kind = kind
    /\ created' = created \cup {mutation.target}
    /\ IF mutation.target \in created THEN mutation' = None ELSE Phase("done")
    /\ UNCHANGED <<log, selection, cache, stream, own>>

HandleCreateApp == Create("app")

HandleCreateEnvironment == Create("environment")

\* Faulty: the expected version is not compared.
HandleWriteUnchecked ==
    /\ Submitted
    /\ mutation.kind \in {"entry", "rollback"}
    /\ Commit(mutation.target) /\ Phase("done")
    /\ UNCHANGED <<selection, cache, own>>

\* The API writes a version, or the expected one is not current.
HandleWrite ==
    /\ Submitted
    /\ mutation.kind \in {"entry", "rollback"}
    /\ IF mutation.expected = Current(mutation.target)
       THEN Commit(mutation.target) /\ Phase("done")
       ELSE UNCHANGED <<db, stream>> /\ mutation' = None
    /\ UNCHANGED <<selection, cache, own>>

\* A token is created, with an event of its environment.
HandleCreateToken ==
    /\ Submitted
    /\ mutation.kind = "token"
    /\ Commit(mutation.target) /\ Phase("done")
    /\ UNCHANGED <<selection, cache, own>>

\* It is revoked, and once more if another administrator was faster.
HandleRevokeToken ==
    /\ Submitted
    /\ mutation.kind = "revocation"
    /\ Commit(mutation.target) /\ Phase("done")
    /\ UNCHANGED <<selection, cache, own>>

\* The request fails, times out after 20 s, or its answer is lost.
RequestFails ==
    /\ mutation # None /\ mutation.phase \in {"sent", "done"}
    /\ mutation' = None
    /\ UNCHANGED <<db, selection, cache, stream, own>>

Answered(kind) == mutation # None /\ mutation.kind = kind /\ mutation.phase = "done"

\* The new app is selected; environment and entry stay.
AppCreated ==
    /\ Answered("app")
    /\ app' = mutation.target
    /\ mutation' = None
    /\ Reconnect
    /\ UNCHANGED <<db, env, entry, cache, own>>

\* The new environment is selected, whatever app is by now; the entry stays.
EnvironmentCreated ==
    /\ Answered("environment")
    /\ env' = mutation.target
    /\ Mount(mutation.target)
    /\ Reconnect
    /\ mutation' = None
    /\ UNCHANGED <<db, app, entry, data, stale, own>>

\* Faulty: nothing is invalidated.
RefreshNothing(mounted) == Invalidate({}, mounted)

\* refreshSelectedEnvironment with the selection the click saw: the entries of the
\* environment and the history of the entry selected then.
RefreshSelected(mounted) ==
    Invalidate({mutation.env, mutation.history} \cap Queries, mounted)

\* Queries that have no data, and those whose request goes on, are excused.
OwnWrite ==
    own' = [q \in Queries |->
              IF /\ q \in {mutation.env, mutation.history} /\ data[q] # None
                 /\ q \in Observed \/ flight[q] = Idle
              THEN Len(log) ELSE own[q]]

\* The saved entry is selected.
EntrySaved ==
    /\ Answered("entry")
    /\ entry' = mutation.target
    /\ RefreshSelected({mutation.target})
    /\ Phase("refreshing")
    /\ OwnWrite
    /\ UNCHANGED <<db, app, env, data, stream>>

EntryRolledBack ==
    /\ Answered("rollback")
    /\ RefreshSelected({})
    /\ Phase("refreshing")
    /\ OwnWrite
    /\ UNCHANGED <<db, selection, data, stream>>

\* The table of tokens is invalidated, and nothing else.
TokenWritten ==
    /\ Answered("token") \/ Answered("revocation")
    /\ Phase("refreshing")
    /\ UNCHANGED <<db, selection, cache, stream, own>>

\* The requests of the refresh have settled or were cancelled by a later one.
RefreshSettles ==
    /\ mutation # None /\ mutation.phase = "refreshing"
    /\ mutation' = None
    /\ UNCHANGED <<db, selection, cache, stream, own>>

\* The Refresh button.
Refresh ==
    /\ env # None
    /\ Invalidate({env, entry} \cap Queries, {})
    /\ UNCHANGED <<db, selection, data, mutation, stream, own>>

-----------------------------------------------------------------------------
(* The event stream of the selected environment, and the others.           *)

StreamConnects ==
    /\ env # None /\ ~live
    /\ live' = TRUE
    /\ UNCHANGED <<db, selection, cache, mutation, pushed, own>>

\* The connection breaks or says "unavailable"; what was on its way is lost.
StreamBreaks ==
    /\ live
    /\ Reconnect
    /\ UNCHANGED <<db, selection, cache, mutation, own>>

\* Faulty: an event does not invalidate the entries.
OnConfigEventIgnored ==
    /\ pushed > 0
    /\ pushed' = pushed - 1
    /\ UNCHANGED <<db, selection, cache, mutation, live, own>>

\* An event of an entry or a token invalidates the entries, and not the history.
OnConfigEvent ==
    /\ pushed > 0
    /\ pushed' = pushed - 1
    /\ Invalidate({env}, {})
    /\ UNCHANGED <<db, selection, data, mutation, live, own>>

\* Another administrator saves or rolls back.
OtherWrites(x) ==
    /\ EnvOf[x] \in created
    /\ Commit(x)
    /\ UNCHANGED <<selection, cache, mutation, own>>

\* Another administrator creates a token, of a name of its own, or revokes one.
OtherTokens(k) ==
    /\ EnvOf[k] \in created
    /\ mutation # None /\ k \notin Issued(Len(log)) => mutation.target # k
    /\ Commit(k)
    /\ UNCHANGED <<selection, cache, mutation, own>>

OtherCreates(c) ==
    /\ c \notin created
    /\ created' = created \cup {c}
    /\ UNCHANGED <<log, selection, cache, mutation, stream, own>>

\* Another administrator creates an app, or an environment of an app.
OtherCreatesApp(a) == OtherCreates(a)

OtherCreatesEnvironment(e) == AppOf[e] \in created /\ OtherCreates(e)

-----------------------------------------------------------------------------
Click ==
    \/ \E a \in Apps : SelectApp(a) \/ CreateApp(a)
    \/ \E e \in Envs : SelectEnvironment(e) \/ CreateEnvironment(e)
    \/ \E x \in Entries : SelectEntry(x) \/ SaveEntry(x)
    \/ \E k \in Tokens : CreateToken(k) \/ RevokeToken(k)
    \/ \E n \in 1..MaxWrites : RollbackEntry(n)
    \/ Refresh

Response ==
    \/ HandleCreateApp \/ HandleCreateEnvironment \/ HandleWrite
    \/ HandleCreateToken \/ HandleRevokeToken \/ RequestFails
    \/ AppCreated \/ EnvironmentCreated \/ EntrySaved \/ EntryRolledBack
    \/ TokenWritten \/ RefreshSettles

Others ==
    \/ \E x \in Entries : OtherWrites(x)
    \/ \E k \in Tokens : OtherTokens(k)
    \/ \E a \in Apps : OtherCreatesApp(a)
    \/ \E e \in Envs : OtherCreatesEnvironment(e)

Next ==
    \/ Click \/ Response \/ Others
    \/ \E q \in Queries : QueryArrives(q) \/ QueryFails(q)
    \/ StreamConnects \/ StreamBreaks \/ OnConfigEvent

Spec == Init /\ [][Next]_vars

\* The API answers queries and the browser handles answers and events.
Fairness ==
    /\ \A q \in Queries : WF_vars(QueryArrives(q))
    /\ WF_vars(OnConfigEvent)

FairSpec == Spec /\ Fairness

-----------------------------------------------------------------------------
(* Properties.                                                             *)

\* After a write of the page was answered, the table of its environment and the
\* history that was open at the click hold the write, or are known to be stale or
\* on their way: no earlier answer makes them look fresh without it.  Excused are
\* a query without data and one not looked at any more whose request was on its
\* way: invalidateQueries lets that request go on, and its answer counts as fresh.
OwnWritesAreShown ==
    \A q \in Queries : data[q] # None /\ data[q] < own[q] =>
        stale[q] \/ flight[q] # Idle

\* "Existing keys use optimistic concurrency with the current version": what the
\* page commits replaces the version of the table it was clicked on, whatever was
\* written or selected since, and a rollback names a version that exists.
WritesReplaceWhatWasShown ==
    [][\A x \in Entries : HandleWrite /\ log' = Append(log, x) =>
          /\ \A i \in (mutation.basis + 1)..Len(log) : log[i] # x
          /\ mutation.kind = "rollback" =>
                mutation.version \in 1..Current(x) /\ EnvOf[x] = mutation.env]_vars

\* Environment and entry fit the app and environment they are shown under.
SelectionFits ==
    /\ env # None => AppOf[env] = app
    /\ entry # None => EnvOf[entry] = env

\* Only the answer of a mutation takes the selection apart, never a click: a new
\* app leaves the old environment selected, a new environment the old entry, and a
\* save selects its entry though the environment was changed meanwhile.
SelectionStraysOnAnswers ==
    [][SelectionFits /\ ~SelectionFits' => AppCreated \/ EnvironmentCreated \/ EntrySaved]_vars

\* A write committed while the stream is up reaches a table that was loaded, unless
\* the environment is left, the stream breaks or the table cannot be fetched.
TablesConverge ==
    \A e \in Envs, n \in 1..MaxWrites :
        env = e /\ live /\ pushed > 0 /\ data[e] # None /\ Len(log) = n
        ~> \/ env # e \/ ~live
           \/ data[e] # None /\ data[e] >= n
           \/ stale[e] /\ flight[e] = Idle

================================================================================
