---------------------------- MODULE SimulatorPanel ----------------------------
(***************************************************************************)
(* The client simulator of the dashboard (config-simulator-panel.tsx) and  *)
(* what the API gives it: a user pastes a service token and starts a run,  *)
(* which loads the snapshot of the token's environment, opens an event     *)
(* stream and reloads the snapshot on every event.  Starting again,        *)
(* stopping, clearing, editing the token and leaving the page abort the    *)
(* run while its requests are on their way; an aborted request is rejected *)
(* or, if its answer was there first, still answered.  The proxy of the    *)
(* web server never hears of the abort of a request it has passed on: only *)
(* a response that is already being read is closed by it.                  *)
(*                                                                         *)
(* All tokens are of one environment.  Events are published in order here; *)
(* late, repeated and reordered ones are ConfigPropagation's subject.      *)
(***************************************************************************)
EXTENDS Integers, Sequences

CONSTANTS
    Tokens,         \* service tokens a user may paste
    None,           \* no token, no snapshot, no answer
    Refused,        \* the answer of a request that was refused or failed
    Admitted,       \* a request whose token was found, with no answer yet
    MaxRuns,        \* bound on runs started
    MaxRevision     \* bound on writes

ASSUME PanelAssumption ==
    /\ MaxRuns \in Nat /\ MaxRevision \in Nat
    /\ None \notin Tokens \cup Nat
    /\ Refused \notin Nat \cup {None}
    /\ Admitted \notin Nat \cup {None, Refused}

VARIABLES
    \* the API
    revision,       \* revision of the environment
    unpublished,    \* events of the environment that are not announced yet
    issued,         \* tokens that were created
    revokedAt,      \* token -> None, or the revision when it was revoked
    conn,           \* run -> its event stream at the API
    queue,          \* run -> events on the stream the panel has not read
    reply,          \* run -> what the API has made of its snapshot request, or None
    \* the panel
    mounted,        \* the page is open
    token,          \* the token field
    status,
    snapshot,       \* None, or the revision shown and the run that loaded it
    started,        \* runs started so far; run n is the n-th
    active,         \* activeRunRef: the run that owns the panel, or 0
    \* the runs of startSimulator
    runToken,       \* run -> the token it was started with
    step,           \* run -> the await it is at
    reader,         \* runs that have the reader of their stream's body
    aborted,        \* run -> its controller was aborted
    failed          \* run -> it ended in the catch block with an error

server == <<revision, unpublished, issued, revokedAt>>
panel == <<mounted, token, status, snapshot, started, active>>
runs == <<runToken, step, reader, aborted, failed>>
vars == <<server, conn, queue, reply, panel, runs>>

-----------------------------------------------------------------------------
Runs == 1..MaxRuns
Revisions == 1..MaxRevision
Statuses == {"idle", "loading", "connecting", "live", "unavailable", "stopped", "error"}
Steps == {"new", "snapshot", "stream", "reading", "refresh", "done"}
Events == {"connected", "change", "unavailable"}
Streams == {"none", "asked", "refused", "opening", "open", "closed"}

\* The API's callback of streamSSE runs, with a consumer or about to have one.
StreamOpen(r) == conn[r] \in {"opening", "open"}

TypeOK ==
    /\ revision \in 0..MaxRevision
    /\ unpublished \in Nat
    /\ issued \in SUBSET Tokens
    /\ revokedAt \in [Tokens -> (0..MaxRevision) \cup {None}]
    /\ conn \in [Runs -> Streams]
    /\ queue \in [Runs -> Seq(Events)]
    /\ reply \in [Runs -> (0..MaxRevision) \cup {None, Refused, Admitted}]
    /\ mounted \in BOOLEAN
    /\ token \in Tokens \cup {None}
    /\ status \in Statuses
    /\ snapshot \in [run : Runs, revision : 0..MaxRevision] \cup {None}
    /\ started \in 0..MaxRuns
    /\ active \in 0..MaxRuns
    /\ runToken \in [Runs -> Tokens \cup {None}]
    /\ step \in [Runs -> Steps]
    /\ reader \in SUBSET Runs
    /\ aborted \in [Runs -> BOOLEAN]
    /\ failed \in [Runs -> BOOLEAN]

Init ==
    /\ revision = 0 /\ unpublished = 0
    /\ issued = {}
    /\ revokedAt = [t \in Tokens |-> None]
    /\ conn = [r \in Runs |-> "none"]
    /\ queue = [r \in Runs |-> <<>>]
    /\ reply = [r \in Runs |-> None]
    /\ mounted = TRUE
    /\ token = None
    /\ status = "idle"
    /\ snapshot = None
    /\ started = 0 /\ active = 0
    /\ runToken = [r \in Runs |-> None]
    /\ step = [r \in Runs |-> "new"]
    /\ reader = {}
    /\ aborted = [r \in Runs |-> FALSE]
    /\ failed = [r \in Runs |-> FALSE]

-----------------------------------------------------------------------------
(* The API.                                                                *)

Write ==
    /\ revision < MaxRevision
    /\ revision' = revision + 1
    /\ unpublished' = unpublished + 1
    /\ UNCHANGED <<issued, revokedAt, conn, queue, reply, panel, runs>>

\* What is written to the stream of such a run is read by nobody.
Deaf(r) == step[r] = "done" \/ aborted[r]

\* The next event, of a write or about a token, reaches every stream whose consumer
\* is subscribed and whose run may still read.
Publish ==
    /\ unpublished > 0
    /\ unpublished' = unpublished - 1
    /\ queue' = [r \in Runs |->
                   IF conn[r] = "open" /\ ~Deaf(r)
                   THEN Append(queue[r], "change") ELSE queue[r]]
    /\ UNCHANGED <<revision, issued, revokedAt, conn, reply, panel, runs>>

\* The secret of a token is shown to the user who creates it, once.
CreateToken(t) ==
    /\ t \notin issued
    /\ issued' = issued \cup {t}
    /\ unpublished' = unpublished + 1
    /\ UNCHANGED <<revision, revokedAt, conn, queue, reply, panel, runs>>

\* The row that is found by the hash of the secret.
Active(t) == revokedAt[t] = None

\* The dashboard offers it for an active token.  Streams opened with the token stay
\* open; their runs learn of it from the event.
RevokeToken(t) ==
    /\ t \in issued
    /\ Active(t)
    /\ revokedAt' = [revokedAt EXCEPT ![t] = revision]
    /\ unpublished' = unpublished + 1
    /\ UNCHANGED <<revision, issued, conn, queue, reply, panel, runs>>

\* Faulty: a token is looked up for the first request only.
AuthenticatesOnce(r) == step[r] # "snapshot" \/ Active(runToken[r])

\* Every request authenticates anew.
Authenticates(r) == Active(runToken[r])

\* GET /client/config: the token is found by its hash, or refused.
FindToken(r) ==
    /\ step[r] \in {"snapshot", "refresh"}
    /\ reply[r] = None
    /\ reply' = [reply EXCEPT ![r] = IF Authenticates(r) THEN Admitted ELSE Refused]
    /\ UNCHANGED <<server, conn, queue, panel, runs>>

\* The token is touched and, a query later, the snapshot is read, whatever has become
\* of the token.
ReadSnapshot(r) ==
    /\ step[r] \in {"snapshot", "refresh"}
    /\ reply[r] = Admitted
    /\ reply' = [reply EXCEPT ![r] = revision]
    /\ UNCHANGED <<server, conn, queue, panel, runs>>

\* The request fails on the way, in the web server's proxy or in the API.
FailSnapshot(r) ==
    /\ step[r] \in {"snapshot", "refresh"}
    /\ reply[r] \in {None, Admitted}
    /\ reply' = [reply EXCEPT ![r] = Refused]
    /\ UNCHANGED <<server, conn, queue, panel, runs>>

\* GET /client/config/events: the token is refused, or streamSSE answers with the
\* headers; nothing is read after the token.  Nobody tells the API that the run was
\* aborted while it awaits the headers.
OpenStream(r) ==
    /\ conn[r] = "asked"
    /\ conn' = [conn EXCEPT ![r] = IF Authenticates(r) THEN "opening" ELSE "refused"]
    /\ UNCHANGED <<server, queue, reply, panel, runs>>

\* The request fails on the way, in the web server's proxy or in the API.
FailStream(r) ==
    /\ conn[r] = "asked"
    /\ conn' = [conn EXCEPT ![r] = "refused"]
    /\ UNCHANGED <<server, queue, reply, panel, runs>>

Send(r, e) == queue' = IF Deaf(r) THEN queue ELSE [queue EXCEPT ![r] = <<e>>]

\* The relay's consumer is connected, subscribed and at the end of the topic.
Subscribed(r) ==
    /\ conn[r] = "opening"
    /\ conn' = [conn EXCEPT ![r] = "open"]
    /\ Send(r, "connected")
    /\ UNCHANGED <<server, reply, panel, runs>>

\* Streaming is switched off or the consumer fails; the relay says so and ends.
Unavailable(r) ==
    /\ conn[r] = "opening"
    /\ conn' = [conn EXCEPT ![r] = "closed"]
    /\ Send(r, "unavailable")
    /\ UNCHANGED <<server, reply, panel, runs>>

\* The API process shuts down, or the proxy ends the response: it may do so when it
\* finds that nobody reads it.
EndStream(r) ==
    /\ StreamOpen(r)
    /\ conn' = [conn EXCEPT ![r] = "closed"]
    /\ UNCHANGED <<server, queue, reply, panel, runs>>

-----------------------------------------------------------------------------
(* The user.                                                               *)

\* controller.abort() of the run that owns the panel: the browser closes the
\* stream it reads; a request that awaits its headers goes on at the proxy.
AbortActive ==
    /\ aborted' = [r \in Runs |-> aborted[r] \/ r = active]
    /\ conn' = [r \in Runs |->
                  IF r = active /\ r \in reader /\ StreamOpen(r)
                  THEN "closed" ELSE conn[r]]

\* handleTokenChange: another token stops the run of the last one.
EditToken(t) ==
    /\ mounted
    /\ t # token /\ t \in issued \cup {None}
    /\ token' = t
    /\ IF active = 0
       THEN UNCHANGED <<status, active, aborted, conn>>
       ELSE /\ AbortActive
            /\ active' = 0
            /\ status' = "stopped"
    /\ UNCHANGED <<server, queue, reply, mounted, snapshot, started, runToken, step, reader, failed>>

\* Faulty: Start replaces the run without aborting it.
StartOver ==
    /\ mounted
    /\ token # None
    /\ status \notin {"loading", "connecting"}
    /\ started < MaxRuns
    /\ started' = started + 1
    /\ active' = started + 1
    /\ status' = "loading"
    /\ snapshot' = None
    /\ runToken' = [runToken EXCEPT ![started + 1] = token]
    /\ step' = [step EXCEPT ![started + 1] = "snapshot"]
    /\ UNCHANGED <<server, queue, reply, mounted, token, reader, failed, aborted, conn>>

\* Start and Restart: the button is disabled without a token and while a run is
\* starting.
Start ==
    /\ mounted
    /\ token # None
    /\ status \notin {"loading", "connecting"}
    /\ started < MaxRuns
    /\ AbortActive
    /\ started' = started + 1
    /\ active' = started + 1
    /\ status' = "loading"
    /\ snapshot' = None
    /\ runToken' = [runToken EXCEPT ![started + 1] = token]
    /\ step' = [step EXCEPT ![started + 1] = "snapshot"]
    /\ UNCHANGED <<server, queue, reply, mounted, token, reader, failed>>

\* The button is enabled by the status alone.
Stop ==
    /\ mounted
    /\ status \in {"loading", "connecting", "live"}
    /\ AbortActive
    /\ active' = 0
    /\ status' = "stopped"
    /\ UNCHANGED <<server, queue, reply, mounted, token, snapshot, started, runToken, step, reader, failed>>

Clear ==
    /\ mounted
    /\ AbortActive
    /\ active' = 0
    /\ token' = None
    /\ status' = "idle"
    /\ snapshot' = None
    /\ UNCHANGED <<server, queue, reply, mounted, started, runToken, step, reader, failed>>

\* The page is left: the effect's cleanup; the state of the component is gone.
Unmount ==
    /\ mounted
    /\ mounted' = FALSE
    /\ AbortActive
    /\ active' = 0
    /\ token' = None /\ status' = "idle" /\ snapshot' = None
    /\ UNCHANGED <<server, queue, reply, started, runToken, step, reader, failed>>

-----------------------------------------------------------------------------
(* A run.  Between two awaits it asks isCurrentRun() before it touches the  *)
(* panel.                                                                  *)

IsCurrentRun(r) == active = r

\* catch and finally: the run ends; an aborted one says nothing.  The stream's
\* reader is not cancelled.
Throw(r) ==
    /\ step' = [step EXCEPT ![r] = "done"]
    /\ queue' = [queue EXCEPT ![r] = <<>>]
    /\ reply' = [reply EXCEPT ![r] = None]
    /\ active' = IF active = r THEN 0 ELSE active
    /\ IF aborted[r]
       THEN UNCHANGED <<status, failed>>
       ELSE /\ status' = "error"
            /\ failed' = [failed EXCEPT ![r] = TRUE]
    /\ UNCHANGED <<server, mounted, token, snapshot, started, runToken, reader, aborted>>

\* A snapshot request was refused or failed.
SnapshotFails(r) ==
    /\ step[r] \in {"snapshot", "refresh"}
    /\ reply[r] = Refused
    /\ Throw(r)
    /\ UNCHANGED conn

\* The stream was refused.
StreamFails(r) ==
    /\ step[r] = "stream"
    /\ conn[r] = "refused"
    /\ Throw(r)
    /\ UNCHANGED conn

\* The browser loses the proxy, which still awaits the headers.
RequestLost(r) ==
    /\ step[r] = "stream"
    /\ Throw(r)
    /\ UNCHANGED conn

\* reader.read() rejects: the connection broke.
ReadFails(r) ==
    /\ step[r] = "reading"
    /\ StreamOpen(r)
    /\ conn' = [conn EXCEPT ![r] = "closed"]
    /\ Throw(r)

\* The await of an aborted run is rejected with an AbortError.
AbortRejects(r) ==
    /\ aborted[r]
    /\ step[r] \in {"snapshot", "stream", "reading", "refresh"}
    /\ Throw(r)
    /\ UNCHANGED conn

Show(r) == snapshot' = [run |-> r, revision |-> reply[r]]

\* Faulty: the answer is shown whoever owns the panel by now.
SnapshotShown(r) ==
    /\ step[r] = "snapshot"
    /\ reply[r] \in Nat
    /\ reply' = [reply EXCEPT ![r] = None]
    /\ Show(r)
    /\ status' = "connecting"
    /\ step' = [step EXCEPT ![r] = "stream"]
    /\ conn' = [conn EXCEPT ![r] = "asked"]
    /\ UNCHANGED <<server, queue, mounted, token, started, active, runToken, reader, aborted, failed>>

\* The first snapshot arrives; the stream is requested next.
SnapshotArrives(r) ==
    /\ step[r] = "snapshot"
    /\ reply[r] \in Nat
    /\ reply' = [reply EXCEPT ![r] = None]
    /\ IF IsCurrentRun(r)
       THEN /\ Show(r)
            /\ status' = "connecting"
            /\ step' = [step EXCEPT ![r] = "stream"]
            /\ conn' = [conn EXCEPT ![r] = "asked"]
       ELSE /\ step' = [step EXCEPT ![r] = "done"]
            /\ UNCHANGED <<snapshot, status, conn>>
    /\ UNCHANGED <<server, queue, mounted, token, started, active, runToken, reader, aborted, failed>>

\* The stream's headers arrive, perhaps before its consumer is subscribed or when the
\* stream has ended again.
StreamOpens(r) ==
    /\ step[r] = "stream"
    /\ ~aborted[r]
    /\ StreamOpen(r) \/ conn[r] = "closed"
    /\ reader' = reader \cup {r}
    /\ step' = [step EXCEPT ![r] = "reading"]
    /\ UNCHANGED <<server, conn, queue, reply, panel, runToken, aborted, failed>>

\* watchClientEvents takes the next block and the panel's callback for it.
TakeEvent(r, e) ==
    /\ step[r] = "reading"
    /\ queue[r] # <<>>
    /\ Head(queue[r]) = e
    /\ queue' = [queue EXCEPT ![r] = Tail(@)]

OnConnected(r) ==
    /\ TakeEvent(r, "connected")
    /\ status' = IF IsCurrentRun(r) THEN "live" ELSE status
    /\ UNCHANGED <<server, conn, reply, mounted, token, snapshot, started, active, runs>>

\* The run ends here.
OnUnavailable(r) ==
    /\ TakeEvent(r, "unavailable")
    /\ step' = [step EXCEPT ![r] = "done"]
    /\ status' = IF IsCurrentRun(r) THEN "unavailable" ELSE status
    /\ active' = IF IsCurrentRun(r) THEN 0 ELSE active
    /\ UNCHANGED <<server, conn, reply, mounted, token, snapshot, started, runToken, reader, aborted, failed>>

\* Faulty: the snapshot is not requested again while the last one is awaited.
OnConfigEventOnce(r) ==
    /\ TakeEvent(r, "change")
    /\ step' = [step EXCEPT ![r] =
                  IF IsCurrentRun(r) /\ snapshot.revision < 1 THEN "refresh" ELSE @]
    /\ UNCHANGED <<server, conn, reply, mounted, token, status, snapshot, started, active,
                   runToken, reader, aborted, failed>>

\* A change: the snapshot is requested and awaited before the next block.
OnConfigEvent(r) ==
    /\ TakeEvent(r, "change")
    /\ step' = [step EXCEPT ![r] = IF IsCurrentRun(r) THEN "refresh" ELSE @]
    /\ UNCHANGED <<server, conn, reply, mounted, token, status, snapshot, started, active,
                   runToken, reader, aborted, failed>>

\* The snapshot after a change arrives.
RefreshArrives(r) ==
    /\ step[r] = "refresh"
    /\ reply[r] \in Nat
    /\ reply' = [reply EXCEPT ![r] = None]
    /\ step' = [step EXCEPT ![r] = "reading"]
    /\ IF IsCurrentRun(r)
       THEN Show(r)
       ELSE UNCHANGED snapshot
    /\ UNCHANGED <<server, conn, queue, mounted, token, status, started, active,
                   runToken, reader, aborted, failed>>

\* reader.read() is done: the server ended the stream.
StreamEnds(r) ==
    /\ step[r] = "reading"
    /\ conn[r] = "closed"
    /\ queue[r] = <<>>
    /\ step' = [step EXCEPT ![r] = "done"]
    /\ status' = IF IsCurrentRun(r) THEN "stopped" ELSE status
    /\ active' = IF IsCurrentRun(r) THEN 0 ELSE active
    /\ UNCHANGED <<server, conn, queue, reply, mounted, token, snapshot, started,
                   runToken, reader, aborted, failed>>

-----------------------------------------------------------------------------
User ==
    \/ \E t \in Tokens \cup {None} : EditToken(t)
    \/ Start \/ Stop \/ Clear \/ Unmount

RunStep(r) ==
    \/ SnapshotArrives(r) \/ StreamOpens(r) \/ RefreshArrives(r)
    \/ OnConnected(r) \/ OnUnavailable(r) \/ OnConfigEvent(r)
    \/ StreamEnds(r) \/ SnapshotFails(r) \/ StreamFails(r) \/ AbortRejects(r)

Answer(r) ==
    \/ FindToken(r) \/ ReadSnapshot(r)
    \/ OpenStream(r) \/ Subscribed(r)

Fault(r) ==
    \/ FailSnapshot(r) \/ FailStream(r) \/ Unavailable(r) \/ EndStream(r)
    \/ RequestLost(r) \/ ReadFails(r)

Next ==
    \/ Write \/ Publish
    \/ \E t \in Tokens : CreateToken(t) \/ RevokeToken(t)
    \/ User
    \/ \E r \in Runs : RunStep(r) \/ Answer(r) \/ Fault(r)

Spec == Init /\ [][Next]_vars

\* While an event can be published, a request answered or a run resumed whose await is
\* settled, one of them is.  No run can keep another from its steps for ever: each has
\* finitely many.
Fairness ==
    WF_vars(Publish \/ \E r \in Runs : RunStep(r) \/ Answer(r))

FairSpec == Spec /\ Fairness

-----------------------------------------------------------------------------
(* Properties.                                                             *)

\* Answers and events of a run that was stopped or replaced never show: snapshot
\* and status are those of the run started last, and the panel says it
\* is busy exactly while a run owns it.
PanelShowsLastRun ==
    /\ snapshot # None => snapshot.run = started
    /\ mounted => (status \in {"loading", "connecting", "live"} <=> active # 0)
    /\ active # 0 => active = started /\ runToken[active] = token

\* A stream that is open at the API is the stream of the run that owns the panel, of a
\* run that ended with an error, whose catch block leaves the reader as it is, or of one
\* that was aborted before it had the reader: an abort closes every stream that a
\* run reads, and none other stays behind.
OpenStreamsAreExplained ==
    \A r \in Runs :
        StreamOpen(r) => active = r \/ failed[r] \/ (aborted[r] /\ r \notin reader)

\* While a run owns the panel its snapshot never goes back to an older revision.  A
\* revocation between the look-up of the token and the reading of the snapshot may let
\* one snapshot from after the revocation through, and that one is the run's last.
SnapshotsMoveForward ==
    [][snapshot # None /\ snapshot' # None /\ snapshot'.run = snapshot.run =>
        /\ snapshot'.revision >= snapshot.revision
        /\ LET r == snapshot.run IN
               revokedAt[runToken[r]] # None /\ snapshot.revision > revokedAt[runToken[r]]
                   => snapshot' = snapshot]_vars

\* The run that owns the panel is subscribed, with events of the environment to come.
WillBeTold == active # 0 /\ conn[active] = "open" /\ unpublished > 0

\* While events of the environment are still to be announced and the panel's run is
\* subscribed, the panel will show all writes made so far, and a run whose token was
\* revoked will end, unless the user or a fault ends the run before: the event of the
\* revocation is enough, though the stream itself stays open.
LiveRunsConverge ==
    /\ \A n \in Revisions :
          WillBeTold /\ revision >= n
              ~> active = 0 \/ (snapshot # None /\ snapshot.revision >= n)
    /\ WillBeTold /\ revokedAt[runToken[active]] # None
          ~> active = 0 \/ revokedAt[runToken[active]] = None

================================================================================
