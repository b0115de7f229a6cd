------------------------- MODULE SimulatorPanelProofs -------------------------
(***************************************************************************)
(* For every number of tokens, runs and writes: what the panel shows is of *)
(* its last run, an open stream has one of three explanations, and         *)
(* snapshots do not go back nor outlive the token by more than one.        *)
(***************************************************************************)
EXTENDS SimulatorPanel, TLAPS

\* A run that was not started has done nothing; one that still works owns the panel
\* or was aborted, never both.
RunsAreOwned ==
    \A r \in Runs :
        /\ r > started => step[r] = "new" /\ ~aborted[r]
        /\ active = r => step[r] \notin {"new", "done"} /\ ~aborted[r]
        /\ step[r] \notin {"new", "done"} => active = r \/ aborted[r]
        /\ step[r] # "new" => runToken[r] \in Tokens

\* A stream is requested after the first snapshot, by the run that owns the panel; it
\* has its reader when the headers are there.
StreamsFollowRuns ==
    \A r \in Runs :
        /\ step[r] \in {"new", "snapshot"} => conn[r] = "none"
        /\ step[r] \in {"new", "snapshot", "stream"} => r \notin reader
        /\ conn[r] = "asked" => r \notin reader /\ (active = r \/ failed[r] \/ aborted[r])

\* After "unavailable" the relay has ended the stream.
UnavailableIsLast ==
    \A r \in Runs :
        conn[r] # "closed" => \A i \in 1..Len(queue[r]) : queue[r][i] # "unavailable"

\* An answer on its way is as new as what the run shows.  While a request is on its way
\* whose token was found, what the run shows is from before the token was revoked.
AnswerIsRecent(r) ==
    /\ reply[r] # None => step[r] \in {"snapshot", "refresh"}
    /\ reply[r] \in Nat =>
          /\ reply[r] <= revision
          /\ snapshot # None /\ snapshot.run = r => snapshot.revision <= reply[r]
    /\ reply[r] \notin {None, Refused} /\ revokedAt[runToken[r]] # None =>
          (snapshot # None /\ snapshot.run = r => snapshot.revision <= revokedAt[runToken[r]])

AnswersAreRecent == \A r \in Runs : AnswerIsRecent(r)

\* What is shown was committed.
SnapshotIsRecent ==
    snapshot # None => step[snapshot.run] # "new" /\ snapshot.revision <= revision

\* The inductive invariant.  What is proved below are its second and sixth part; the
\* others say what a run may do at each of its awaits.
PInv ==
    /\ TypeOK
    /\ PanelShowsLastRun
    /\ RunsAreOwned
    /\ StreamsFollowRuns
    /\ UnavailableIsLast
    /\ OpenStreamsAreExplained
    /\ AnswersAreRecent
    /\ SnapshotIsRecent

\* What controller.abort() does to each run.
LEMMA AbortActiveDoes ==
    ASSUME TypeOK, AbortActive
    PROVE  /\ aborted' \in [Runs -> BOOLEAN]
           /\ conn' \in [Runs -> Streams]
           /\ \A r \in Runs : (aborted'[r] = TRUE) <=> (aborted[r] = TRUE \/ r = active)
           /\ \A r \in Runs : conn'[r] =
                 IF r = active /\ r \in reader /\ StreamOpen(r) THEN "closed" ELSE conn[r]
<1>1. \A r \in Runs : (aborted[r] \/ r = active) \in BOOLEAN
  OBVIOUS
<1>2. aborted' \in [Runs -> BOOLEAN]
  BY <1>1 DEF AbortActive
<1>3. \A r \in Runs : (aborted'[r] = TRUE) <=> (aborted[r] = TRUE \/ r = active)
  BY DEF AbortActive, TypeOK, Streams, StreamOpen
<1>4. /\ conn' \in [Runs -> Streams]
      /\ \A r \in Runs : conn'[r] =
            IF r = active /\ r \in reader /\ StreamOpen(r) THEN "closed" ELSE conn[r]
  BY DEF AbortActive, TypeOK, Streams, StreamOpen
<1> QED BY <1>2, <1>3, <1>4

\* One lemma per action: a write makes every answer on its way older, never newer.
LEMMA WriteKeeps ==
    ASSUME PInv, Write
    PROVE  PInv'
<1> USE PanelAssumption DEF PInv, TypeOK, Runs, Write, server, panel, runs
<1>1. TypeOK'
  BY DEF Statuses, Steps, Events, Streams
<1>2. PanelShowsLastRun'
  BY DEF PanelShowsLastRun
<1>3. RunsAreOwned'
  BY DEF RunsAreOwned
<1>4. StreamsFollowRuns'
  BY DEF StreamsFollowRuns
<1>5. UnavailableIsLast'
  BY DEF UnavailableIsLast
<1>6. OpenStreamsAreExplained'
  BY DEF OpenStreamsAreExplained, StreamOpen
<1>7. AnswersAreRecent'
  BY DEF AnswersAreRecent, AnswerIsRecent
<1>8. SnapshotIsRecent'
  BY DEF SnapshotIsRecent
<1> QED BY <1>1, <1>2, <1>3, <1>4, <1>5, <1>6, <1>7, <1>8

\* An event is added to streams that are up, so never after "unavailable".
LEMMA PublishKeeps ==
    ASSUME PInv, Publish
    PROVE  PInv'
<1> USE PanelAssumption DEF PInv, TypeOK, Runs, Publish, Deaf, server, panel, runs
<1>1. TypeOK'
  BY DEF Statuses, Steps, Events, Streams
<1>2. PanelShowsLastRun'
  BY DEF PanelShowsLastRun
<1>3. RunsAreOwned'
  BY DEF RunsAreOwned
<1>4. StreamsFollowRuns'
  BY DEF StreamsFollowRuns
<1>5. UnavailableIsLast'
  BY DEF UnavailableIsLast
<1>6. OpenStreamsAreExplained'
  BY DEF OpenStreamsAreExplained, StreamOpen
<1>7. AnswersAreRecent'
  BY DEF AnswersAreRecent, AnswerIsRecent
<1>8. SnapshotIsRecent'
  BY DEF SnapshotIsRecent
<1> QED BY <1>1, <1>2, <1>3, <1>4, <1>5, <1>6, <1>7, <1>8

\* Nothing is loaded with a new token yet.
LEMMA CreateTokenKeeps ==
    ASSUME PInv, NEW t \in Tokens, CreateToken(t)
    PROVE  PInv'
<1> USE PanelAssumption DEF PInv, TypeOK, Runs, CreateToken, server, panel, runs
<1>1. TypeOK'
  BY DEF Statuses, Steps, Events, Streams
<1>2. PanelShowsLastRun'
  BY DEF PanelShowsLastRun
<1>3. RunsAreOwned'
  BY DEF RunsAreOwned
<1>4. StreamsFollowRuns'
  BY DEF StreamsFollowRuns
<1>5. UnavailableIsLast'
  BY DEF UnavailableIsLast
<1>6. OpenStreamsAreExplained'
  BY DEF OpenStreamsAreExplained, StreamOpen
<1>7. AnswersAreRecent'
  BY DEF AnswersAreRecent, AnswerIsRecent
<1>8. SnapshotIsRecent'
  BY DEF SnapshotIsRecent
<1> QED BY <1>1, <1>2, <1>3, <1>4, <1>5, <1>6, <1>7, <1>8

\* What was read before a revocation is of its revision at most.
LEMMA RevokeTokenKeeps ==
    ASSUME PInv, NEW t \in Tokens, RevokeToken(t)
    PROVE  PInv'
<1> USE PanelAssumption DEF PInv, TypeOK, Runs, RevokeToken, Active, server, panel, runs
<1>1. TypeOK'
  BY DEF Statuses, Steps, Events, Streams
<1>2. PanelShowsLastRun'
  BY DEF PanelShowsLastRun
<1>3. RunsAreOwned'
  BY DEF RunsAreOwned
<1>4. StreamsFollowRuns'
  BY DEF StreamsFollowRuns
<1>5. UnavailableIsLast'
  BY DEF UnavailableIsLast
<1>6. OpenStreamsAreExplained'
  BY DEF OpenStreamsAreExplained, StreamOpen
<1>7. AnswersAreRecent'
  <2> SUFFICES ASSUME NEW q \in Runs PROVE AnswerIsRecent(q)'
    BY DEF AnswersAreRecent
  <2>1. /\ revokedAt' = [revokedAt EXCEPT ![t] = revision]
        /\ UNCHANGED <<reply, step, snapshot, revision, runToken>>
    OBVIOUS
  <2>2. reply[q] # None => runToken[q] \in Tokens
    BY DEF AnswersAreRecent, AnswerIsRecent, RunsAreOwned
  <2>3. CASE runToken[q] = t
    BY <2>1, <2>3 DEF AnswersAreRecent, AnswerIsRecent, SnapshotIsRecent
  <2>4. CASE runToken[q] # t
    BY <2>1, <2>2, <2>4 DEF AnswersAreRecent, AnswerIsRecent
  <2> QED BY <2>3, <2>4
<1>8. SnapshotIsRecent'
  BY DEF SnapshotIsRecent
<1> QED BY <1>1, <1>2, <1>3, <1>4, <1>5, <1>6, <1>7, <1>8

\* A request whose token is found is made when the token is not revoked.
LEMMA FindTokenKeeps ==
    ASSUME PInv, NEW r \in Runs, FindToken(r)
    PROVE  PInv'
<1> USE PanelAssumption DEF PInv, TypeOK, Runs, FindToken, Authenticates, Active, server, panel, runs
<1>1. TypeOK'
  BY DEF Statuses, Steps, Events, Streams
<1>2. PanelShowsLastRun'
  BY DEF PanelShowsLastRun
<1>3. RunsAreOwned'
  BY DEF RunsAreOwned
<1>4. StreamsFollowRuns'
  BY DEF StreamsFollowRuns
<1>5. UnavailableIsLast'
  BY DEF UnavailableIsLast
<1>6. OpenStreamsAreExplained'
  BY DEF OpenStreamsAreExplained, StreamOpen
<1>7. AnswersAreRecent'
  BY DEF AnswersAreRecent, AnswerIsRecent
<1>8. SnapshotIsRecent'
  BY DEF SnapshotIsRecent
<1> QED BY <1>1, <1>2, <1>3, <1>4, <1>5, <1>6, <1>7, <1>8

\* An answer is as new as anything shown.
LEMMA ReadSnapshotKeeps ==
    ASSUME PInv, NEW r \in Runs, ReadSnapshot(r)
    PROVE  PInv'
<1> USE PanelAssumption DEF PInv, TypeOK, Runs, ReadSnapshot, server, panel, runs
<1>1. TypeOK'
  BY DEF Statuses, Steps, Events, Streams
<1>2. PanelShowsLastRun'
  BY DEF PanelShowsLastRun
<1>3. RunsAreOwned'
  BY DEF RunsAreOwned
<1>4. StreamsFollowRuns'
  BY DEF StreamsFollowRuns
<1>5. UnavailableIsLast'
  BY DEF UnavailableIsLast
<1>6. OpenStreamsAreExplained'
  BY DEF OpenStreamsAreExplained, StreamOpen
<1>7. AnswersAreRecent'
  BY DEF AnswersAreRecent, AnswerIsRecent, SnapshotIsRecent
<1>8. SnapshotIsRecent'
  BY DEF SnapshotIsRecent
<1> QED BY <1>1, <1>2, <1>3, <1>4, <1>5, <1>6, <1>7, <1>8

\* The API opens a stream for a run that may have been aborted meanwhile.
LEMMA OpenStreamKeeps ==
    ASSUME PInv, NEW r \in Runs, OpenStream(r)
    PROVE  PInv'
<1> USE PanelAssumption DEF PInv, TypeOK, Runs, OpenStream, Authenticates, server, panel, runs
<1>1. TypeOK'
  BY DEF Statuses, Steps, Events, Streams
<1>2. PanelShowsLastRun'
  BY DEF PanelShowsLastRun
<1>3. RunsAreOwned'
  BY DEF RunsAreOwned
<1>4. StreamsFollowRuns'
  BY DEF StreamsFollowRuns
<1>5. UnavailableIsLast'
  BY DEF UnavailableIsLast
<1>6. OpenStreamsAreExplained'
  BY DEF OpenStreamsAreExplained, StreamsFollowRuns, StreamOpen
<1>7. AnswersAreRecent'
  BY DEF AnswersAreRecent, AnswerIsRecent
<1>8. SnapshotIsRecent'
  BY DEF SnapshotIsRecent
<1> QED BY <1>1, <1>2, <1>3, <1>4, <1>5, <1>6, <1>7, <1>8

\* A refused stream is not open.
LEMMA FailStreamKeeps ==
    ASSUME PInv, NEW r \in Runs, FailStream(r)
    PROVE  PInv'
<1> USE PanelAssumption DEF PInv, TypeOK, Runs, FailStream, server, panel, runs
<1>1. TypeOK'
  BY DEF Statuses, Steps, Events, Streams
<1>2. PanelShowsLastRun'
  BY DEF PanelShowsLastRun
<1>3. RunsAreOwned'
  BY DEF RunsAreOwned
<1>4. StreamsFollowRuns'
  BY DEF StreamsFollowRuns
<1>5. UnavailableIsLast'
  BY DEF UnavailableIsLast
<1>6. OpenStreamsAreExplained'
  BY DEF OpenStreamsAreExplained, StreamOpen
<1>7. AnswersAreRecent'
  BY DEF AnswersAreRecent, AnswerIsRecent
<1>8. SnapshotIsRecent'
  BY DEF SnapshotIsRecent
<1> QED BY <1>1, <1>2, <1>3, <1>4, <1>5, <1>6, <1>7, <1>8

\* A refused answer carries no revision.
LEMMA FailSnapshotKeeps ==
    ASSUME PInv, NEW r \in Runs, FailSnapshot(r)
    PROVE  PInv'
<1> USE PanelAssumption DEF PInv, TypeOK, Runs, FailSnapshot, server, panel, runs
<1>1. TypeOK'
  BY DEF Statuses, Steps, Events, Streams
<1>2. PanelShowsLastRun'
  BY DEF PanelShowsLastRun
<1>3. RunsAreOwned'
  BY DEF RunsAreOwned
<1>4. StreamsFollowRuns'
  BY DEF StreamsFollowRuns
<1>5. UnavailableIsLast'
  BY DEF UnavailableIsLast
<1>6. OpenStreamsAreExplained'
  BY DEF OpenStreamsAreExplained, StreamOpen
<1>7. AnswersAreRecent'
  <2>1. AnswerIsRecent(r)'
    BY DEF AnswersAreRecent, AnswerIsRecent
  <2>2. ASSUME NEW q \in Runs, q # r PROVE AnswerIsRecent(q)'
    BY <2>2 DEF AnswersAreRecent, AnswerIsRecent
  <2> QED BY <2>1, <2>2 DEF AnswersAreRecent
<1>8. SnapshotIsRecent'
  BY DEF SnapshotIsRecent
<1> QED BY <1>1, <1>2, <1>3, <1>4, <1>5, <1>6, <1>7, <1>8

\* The stream begins with "connected".
LEMMA SubscribedKeeps ==
    ASSUME PInv, NEW r \in Runs, Subscribed(r)
    PROVE  PInv'
<1> USE PanelAssumption DEF PInv, TypeOK, Runs, Subscribed, Send, Deaf, server, panel, runs
<1>1. TypeOK'
  BY DEF Statuses, Steps, Events, Streams
<1>2. PanelShowsLastRun'
  BY DEF PanelShowsLastRun
<1>3. RunsAreOwned'
  BY DEF RunsAreOwned
<1>4. StreamsFollowRuns'
  BY DEF StreamsFollowRuns
<1>5. UnavailableIsLast'
  BY DEF UnavailableIsLast
<1>6. OpenStreamsAreExplained'
  BY DEF OpenStreamsAreExplained, StreamOpen
<1>7. AnswersAreRecent'
  BY DEF AnswersAreRecent, AnswerIsRecent
<1>8. SnapshotIsRecent'
  BY DEF SnapshotIsRecent
<1> QED BY <1>1, <1>2, <1>3, <1>4, <1>5, <1>6, <1>7, <1>8

\* The relay closes the stream it says "unavailable" on.
LEMMA UnavailableKeeps ==
    ASSUME PInv, NEW r \in Runs, Unavailable(r)
    PROVE  PInv'
<1> USE PanelAssumption DEF PInv, TypeOK, Runs, Unavailable, Send, Deaf, server, panel, runs
<1>1. TypeOK'
  BY DEF Statuses, Steps, Events, Streams
<1>2. PanelShowsLastRun'
  BY DEF PanelShowsLastRun
<1>3. RunsAreOwned'
  BY DEF RunsAreOwned
<1>4. StreamsFollowRuns'
  BY DEF StreamsFollowRuns
<1>5. UnavailableIsLast'
  BY DEF UnavailableIsLast
<1>6. OpenStreamsAreExplained'
  BY DEF OpenStreamsAreExplained, StreamOpen
<1>7. AnswersAreRecent'
  BY DEF AnswersAreRecent, AnswerIsRecent
<1>8. SnapshotIsRecent'
  BY DEF SnapshotIsRecent
<1> QED BY <1>1, <1>2, <1>3, <1>4, <1>5, <1>6, <1>7, <1>8

\* An ended stream is closed.
LEMMA EndStreamKeeps ==
    ASSUME PInv, NEW r \in Runs, EndStream(r)
    PROVE  PInv'
<1> USE PanelAssumption DEF PInv, TypeOK, Runs, EndStream, StreamOpen, server, panel, runs
<1>1. TypeOK'
  BY DEF Statuses, Steps, Events, Streams
<1>2. PanelShowsLastRun'
  BY DEF PanelShowsLastRun
<1>3. RunsAreOwned'
  BY DEF RunsAreOwned
<1>4. StreamsFollowRuns'
  BY DEF StreamsFollowRuns
<1>5. UnavailableIsLast'
  BY DEF UnavailableIsLast
<1>6. OpenStreamsAreExplained'
  BY DEF OpenStreamsAreExplained, StreamOpen
<1>7. AnswersAreRecent'
  BY DEF AnswersAreRecent, AnswerIsRecent
<1>8. SnapshotIsRecent'
  BY DEF SnapshotIsRecent
<1> QED BY <1>1, <1>2, <1>3, <1>4, <1>5, <1>6, <1>7, <1>8

\* Another token leaves no run active, so none has the wrong one.
LEMMA EditTokenKeeps ==
    ASSUME PInv, NEW t \in Tokens \cup {None}, EditToken(t)
    PROVE  PInv'
<1> USE PanelAssumption DEF PInv, TypeOK, Runs, EditToken, AbortActive, server, panel, runs
<1>1. TypeOK'
  <2>1. aborted' \in [Runs -> BOOLEAN] /\ conn' \in [Runs -> Streams]
    BY AbortActiveDoes DEF TypeOK
  <2>2. token' \in Tokens \cup {None} /\ status' \in Statuses /\ active' \in 0..MaxRuns
    BY DEF Statuses
  <2> QED BY <2>1, <2>2
<1>2. PanelShowsLastRun'
  BY DEF PanelShowsLastRun
<1>3. RunsAreOwned'
  <2> SUFFICES ASSUME NEW q \in Runs
               PROVE  /\ q > started' => step'[q] = "new" /\ ~aborted'[q]
                      /\ active' = q => step'[q] \notin {"new", "done"} /\ ~aborted'[q]
                      /\ step'[q] \notin {"new", "done"} => active' = q \/ aborted'[q]
                      /\ step'[q] # "new" => runToken'[q] \in Tokens
    BY DEF RunsAreOwned
  <2>1. q > started' => step'[q] = "new" /\ ~aborted'[q]
    BY AbortActiveDoes DEF RunsAreOwned, PanelShowsLastRun
  <2>2. active' = q => step'[q] \notin {"new", "done"} /\ ~aborted'[q]
    BY AbortActiveDoes DEF RunsAreOwned, PanelShowsLastRun
  <2>3. step'[q] \notin {"new", "done"} => active' = q \/ aborted'[q]
    BY AbortActiveDoes DEF RunsAreOwned, PanelShowsLastRun
  <2>4. step'[q] # "new" => runToken'[q] \in Tokens
    BY DEF RunsAreOwned, PanelShowsLastRun
  <2> QED BY <2>1, <2>2, <2>3, <2>4
<1>4. StreamsFollowRuns'
  <2>1. step' = step
    OBVIOUS
  <2>2. CASE active = 0
    BY <2>1, <2>2 DEF StreamsFollowRuns
  <2>3. CASE active # 0
    BY <2>1, <2>3, AbortActiveDoes DEF StreamsFollowRuns
  <2> QED BY <2>2, <2>3
<1>5. UnavailableIsLast'
  BY DEF UnavailableIsLast
<1>6. OpenStreamsAreExplained'
  <2>1. CASE active = 0
    BY <2>1 DEF OpenStreamsAreExplained, StreamOpen
  <2>2. CASE active # 0
    BY <2>2, AbortActiveDoes DEF OpenStreamsAreExplained, StreamOpen
  <2> QED BY <2>1, <2>2
<1>7. AnswersAreRecent'
  BY DEF AnswersAreRecent, AnswerIsRecent
<1>8. SnapshotIsRecent'
  BY DEF SnapshotIsRecent
<1> QED BY <1>1, <1>2, <1>3, <1>4, <1>5, <1>6, <1>7, <1>8

\* The replaced run is aborted and its stream closed in the same step.
LEMMA StartKeeps ==
    ASSUME PInv, Start
    PROVE  PInv'
<1> USE PanelAssumption DEF PInv, TypeOK, Runs, Start, AbortActive, server, panel, runs
<1>1. TypeOK'
  BY DEF Statuses, Steps, Events, Streams
<1>2. PanelShowsLastRun'
  BY DEF PanelShowsLastRun
<1>3. RunsAreOwned'
  <2> SUFFICES ASSUME NEW q \in Runs
               PROVE  /\ q > started' => step'[q] = "new" /\ ~aborted'[q]
                      /\ active' = q => step'[q] \notin {"new", "done"} /\ ~aborted'[q]
                      /\ step'[q] \notin {"new", "done"} => active' = q \/ aborted'[q]
                      /\ step'[q] # "new" => runToken'[q] \in Tokens
    BY DEF RunsAreOwned
  <2>1. q > started' => step'[q] = "new" /\ ~aborted'[q]
    BY AbortActiveDoes DEF RunsAreOwned, PanelShowsLastRun
  <2>2. active' = q => step'[q] \notin {"new", "done"} /\ ~aborted'[q]
    BY AbortActiveDoes DEF RunsAreOwned, PanelShowsLastRun
  <2>3. step'[q] \notin {"new", "done"} => active' = q \/ aborted'[q]
    BY AbortActiveDoes DEF RunsAreOwned, PanelShowsLastRun
  <2>4. step'[q] # "new" => runToken'[q] \in Tokens
    BY DEF RunsAreOwned, PanelShowsLastRun
  <2> QED BY <2>1, <2>2, <2>3, <2>4
<1>4. StreamsFollowRuns'
  <2> SUFFICES ASSUME NEW q \in Runs
               PROVE  /\ step'[q] \in {"new", "snapshot"} => conn'[q] = "none"
                      /\ step'[q] \in {"new", "snapshot", "stream"} => q \notin reader'
                      /\ conn'[q] = "asked" =>
                            q \notin reader' /\ (active' = q \/ failed'[q] \/ aborted'[q])
    BY DEF StreamsFollowRuns
  <2>1. /\ started + 1 \in Runs /\ started + 1 > started
        /\ step' = [step EXCEPT ![started + 1] = "snapshot"]
        /\ reader' = reader /\ failed' = failed
    OBVIOUS
  <2>2. step[started + 1] = "new" /\ active # started + 1
    BY <2>1 DEF RunsAreOwned
  <2>3. conn'[q] = "asked" => conn[q] = "asked" /\ (aborted[q] \/ q = active => aborted'[q])
    BY AbortActiveDoes
  <2>4. conn[q] = "none" => conn'[q] = "none"
    BY AbortActiveDoes DEF StreamOpen
  <2> QED BY <2>1, <2>2, <2>3, <2>4 DEF StreamsFollowRuns
<1>5. UnavailableIsLast'
  BY DEF UnavailableIsLast
<1>6. OpenStreamsAreExplained'
  BY DEF OpenStreamsAreExplained, StreamOpen
<1>7. AnswersAreRecent'
  <2> SUFFICES ASSUME NEW q \in Runs PROVE AnswerIsRecent(q)'
    BY DEF AnswersAreRecent
  <2>1. snapshot' = None /\ reply' = reply /\ revision' = revision
    OBVIOUS
  <2>2. reply[q] # None => q # started + 1
    <3>1. started + 1 \in Runs /\ started + 1 > started
      OBVIOUS
    <3>2. step[started + 1] = "new"
      BY <3>1 DEF RunsAreOwned
    <3>3. reply[q] # None => step[q] \in {"snapshot", "refresh"}
      BY DEF AnswersAreRecent, AnswerIsRecent
    <3> QED BY <3>2, <3>3
  <2> QED BY <2>1, <2>2 DEF AnswersAreRecent, AnswerIsRecent
<1>8. SnapshotIsRecent'
  BY DEF SnapshotIsRecent
<1> QED BY <1>1, <1>2, <1>3, <1>4, <1>5, <1>6, <1>7, <1>8

\* Stop leaves an aborted run behind.
LEMMA StopKeeps ==
    ASSUME PInv, Stop
    PROVE  PInv'
<1> USE PanelAssumption DEF PInv, TypeOK, Runs, Stop, AbortActive, server, panel, runs
<1>1. TypeOK'
  BY DEF Statuses, Steps, Events, Streams
<1>2. PanelShowsLastRun'
  BY DEF PanelShowsLastRun
<1>3. RunsAreOwned'
  <2> SUFFICES ASSUME NEW q \in Runs
               PROVE  /\ q > started' => step'[q] = "new" /\ ~aborted'[q]
                      /\ active' = q => step'[q] \notin {"new", "done"} /\ ~aborted'[q]
                      /\ step'[q] \notin {"new", "done"} => active' = q \/ aborted'[q]
                      /\ step'[q] # "new" => runToken'[q] \in Tokens
    BY DEF RunsAreOwned
  <2>1. q > started' => step'[q] = "new" /\ ~aborted'[q]
    BY AbortActiveDoes DEF RunsAreOwned, PanelShowsLastRun
  <2>2. active' = q => step'[q] \notin {"new", "done"} /\ ~aborted'[q]
    BY AbortActiveDoes DEF RunsAreOwned, PanelShowsLastRun
  <2>3. step'[q] \notin {"new", "done"} => active' = q \/ aborted'[q]
    BY AbortActiveDoes DEF RunsAreOwned, PanelShowsLastRun
  <2>4. step'[q] # "new" => runToken'[q] \in Tokens
    BY DEF RunsAreOwned, PanelShowsLastRun
  <2> QED BY <2>1, <2>2, <2>3, <2>4
<1>4. StreamsFollowRuns'
  BY DEF StreamsFollowRuns
<1>5. UnavailableIsLast'
  BY DEF UnavailableIsLast
<1>6. OpenStreamsAreExplained'
  BY DEF OpenStreamsAreExplained, StreamOpen
<1>7. AnswersAreRecent'
  BY DEF AnswersAreRecent, AnswerIsRecent
<1>8. SnapshotIsRecent'
  BY DEF SnapshotIsRecent
<1> QED BY <1>1, <1>2, <1>3, <1>4, <1>5, <1>6, <1>7, <1>8

\* So does Clear, and an empty panel.
LEMMA ClearKeeps ==
    ASSUME PInv, Clear
    PROVE  PInv'
<1> USE PanelAssumption DEF PInv, TypeOK, Runs, Clear, AbortActive, server, panel, runs
<1>1. TypeOK'
  BY DEF Statuses, Steps, Events, Streams
<1>2. PanelShowsLastRun'
  BY DEF PanelShowsLastRun
<1>3. RunsAreOwned'
  <2> SUFFICES ASSUME NEW q \in Runs
               PROVE  /\ q > started' => step'[q] = "new" /\ ~aborted'[q]
                      /\ active' = q => step'[q] \notin {"new", "done"} /\ ~aborted'[q]
                      /\ step'[q] \notin {"new", "done"} => active' = q \/ aborted'[q]
                      /\ step'[q] # "new" => runToken'[q] \in Tokens
    BY DEF RunsAreOwned
  <2>1. q > started' => step'[q] = "new" /\ ~aborted'[q]
    BY AbortActiveDoes DEF RunsAreOwned, PanelShowsLastRun
  <2>2. active' = q => step'[q] \notin {"new", "done"} /\ ~aborted'[q]
    BY AbortActiveDoes DEF RunsAreOwned, PanelShowsLastRun
  <2>3. step'[q] \notin {"new", "done"} => active' = q \/ aborted'[q]
    BY AbortActiveDoes DEF RunsAreOwned, PanelShowsLastRun
  <2>4. step'[q] # "new" => runToken'[q] \in Tokens
    BY DEF RunsAreOwned, PanelShowsLastRun
  <2> QED BY <2>1, <2>2, <2>3, <2>4
<1>4. StreamsFollowRuns'
  BY DEF StreamsFollowRuns
<1>5. UnavailableIsLast'
  BY DEF UnavailableIsLast
<1>6. OpenStreamsAreExplained'
  BY DEF OpenStreamsAreExplained, StreamOpen
<1>7. AnswersAreRecent'
  BY DEF AnswersAreRecent, AnswerIsRecent
<1>8. SnapshotIsRecent'
  BY DEF SnapshotIsRecent
<1> QED BY <1>1, <1>2, <1>3, <1>4, <1>5, <1>6, <1>7, <1>8

\* So does leaving the page.
LEMMA UnmountKeeps ==
    ASSUME PInv, Unmount
    PROVE  PInv'
<1> USE PanelAssumption DEF PInv, TypeOK, Runs, Unmount, AbortActive, server, panel, runs
<1>1. TypeOK'
  <2>1. aborted' \in [Runs -> BOOLEAN] /\ conn' \in [Runs -> Streams]
    BY AbortActiveDoes DEF TypeOK
  <2>2. token' \in Tokens \cup {None} /\ status' \in Statuses /\ active' \in 0..MaxRuns
    BY DEF Statuses
  <2> QED BY <2>1, <2>2
<1>2. PanelShowsLastRun'
  BY DEF PanelShowsLastRun
<1>3. RunsAreOwned'
  <2> SUFFICES ASSUME NEW q \in Runs
               PROVE  /\ q > started' => step'[q] = "new" /\ ~aborted'[q]
                      /\ active' = q => step'[q] \notin {"new", "done"} /\ ~aborted'[q]
                      /\ step'[q] \notin {"new", "done"} => active' = q \/ aborted'[q]
                      /\ step'[q] # "new" => runToken'[q] \in Tokens
    BY DEF RunsAreOwned
  <2>1. q > started' => step'[q] = "new" /\ ~aborted'[q]
    BY AbortActiveDoes DEF RunsAreOwned, PanelShowsLastRun
  <2>2. active' = q => step'[q] \notin {"new", "done"} /\ ~aborted'[q]
    BY AbortActiveDoes DEF RunsAreOwned, PanelShowsLastRun
  <2>3. step'[q] \notin {"new", "done"} => active' = q \/ aborted'[q]
    BY AbortActiveDoes DEF RunsAreOwned, PanelShowsLastRun
  <2>4. step'[q] # "new" => runToken'[q] \in Tokens
    BY DEF RunsAreOwned, PanelShowsLastRun
  <2> QED BY <2>1, <2>2, <2>3, <2>4
<1>4. StreamsFollowRuns'
  BY DEF StreamsFollowRuns
<1>5. UnavailableIsLast'
  BY DEF UnavailableIsLast
<1>6. OpenStreamsAreExplained'
  BY DEF OpenStreamsAreExplained, StreamOpen
<1>7. AnswersAreRecent'
  BY DEF AnswersAreRecent, AnswerIsRecent
<1>8. SnapshotIsRecent'
  BY DEF SnapshotIsRecent
<1> QED BY <1>1, <1>2, <1>3, <1>4, <1>5, <1>6, <1>7, <1>8

\* The answer is the active run's, or it is dropped and the run ends.
LEMMA SnapshotArrivesKeeps ==
    ASSUME PInv, NEW r \in Runs, SnapshotArrives(r)
    PROVE  PInv'
<1> USE PanelAssumption DEF PInv, TypeOK, Runs, SnapshotArrives, IsCurrentRun, Show, server, panel, runs
<1>1. TypeOK'
  <2>1. reply[r] \in 0..MaxRevision
    OBVIOUS
  <2>2. snapshot' \in [run : Runs, revision : 0..MaxRevision] \cup {None}
    BY <2>1
  <2>3. status' \in Statuses
    BY DEF Statuses
  <2>4. step' \in [Runs -> Steps]
    <3>1. step \in [Runs -> Steps] /\ {"stream", "done"} \subseteq Steps
      BY DEF Steps
    <3>2. step' = [step EXCEPT ![r] = "stream"] \/ step' = [step EXCEPT ![r] = "done"]
      OBVIOUS
    <3> HIDE DEF PInv, SnapshotArrives
    <3> QED BY <3>1, <3>2
  <2>5. reply' \in [Runs -> (0..MaxRevision) \cup {None, Refused, Admitted}]
    OBVIOUS
  <2>6. conn' \in [Runs -> Streams]
    BY DEF Streams
  <2> QED BY <2>2, <2>3, <2>4, <2>5, <2>6
<1>2. PanelShowsLastRun'
  BY DEF PanelShowsLastRun
<1>3. RunsAreOwned'
  BY DEF RunsAreOwned
<1>4. StreamsFollowRuns'
  BY DEF StreamsFollowRuns
<1>5. UnavailableIsLast'
  <2>1. conn[r] = "none" /\ queue' = queue
    BY DEF StreamsFollowRuns
  <2>2. \A q \in Runs : conn'[q] # "closed" => conn[q] # "closed"
    BY <2>1
  <2> QED BY <2>1, <2>2 DEF UnavailableIsLast
<1>6. OpenStreamsAreExplained'
  BY DEF OpenStreamsAreExplained, StreamOpen
<1>7. AnswersAreRecent'
  <2>1. AnswerIsRecent(r)'
    BY DEF AnswersAreRecent, AnswerIsRecent
  <2>2. ASSUME NEW q \in Runs, q # r PROVE AnswerIsRecent(q)'
    BY <2>2 DEF AnswersAreRecent, AnswerIsRecent
  <2> QED BY <2>1, <2>2 DEF AnswersAreRecent
<1>8. SnapshotIsRecent'
  BY DEF SnapshotIsRecent, AnswersAreRecent, AnswerIsRecent
<1> QED BY <1>1, <1>2, <1>3, <1>4, <1>5, <1>6, <1>7, <1>8

\* A stream is opened by a run that was not aborted, so by the active one.
LEMMA StreamOpensKeeps ==
    ASSUME PInv, NEW r \in Runs, StreamOpens(r)
    PROVE  PInv'
<1> USE PanelAssumption DEF PInv, TypeOK, Runs, StreamOpens, server, panel, runs
<1>1. TypeOK'
  BY DEF Statuses, Steps, Events, Streams
<1>2. PanelShowsLastRun'
  BY DEF PanelShowsLastRun
<1>3. RunsAreOwned'
  BY DEF RunsAreOwned
<1>4. StreamsFollowRuns'
  BY DEF StreamsFollowRuns, StreamOpen
<1>5. UnavailableIsLast'
  BY DEF UnavailableIsLast, StreamsFollowRuns
<1>6. OpenStreamsAreExplained'
  BY DEF OpenStreamsAreExplained, RunsAreOwned, StreamOpen
<1>7. AnswersAreRecent'
  BY DEF AnswersAreRecent, AnswerIsRecent
<1>8. SnapshotIsRecent'
  BY DEF SnapshotIsRecent
<1> QED BY <1>1, <1>2, <1>3, <1>4, <1>5, <1>6, <1>7, <1>8

\* The answer is the active run's, or it is dropped.
LEMMA RefreshArrivesKeeps ==
    ASSUME PInv, NEW r \in Runs, RefreshArrives(r)
    PROVE  PInv'
<1> USE PanelAssumption DEF PInv, TypeOK, Runs, RefreshArrives, IsCurrentRun, Show, server, panel, runs
<1>1. TypeOK'
  BY DEF Statuses, Steps, Events, Streams
<1>2. PanelShowsLastRun'
  BY DEF PanelShowsLastRun
<1>3. RunsAreOwned'
  BY DEF RunsAreOwned
<1>4. StreamsFollowRuns'
  BY DEF StreamsFollowRuns
<1>5. UnavailableIsLast'
  BY DEF UnavailableIsLast
<1>6. OpenStreamsAreExplained'
  BY DEF OpenStreamsAreExplained, StreamOpen
<1>7. AnswersAreRecent'
  <2>1. AnswerIsRecent(r)'
    BY DEF AnswersAreRecent, AnswerIsRecent
  <2>2. ASSUME NEW q \in Runs, q # r PROVE AnswerIsRecent(q)'
    BY <2>2 DEF AnswersAreRecent, AnswerIsRecent
  <2> QED BY <2>1, <2>2 DEF AnswersAreRecent
<1>8. SnapshotIsRecent'
  <2>1. CASE IsCurrentRun(r)
    <3>1. snapshot' = [run |-> r, revision |-> reply[r]] /\ reply[r] \in 0..MaxRevision
      BY <2>1
    <3>2. snapshot'.run = r /\ snapshot'.revision = reply[r]
      BY <3>1
    <3>3. step'[r] = "reading"
      OBVIOUS
    <3> QED BY <3>2, <3>3 DEF AnswersAreRecent, AnswerIsRecent, SnapshotIsRecent
  <2>2. CASE ~IsCurrentRun(r)
    BY <2>2 DEF SnapshotIsRecent
  <2> QED BY <2>1, <2>2
<1> QED BY <1>1, <1>2, <1>3, <1>4, <1>5, <1>6, <1>7, <1>8

\* Only the active run goes live.
LEMMA OnConnectedKeeps ==
    ASSUME PInv, NEW r \in Runs, OnConnected(r)
    PROVE  PInv'
<1> USE PanelAssumption DEF PInv, TypeOK, Runs, OnConnected, IsCurrentRun, TakeEvent, server, panel, runs
<1>1. TypeOK'
  BY DEF Statuses, Steps, Events, Streams
<1>2. PanelShowsLastRun'
  BY DEF PanelShowsLastRun
<1>3. RunsAreOwned'
  BY DEF RunsAreOwned
<1>4. StreamsFollowRuns'
  BY DEF StreamsFollowRuns
<1>5. UnavailableIsLast'
  BY DEF UnavailableIsLast
<1>6. OpenStreamsAreExplained'
  BY DEF OpenStreamsAreExplained, StreamOpen
<1>7. AnswersAreRecent'
  BY DEF AnswersAreRecent, AnswerIsRecent
<1>8. SnapshotIsRecent'
  BY DEF SnapshotIsRecent
<1> QED BY <1>1, <1>2, <1>3, <1>4, <1>5, <1>6, <1>7, <1>8

\* The run that ends here has no open stream.
LEMMA OnUnavailableKeeps ==
    ASSUME PInv, NEW r \in Runs, OnUnavailable(r)
    PROVE  PInv'
<1> USE PanelAssumption DEF PInv, TypeOK, Runs, OnUnavailable, IsCurrentRun, TakeEvent, server, panel, runs
<1>1. TypeOK'
  <2>1. active' \in 0..MaxRuns /\ status' \in Statuses
    BY DEF Statuses
  <2>2. step' \in [Runs -> Steps]
    BY DEF Steps
  <2>3. queue' \in [Runs -> Seq(Events)]
    OBVIOUS
  <2> QED BY <2>1, <2>2, <2>3
<1>2. PanelShowsLastRun'
  BY DEF PanelShowsLastRun
<1>3. RunsAreOwned'
  BY DEF RunsAreOwned
<1>4. StreamsFollowRuns'
  <2>1. /\ Len(queue[r]) \in Nat \ {0} /\ queue[r][1] = "unavailable"
        /\ step' = [step EXCEPT ![r] = "done"]
        /\ UNCHANGED <<conn, reader, failed, aborted>>
        /\ active' = IF active = r THEN 0 ELSE active
    OBVIOUS
  <2>2. conn[r] = "closed"
    BY <2>1 DEF UnavailableIsLast
  <2> QED BY <2>1, <2>2 DEF StreamsFollowRuns
<1>5. UnavailableIsLast'
  BY DEF UnavailableIsLast
<1>6. OpenStreamsAreExplained'
  <2>1. Len(queue[r]) \in Nat \ {0} /\ queue[r][1] = "unavailable"
    OBVIOUS
  <2>2. conn[r] = "closed"
    BY <2>1 DEF UnavailableIsLast
  <2>3. \A q \in Runs : q # r => (active = q => active' = q)
    BY DEF PanelShowsLastRun, RunsAreOwned
  <2>4. UNCHANGED <<conn, reader, failed, aborted>>
    OBVIOUS
  <2> QED BY <2>2, <2>3, <2>4 DEF OpenStreamsAreExplained, StreamOpen
<1>7. AnswersAreRecent'
  BY DEF AnswersAreRecent, AnswerIsRecent
<1>8. SnapshotIsRecent'
  BY DEF SnapshotIsRecent
<1> QED BY <1>1, <1>2, <1>3, <1>4, <1>5, <1>6, <1>7, <1>8

\* Only the active run reloads.
LEMMA OnConfigEventKeeps ==
    ASSUME PInv, NEW r \in Runs, OnConfigEvent(r)
    PROVE  PInv'
<1> USE PanelAssumption DEF PInv, TypeOK, Runs, OnConfigEvent, IsCurrentRun, TakeEvent, server, panel, runs
<1>1. TypeOK'
  BY DEF Statuses, Steps, Events, Streams
<1>2. PanelShowsLastRun'
  BY DEF PanelShowsLastRun
<1>3. RunsAreOwned'
  BY DEF RunsAreOwned
<1>4. StreamsFollowRuns'
  BY DEF StreamsFollowRuns
<1>5. UnavailableIsLast'
  BY DEF UnavailableIsLast
<1>6. OpenStreamsAreExplained'
  BY DEF OpenStreamsAreExplained, StreamOpen
<1>7. AnswersAreRecent'
  BY DEF AnswersAreRecent, AnswerIsRecent
<1>8. SnapshotIsRecent'
  BY DEF SnapshotIsRecent
<1> QED BY <1>1, <1>2, <1>3, <1>4, <1>5, <1>6, <1>7, <1>8

\* The run that ends here has no open stream.
LEMMA StreamEndsKeeps ==
    ASSUME PInv, NEW r \in Runs, StreamEnds(r)
    PROVE  PInv'
<1> USE PanelAssumption DEF PInv, TypeOK, Runs, StreamEnds, IsCurrentRun, server, panel, runs
<1>1. TypeOK'
  <2>1. active' \in 0..MaxRuns /\ status' \in Statuses
    BY DEF Statuses, IsCurrentRun
  <2>2. step' \in [Runs -> Steps]
    BY DEF Steps
  <2> QED BY <2>1, <2>2
<1>2. PanelShowsLastRun'
  BY DEF PanelShowsLastRun
<1>3. RunsAreOwned'
  <2> SUFFICES ASSUME NEW q \in Runs
               PROVE  /\ q > started' => step'[q] = "new" /\ ~aborted'[q]
                      /\ active' = q => step'[q] \notin {"new", "done"} /\ ~aborted'[q]
                      /\ step'[q] \notin {"new", "done"} => active' = q \/ aborted'[q]
                      /\ step'[q] # "new" => runToken'[q] \in Tokens
    BY DEF RunsAreOwned
  <2>1. q > started' => step'[q] = "new" /\ ~aborted'[q]
    BY DEF RunsAreOwned, PanelShowsLastRun
  <2>2. active' = q => step'[q] \notin {"new", "done"} /\ ~aborted'[q]
    <3>1. active' = IF active = r THEN 0 ELSE active
      OBVIOUS
    <3>2. q # 0
      BY q \in 1..MaxRuns
    <3>3. active' = q => active = q /\ q # r
      BY <3>1, <3>2
    <3> QED BY <3>3 DEF RunsAreOwned
  <2>3. step'[q] \notin {"new", "done"} => active' = q \/ aborted'[q]
    BY DEF RunsAreOwned, PanelShowsLastRun
  <2>4. step'[q] # "new" => runToken'[q] \in Tokens
    BY DEF RunsAreOwned, PanelShowsLastRun
  <2> QED BY <2>1, <2>2, <2>3, <2>4
<1>4. StreamsFollowRuns'
  BY DEF StreamsFollowRuns
<1>5. UnavailableIsLast'
  <2>1. conn' = conn /\ queue' = queue
    OBVIOUS
  <2> QED BY <2>1 DEF UnavailableIsLast
<1>6. OpenStreamsAreExplained'
  BY DEF OpenStreamsAreExplained, StreamOpen
<1>7. AnswersAreRecent'
  BY DEF AnswersAreRecent, AnswerIsRecent
<1>8. SnapshotIsRecent'
  BY DEF SnapshotIsRecent
<1> QED BY <1>1, <1>2, <1>3, <1>4, <1>5, <1>6, <1>7, <1>8

\* A run that was not aborted fails, and its stream stays.
LEMMA SnapshotFailsKeeps ==
    ASSUME PInv, NEW r \in Runs, SnapshotFails(r)
    PROVE  PInv'
<1> USE PanelAssumption DEF PInv, TypeOK, Runs, SnapshotFails, Throw, server, panel, runs
<1>1. TypeOK'
  <2>1. failed' \in [Runs -> BOOLEAN]
    OBVIOUS
  <2>2. active' \in 0..MaxRuns /\ status' \in Statuses
    BY DEF Statuses
  <2>3. step' \in [Runs -> Steps]
    BY DEF Steps
  <2>4. queue' \in [Runs -> Seq(Events)] /\ reply' \in [Runs -> (0..MaxRevision) \cup {None, Refused, Admitted}]
    OBVIOUS
  <2>5. conn' \in [Runs -> Streams]
    OBVIOUS
  <2> QED BY <2>1, <2>2, <2>3, <2>4, <2>5
<1>2. PanelShowsLastRun'
  BY DEF PanelShowsLastRun, RunsAreOwned
<1>3. RunsAreOwned'
  BY DEF RunsAreOwned
<1>4. StreamsFollowRuns'
  BY DEF StreamsFollowRuns
<1>5. UnavailableIsLast'
  BY DEF UnavailableIsLast
<1>6. OpenStreamsAreExplained'
  BY DEF OpenStreamsAreExplained, RunsAreOwned, StreamOpen
<1>7. AnswersAreRecent'
  BY DEF AnswersAreRecent, AnswerIsRecent
<1>8. SnapshotIsRecent'
  BY DEF SnapshotIsRecent
<1> QED BY <1>1, <1>2, <1>3, <1>4, <1>5, <1>6, <1>7, <1>8

\* Its stream was refused.
LEMMA StreamFailsKeeps ==
    ASSUME PInv, NEW r \in Runs, StreamFails(r)
    PROVE  PInv'
<1> USE PanelAssumption DEF PInv, TypeOK, Runs, StreamFails, Throw, server, panel, runs
<1>1. TypeOK'
  <2>1. failed' \in [Runs -> BOOLEAN]
    OBVIOUS
  <2>2. active' \in 0..MaxRuns /\ status' \in Statuses
    BY DEF Statuses
  <2>3. step' \in [Runs -> Steps]
    BY DEF Steps
  <2>4. queue' \in [Runs -> Seq(Events)] /\ reply' \in [Runs -> (0..MaxRevision) \cup {None, Refused, Admitted}]
    OBVIOUS
  <2>5. conn' \in [Runs -> Streams]
    OBVIOUS
  <2> QED BY <2>1, <2>2, <2>3, <2>4, <2>5
<1>2. PanelShowsLastRun'
  BY DEF PanelShowsLastRun, RunsAreOwned
<1>3. RunsAreOwned'
  BY DEF RunsAreOwned
<1>4. StreamsFollowRuns'
  BY DEF StreamsFollowRuns
<1>5. UnavailableIsLast'
  BY DEF UnavailableIsLast
<1>6. OpenStreamsAreExplained'
  BY DEF OpenStreamsAreExplained, RunsAreOwned, StreamOpen
<1>7. AnswersAreRecent'
  BY DEF AnswersAreRecent, AnswerIsRecent
<1>8. SnapshotIsRecent'
  BY DEF SnapshotIsRecent
<1> QED BY <1>1, <1>2, <1>3, <1>4, <1>5, <1>6, <1>7, <1>8

\* If the proxy opens its stream all the same, it is a failed run's.
LEMMA RequestLostKeeps ==
    ASSUME PInv, NEW r \in Runs, RequestLost(r)
    PROVE  PInv'
<1> USE PanelAssumption DEF PInv, TypeOK, Runs, RequestLost, Throw, server, panel, runs
<1>1. TypeOK'
  <2>1. failed' \in [Runs -> BOOLEAN]
    OBVIOUS
  <2>2. active' \in 0..MaxRuns /\ status' \in Statuses
    BY DEF Statuses
  <2>3. step' \in [Runs -> Steps]
    BY DEF Steps
  <2>4. queue' \in [Runs -> Seq(Events)] /\ reply' \in [Runs -> (0..MaxRevision) \cup {None, Refused, Admitted}]
    OBVIOUS
  <2>5. conn' \in [Runs -> Streams]
    OBVIOUS
  <2> QED BY <2>1, <2>2, <2>3, <2>4, <2>5
<1>2. PanelShowsLastRun'
  BY DEF PanelShowsLastRun, RunsAreOwned
<1>3. RunsAreOwned'
  BY DEF RunsAreOwned
<1>4. StreamsFollowRuns'
  BY DEF StreamsFollowRuns
<1>5. UnavailableIsLast'
  BY DEF UnavailableIsLast
<1>6. OpenStreamsAreExplained'
  BY DEF OpenStreamsAreExplained, RunsAreOwned, StreamOpen
<1>7. AnswersAreRecent'
  BY DEF AnswersAreRecent, AnswerIsRecent
<1>8. SnapshotIsRecent'
  BY DEF SnapshotIsRecent
<1> QED BY <1>1, <1>2, <1>3, <1>4, <1>5, <1>6, <1>7, <1>8

\* Its stream is broken.
LEMMA ReadFailsKeeps ==
    ASSUME PInv, NEW r \in Runs, ReadFails(r)
    PROVE  PInv'
<1> USE PanelAssumption DEF PInv, TypeOK, Runs, ReadFails, StreamOpen, Throw, server, panel, runs
<1>1. TypeOK'
  <2>1. failed' \in [Runs -> BOOLEAN]
    OBVIOUS
  <2>2. active' \in 0..MaxRuns /\ status' \in Statuses
    BY DEF Statuses
  <2>3. step' \in [Runs -> Steps]
    BY DEF Steps
  <2>4. queue' \in [Runs -> Seq(Events)] /\ reply' \in [Runs -> (0..MaxRevision) \cup {None, Refused, Admitted}]
    OBVIOUS
  <2>5. conn' \in [Runs -> Streams]
    BY DEF Streams
  <2> QED BY <2>1, <2>2, <2>3, <2>4, <2>5
<1>2. PanelShowsLastRun'
  BY DEF PanelShowsLastRun, RunsAreOwned
<1>3. RunsAreOwned'
  BY DEF RunsAreOwned
<1>4. StreamsFollowRuns'
  BY DEF StreamsFollowRuns
<1>5. UnavailableIsLast'
  BY DEF UnavailableIsLast
<1>6. OpenStreamsAreExplained'
  BY DEF OpenStreamsAreExplained, StreamOpen
<1>7. AnswersAreRecent'
  BY DEF AnswersAreRecent, AnswerIsRecent
<1>8. SnapshotIsRecent'
  BY DEF SnapshotIsRecent
<1> QED BY <1>1, <1>2, <1>3, <1>4, <1>5, <1>6, <1>7, <1>8

\* An aborted run says nothing and has no open stream.
LEMMA AbortRejectsKeeps ==
    ASSUME PInv, NEW r \in Runs, AbortRejects(r)
    PROVE  PInv'
<1> USE PanelAssumption DEF PInv, TypeOK, Runs, AbortRejects, Throw, server, panel, runs
<1>1. TypeOK'
  BY DEF Statuses, Steps, Events, Streams
<1>2. PanelShowsLastRun'
  BY DEF PanelShowsLastRun, RunsAreOwned
<1>3. RunsAreOwned'
  BY DEF RunsAreOwned
<1>4. StreamsFollowRuns'
  BY DEF StreamsFollowRuns
<1>5. UnavailableIsLast'
  BY DEF UnavailableIsLast
<1>6. OpenStreamsAreExplained'
  BY DEF OpenStreamsAreExplained, RunsAreOwned, StreamOpen
<1>7. AnswersAreRecent'
  <2>1. AnswerIsRecent(r)'
    BY DEF AnswersAreRecent, AnswerIsRecent
  <2>2. ASSUME NEW q \in Runs, q # r PROVE AnswerIsRecent(q)'
    BY <2>2 DEF AnswersAreRecent, AnswerIsRecent
  <2> QED BY <2>1, <2>2 DEF AnswersAreRecent
<1>8. SnapshotIsRecent'
  BY DEF SnapshotIsRecent
<1> QED BY <1>1, <1>2, <1>3, <1>4, <1>5, <1>6, <1>7, <1>8

\* The initial states.
LEMMA InitIsPInv == Init => PInv
<1> SUFFICES ASSUME Init PROVE PInv
  OBVIOUS
<1> USE PanelAssumption DEF Init, Runs
<1>1. TypeOK
  BY DEF TypeOK, Statuses, Steps, Events, Streams
<1>2. PanelShowsLastRun /\ RunsAreOwned /\ StreamsFollowRuns
  BY DEF PanelShowsLastRun, RunsAreOwned, StreamsFollowRuns
<1>3. UnavailableIsLast /\ OpenStreamsAreExplained
  BY DEF UnavailableIsLast, OpenStreamsAreExplained, StreamOpen
<1>4. AnswersAreRecent /\ SnapshotIsRecent
  BY DEF AnswersAreRecent, AnswerIsRecent, SnapshotIsRecent
<1> QED BY <1>1, <1>2, <1>3, <1>4 DEF PInv

\* The invariant is inductive.
LEMMA StepKeepsPInv == PInv /\ [Next]_vars => PInv'
<1> SUFFICES ASSUME PInv, [Next]_vars PROVE PInv'
  OBVIOUS
<1>1. CASE Write \/ Publish
  BY <1>1, WriteKeeps, PublishKeeps
<1>2. CASE \E t \in Tokens : CreateToken(t) \/ RevokeToken(t)
  BY <1>2, CreateTokenKeeps, RevokeTokenKeeps
<1>3. CASE User
  BY <1>3, EditTokenKeeps, StartKeeps, StopKeeps, ClearKeeps, UnmountKeeps DEF User
<1>4. ASSUME NEW r \in Runs, RunStep(r)
      PROVE  PInv'
  BY <1>4, StreamFailsKeeps, SnapshotArrivesKeeps, StreamOpensKeeps, RefreshArrivesKeeps, OnConnectedKeeps,
     OnUnavailableKeeps, OnConfigEventKeeps, StreamEndsKeeps, SnapshotFailsKeeps,
     AbortRejectsKeeps DEF RunStep
<1>5. ASSUME NEW r \in Runs, Answer(r)
      PROVE  PInv'
  BY <1>5, FindTokenKeeps, ReadSnapshotKeeps, OpenStreamKeeps, SubscribedKeeps DEF Answer
<1>6. ASSUME NEW r \in Runs, Fault(r)
      PROVE  PInv'
  BY <1>6, FailSnapshotKeeps, FailStreamKeeps, UnavailableKeeps, EndStreamKeeps,
     RequestLostKeeps, ReadFailsKeeps DEF Fault
<1>7. CASE UNCHANGED vars
  BY <1>7 DEF PInv, TypeOK, PanelShowsLastRun, RunsAreOwned, StreamsFollowRuns, UnavailableIsLast,
     OpenStreamsAreExplained, StreamOpen, AnswersAreRecent, AnswerIsRecent, SnapshotIsRecent,
     vars, server, panel, runs
<1> QED BY <1>1, <1>2, <1>3, <1>4, <1>5, <1>6, <1>7 DEF Next

\* One step of the panel: a snapshot is replaced by one of the same run that is no older,
\* and none follows one from after the token's revocation.
Forward ==
    snapshot # None /\ snapshot' # None /\ snapshot'.run = snapshot.run =>
        /\ snapshot'.revision >= snapshot.revision
        /\ LET r == snapshot.run IN
               revokedAt[runToken[r]] # None /\ snapshot.revision > revokedAt[runToken[r]]
                   => snapshot' = snapshot

\* A step that shows nothing else.
LEMMA StayingIsForward ==
    ASSUME PInv, snapshot' = snapshot
    PROVE  Forward
<1> QED BY PanelAssumption DEF Forward, PInv, TypeOK, SnapshotIsRecent

\* A step that shows an answer.
LEMMA ShowingIsForward ==
    ASSUME PInv, NEW r \in Runs, reply[r] \in Nat, Show(r)
    PROVE  Forward
<1>1. reply[r] \in 0..MaxRevision
  BY PanelAssumption DEF PInv, TypeOK
<1>2. snapshot'.run = r /\ snapshot'.revision = reply[r]
  BY DEF Show
<1>3. snapshot # None => snapshot.revision \in 0..MaxRevision
  BY DEF PInv, TypeOK
<1>4. CASE snapshot # None /\ snapshot.run = r
  <2>1. AnswerIsRecent(r) /\ reply[r] \notin {None, Refused}
    BY PanelAssumption DEF PInv, AnswersAreRecent
  <2>2. snapshot.revision <= reply[r]
    BY <1>4, <2>1 DEF AnswerIsRecent
  <2>3. runToken[r] \in Tokens
    BY <2>1 DEF PInv, RunsAreOwned, AnswerIsRecent
  <2>4. revokedAt[runToken[r]] # None => revokedAt[runToken[r]] \in 0..MaxRevision
    BY <2>3 DEF PInv, TypeOK
  <2>5. revokedAt[runToken[r]] # None => ~(snapshot.revision > revokedAt[runToken[r]])
    BY <1>3, <1>4, <2>1, <2>4, PanelAssumption DEF AnswerIsRecent
  <2> QED BY <1>1, <1>2, <1>3, <1>4, <2>2, <2>5, PanelAssumption DEF Forward
<1> QED BY <1>2, <1>4 DEF Forward

\* Only the two answers and the empty panel change what is shown.
LEMMA StepIsForward == PInv /\ [Next]_vars => Forward
<1> SUFFICES ASSUME PInv, [Next]_vars PROVE Forward
  OBVIOUS
<1> USE DEF server, panel, runs
<1>1. CASE Write \/ Publish
  BY <1>1, StayingIsForward DEF Write, Publish
<1>2. CASE \E t \in Tokens : CreateToken(t) \/ RevokeToken(t)
  BY <1>2, StayingIsForward DEF CreateToken, RevokeToken
<1>3. CASE User
  <2>1. snapshot' = None \/ snapshot' = snapshot
    BY <1>3 DEF User, EditToken, Start, Stop, Clear, Unmount
  <2>2. CASE snapshot' = None
    BY <2>2 DEF Forward
  <2> QED BY <2>1, <2>2, StayingIsForward
<1>4. ASSUME NEW r \in Runs, RunStep(r)
      PROVE  Forward
  <2>1. CASE SnapshotArrives(r)
    BY <2>1, ShowingIsForward, StayingIsForward DEF SnapshotArrives
  <2>2. CASE RefreshArrives(r)
    BY <2>2, ShowingIsForward, StayingIsForward DEF RefreshArrives
  <2>3. CASE StreamOpens(r) \/ OnConnected(r) \/ OnUnavailable(r) \/ OnConfigEvent(r) \/ StreamEnds(r)
    BY <2>3, StayingIsForward DEF StreamOpens, OnConnected, OnUnavailable, OnConfigEvent, StreamEnds
  <2>4. CASE SnapshotFails(r) \/ StreamFails(r) \/ AbortRejects(r)
    BY <2>4, StayingIsForward DEF SnapshotFails, StreamFails, AbortRejects, Throw
  <2> QED BY <1>4, <2>1, <2>2, <2>3, <2>4 DEF RunStep
<1>5. ASSUME NEW r \in Runs, Answer(r)
      PROVE  Forward
  BY <1>5, StayingIsForward DEF Answer, FindToken, ReadSnapshot, OpenStream, Subscribed
<1>6. ASSUME NEW r \in Runs, Fault(r)
      PROVE  Forward
  BY <1>6, StayingIsForward DEF Fault, FailSnapshot, FailStream, Unavailable, EndStream, RequestLost, ReadFails, Throw
<1>7. CASE UNCHANGED vars
  BY <1>7, StayingIsForward DEF vars
<1> QED BY <1>1, <1>2, <1>3, <1>4, <1>5, <1>6, <1>7 DEF Next

-----------------------------------------------------------------------------
\* startSimulator, isCurrentRun and the abort controllers keep the panel to its last
\* run: no interleaving of answers, events, clicks and faults shows another one.
THEOREM PanelIsOfLastRun == Spec => []PanelShowsLastRun
<1>1. PInv => PanelShowsLastRun
  BY DEF PInv
<1> QED BY <1>1, InitIsPInv, StepKeepsPInv, PTL DEF Spec

\* However many runs there were, the only streams still open at the API are the active
\* run's, those of runs that ended in the catch block and those of runs that were aborted
\* before the headers of their stream had arrived.
THEOREM StreamsAreExplained == Spec => []OpenStreamsAreExplained
<1>1. PInv => OpenStreamsAreExplained
  BY DEF PInv
<1> QED BY <1>1, InitIsPInv, StepKeepsPInv, PTL DEF Spec

\* The snapshot a run shows never goes back, and the first one from after the revocation
\* of its token is its last.
THEOREM SnapshotsOnlyAdvance == Spec => SnapshotsMoveForward
<1>1. PInv /\ [Next]_vars => [Forward]_vars
  BY StepIsForward
<1>2. SnapshotsMoveForward <=> [][Forward]_vars
  BY DEF SnapshotsMoveForward, Forward
<1> QED BY <1>1, <1>2, InitIsPInv, StepKeepsPInv, PTL DEF Spec

================================================================================
