------------------------- MODULE ConfigWorkspaceProofs -------------------------
(***************************************************************************)
(* For every number of apps, environments, entries, tokens and writes: the *)
(* tables never look fresh without the page's own writes, and what the     *)
(* page commits replaces what it was clicked on.                           *)
(***************************************************************************)
EXTENDS ConfigWorkspace, FiniteSetTheorems, TLAPS

\* A mutation, without the bounds of TypeOK: nothing here depends on them.
Submissions ==
    [kind : Kinds, target : Apps \cup Envs \cup Entries \cup Tokens,
     env : Envs \cup {None}, history : Entries \cup {None},
     expected : Nat, version : Nat, basis : Nat, phase : {"sent", "done", "refreshing"}]

CacheIsTyped ==
    /\ log \in Seq(Entries \cup Tokens)
    /\ data \in [Queries -> Nat \cup {None}]
    /\ stale \in [Queries -> BOOLEAN]
    /\ flight \in [Queries -> Nat \cup {Idle}]
    /\ own \in [Queries -> Nat]

\* A request is as young as the page's own write, so its answer holds the write; until it
\* is there, the query is invalid.
OwnWritesAreAwaited ==
    \A q \in Queries :
        /\ own[q] <= Len(log)
        /\ data[q] # None => data[q] <= Len(log)
        /\ flight[q] # Idle => own[q] <= flight[q] /\ flight[q] <= Len(log)
        /\ data[q] # None /\ data[q] < own[q] => stale[q]

\* A submission keeps the version that was shown when the button was clicked.
SubmissionIsOfShown ==
    mutation # None =>
        /\ mutation.kind = "environment" => mutation.target \in Envs
        /\ mutation.kind \in {"token", "revocation"} => mutation.target \in Tokens
        /\ mutation.kind \in {"entry", "rollback"} =>
              /\ mutation.target \in Entries
              /\ mutation.basis <= Len(log)
              /\ mutation.expected = VersionAt(mutation.target, mutation.basis)
        /\ mutation.kind = "rollback" =>
              /\ mutation.version \in 1..Current(mutation.target)
              /\ EnvOf[mutation.target] = mutation.env

\* The inductive invariant: what it says of the queries, the selection and the mutation.
CacheInv == CacheIsTyped /\ OwnWritesAreAwaited
SelectionInv == env \in Envs \cup {None} /\ entry \in Entries \cup {None}
MutationInv == mutation \in Submissions \cup {None} /\ SubmissionIsOfShown

CInv == CacheInv /\ SelectionInv /\ MutationInv

-----------------------------------------------------------------------------
(* Versions.                                                               *)

\* The writes of x among the first n are finitely many, and grow with n.
LEMMA VersionsGrow ==
    ASSUME NEW x, NEW m \in Nat, NEW n \in Nat, m <= n
    PROVE  /\ VersionAt(x, m) \in Nat /\ VersionAt(x, n) \in Nat
           /\ VersionAt(x, m) <= VersionAt(x, n)
           /\ VersionAt(x, m) = VersionAt(x, n) => \A i \in (m + 1)..n : log[i] # x
<1> DEFINE S == {i \in 1..m : log[i] = x}
           T == {i \in 1..n : log[i] = x}
<1>1. IsFiniteSet(1..n)
  BY FS_Interval
<1>2. IsFiniteSet(T) /\ T \in SUBSET (1..n)
  BY <1>1, FS_Subset
<1>3. S \in SUBSET T
  OBVIOUS
<1>4. /\ IsFiniteSet(S) /\ Cardinality(S) <= Cardinality(T)
      /\ Cardinality(S) = Cardinality(T) => S = T
  BY <1>2, <1>3, FS_Subset
<1>5. Cardinality(S) \in Nat /\ Cardinality(T) \in Nat
  BY <1>2, <1>4, FS_CardinalityType
<1>6. S = T => \A i \in (m + 1)..n : log[i] # x
  <2> SUFFICES ASSUME S = T, NEW i \in (m + 1)..n, log[i] = x PROVE FALSE
    OBVIOUS
  <2>1. i \in T /\ i \notin S
    OBVIOUS
  <2> QED BY <2>1
<1> QED BY <1>4, <1>5, <1>6 DEF VersionAt

\* A commit leaves the versions so far as they are.
LEMMA VersionsStay ==
    ASSUME log \in Seq(Entries \cup Tokens), NEW y \in Entries \cup Tokens,
           log' = Append(log, y), NEW x, NEW n \in Nat, n <= Len(log)
    PROVE  VersionAt(x, n)' = VersionAt(x, n)
<1>1. \A i \in 1..n : log'[i] = log[i]
  OBVIOUS
<1>2. {i \in 1..n : log'[i] = x} = {i \in 1..n : log[i] = x}
  BY <1>1
<1> QED BY <1>2 DEF VersionAt

-----------------------------------------------------------------------------
(* The cache.                                                              *)

\* Queries are requested or invalidated, by Fetch and Invalidate.
Requested ==
    /\ log' = log /\ data' = data /\ own' = own
    /\ flight' \in [Queries -> Nat \cup {Idle}]
    /\ \A q \in Queries : flight'[q] = flight[q] \/ flight'[q] = Len(log)
    /\ stale' \in [Queries -> BOOLEAN]
    /\ \A q \in Queries : stale[q] => stale'[q]

\* A request sent now holds every write of the page so far.
LEMMA RequestedKeeps ==
    ASSUME CacheInv, Requested
    PROVE  CacheInv'
<1> USE WorkspaceAssumption
<1>1. Len(log) \in Nat
  BY DEF CacheInv, CacheIsTyped
<1>2. CacheIsTyped'
  BY DEF CacheInv, CacheIsTyped, Requested
<1>3. OwnWritesAreAwaited'
  BY <1>1 DEF CacheInv, CacheIsTyped, OwnWritesAreAwaited, Requested
<1> QED BY <1>2, <1>3 DEF CacheInv

\* Fetch requests.
LEMMA FetchRequests ==
    ASSUME CacheInv, NEW qs, Fetch(qs), log' = log, data' = data, own' = own, stale' = stale
    PROVE  Requested
<1>1. Len(log) \in Nat
  BY DEF CacheInv, CacheIsTyped
<1> QED BY <1>1 DEF CacheInv, CacheIsTyped, Fetch, Requested

\* Invalidate requests, and makes the queries it names stale if they have data.
LEMMA InvalidateRequests ==
    ASSUME CacheInv, NEW qs, NEW mounted, Invalidate(qs, mounted)
    PROVE  /\ flight' \in [Queries -> Nat \cup {Idle}]
           /\ \A q \in Queries : flight'[q] = flight[q] \/ flight'[q] = Len(log)
           /\ \A q \in qs \cap Observed : data[q] # None => flight'[q] = Len(log)
           /\ stale' \in [Queries -> BOOLEAN]
           /\ \A q \in Queries : stale[q] => stale'[q]
           /\ \A q \in Queries : q \in qs /\ data[q] # None => stale'[q]
<1>1. Len(log) \in Nat
  BY DEF CacheInv, CacheIsTyped
<1>2. PICK fetched : Fetch(fetched) /\ Restarted(qs) \subseteq fetched
  BY DEF Invalidate
<1>3. /\ flight' \in [Queries -> Nat \cup {Idle}]
      /\ \A q \in Queries : flight'[q] = flight[q] \/ flight'[q] = Len(log)
      /\ \A q \in qs \cap Observed : data[q] # None => flight'[q] = Len(log)
  BY <1>1, <1>2 DEF CacheInv, CacheIsTyped, Fetch, Restarted, Observed
<1>4. \A q \in Queries : (stale[q] \/ (q \in qs /\ data[q] # None)) \in BOOLEAN
  OBVIOUS
<1>5. stale' \in [Queries -> BOOLEAN]
  BY <1>4 DEF Invalidate
<1>6. \A q \in Queries : stale'[q] = (stale[q] \/ (q \in qs /\ data[q] # None))
  BY DEF Invalidate
<1> QED BY <1>3, <1>5, <1>6

\* A commit of anybody.
LEMMA CommitKeepsCache ==
    ASSUME CacheInv, NEW y \in Entries \cup Tokens, log' = Append(log, y), UNCHANGED cache, own' = own
    PROVE  CacheInv'
<1>1. log' \in Seq(Entries \cup Tokens) /\ Len(log) \in Nat /\ Len(log') = Len(log) + 1
  BY DEF CacheInv, CacheIsTyped
<1>2. CacheIsTyped'
  BY <1>1 DEF CacheInv, CacheIsTyped, cache
<1>3. OwnWritesAreAwaited'
  BY <1>1, WorkspaceAssumption DEF CacheInv, CacheIsTyped, OwnWritesAreAwaited, cache
<1> QED BY <1>2, <1>3 DEF CacheInv

\* An answer that was requested after the page's own write holds it.
LEMMA ArrivalKeepsCache ==
    ASSUME CacheInv, NEW q \in Queries, QueryArrives(q)
    PROVE  CacheInv'
<1> USE WorkspaceAssumption
<1>1. /\ Len(log) \in Nat /\ flight[q] \in Nat /\ own[q] \in Nat
      /\ own[q] <= flight[q] /\ flight[q] <= Len(log)
  BY DEF CacheInv, CacheIsTyped, OwnWritesAreAwaited, QueryArrives
<1>2. PICK n \in flight[q]..Len(log) :
         /\ data' = [data EXCEPT ![q] = n]
         /\ own' = [own EXCEPT ![q] = IF n >= own[q] THEN 0 ELSE own[q]]
  BY DEF QueryArrives
<1>3. n \in Nat /\ n <= Len(log) /\ own' = [own EXCEPT ![q] = 0]
  <2>1. n \in Nat /\ n <= Len(log) /\ n >= own[q]
    BY <1>1
  <2> QED BY <1>2, <2>1
<1>4. /\ stale' = [stale EXCEPT ![q] = FALSE] /\ flight' = [flight EXCEPT ![q] = Idle]
      /\ log' = log
  BY DEF QueryArrives, db
<1>5. CacheIsTyped'
  BY <1>2, <1>3, <1>4 DEF CacheInv, CacheIsTyped
<1>6. OwnWritesAreAwaited'
  <2> SUFFICES ASSUME NEW p \in Queries
               PROVE  /\ own'[p] <= Len(log)
                      /\ data'[p] # None => data'[p] <= Len(log)
                      /\ flight'[p] # Idle => own'[p] <= flight'[p] /\ flight'[p] <= Len(log)
                      /\ data'[p] # None /\ data'[p] < own'[p] => stale'[p]
    BY <1>4 DEF OwnWritesAreAwaited
  <2>1. CASE p = q
    BY <1>1, <1>2, <1>3, <1>4, <2>1 DEF CacheInv, CacheIsTyped
  <2>2. CASE p # q
    BY <1>2, <1>3, <1>4, <2>2 DEF CacheInv, CacheIsTyped, OwnWritesAreAwaited
  <2> QED BY <2>1, <2>2
<1> QED BY <1>5, <1>6 DEF CacheInv

\* A request that fails leaves the query stale.
LEMMA FailureKeepsCache ==
    ASSUME CacheInv, NEW q \in Queries, QueryFails(q)
    PROVE  CacheInv'
<1>1. /\ flight' = [flight EXCEPT ![q] = Idle] /\ log' = log /\ data' = data
      /\ stale' = stale /\ own' = own
  BY DEF QueryFails, db
<1>2. CacheIsTyped'
  BY <1>1 DEF CacheInv, CacheIsTyped
<1>3. OwnWritesAreAwaited'
  BY <1>1 DEF CacheInv, CacheIsTyped, OwnWritesAreAwaited
<1> QED BY <1>2, <1>3 DEF CacheInv

\* The answer of the page's own write: what it invalidates is stale from then on, and a
\* request on its way was made anew.
LEMMA OwnWriteKeepsCache ==
    ASSUME CacheInv, NEW mounted, RefreshSelected(mounted), OwnWrite, log' = log, data' = data
    PROVE  CacheInv'
<1> USE WorkspaceAssumption
<1> DEFINE named == {mutation.env, mutation.history} \cap Queries
<1>1. Invalidate(named, mounted)
  BY DEF RefreshSelected
<1> HIDE DEF named
<1>2. /\ flight' \in [Queries -> Nat \cup {Idle}]
      /\ \A q \in Queries : flight'[q] = flight[q] \/ flight'[q] = Len(log)
      /\ \A q \in named \cap Observed : data[q] # None => flight'[q] = Len(log)
      /\ stale' \in [Queries -> BOOLEAN]
      /\ \A q \in Queries : stale[q] => stale'[q]
      /\ \A q \in Queries : q \in named /\ data[q] # None => stale'[q]
  BY <1>1, InvalidateRequests
<1>3. Len(log) \in Nat
  BY DEF CacheInv, CacheIsTyped
<1>4. \A q \in Queries :
         \/ own'[q] = own[q]
         \/ /\ own'[q] = Len(log) /\ q \in named /\ data[q] # None
            /\ q \in Observed \/ flight[q] = Idle
  BY DEF OwnWrite, named
<1>5. CacheIsTyped'
  <2>1. own' \in [Queries -> Nat]
    BY <1>3 DEF OwnWrite, CacheInv, CacheIsTyped
  <2> QED BY <1>2, <2>1 DEF CacheInv, CacheIsTyped
<1>6. OwnWritesAreAwaited'
  <2> SUFFICES ASSUME NEW p \in Queries
               PROVE  /\ own'[p] <= Len(log)
                      /\ data[p] # None => data[p] <= Len(log)
                      /\ flight'[p] # Idle => own'[p] <= flight'[p] /\ flight'[p] <= Len(log)
                      /\ data[p] # None /\ data[p] < own'[p] => stale'[p]
    BY DEF OwnWritesAreAwaited
  <2>1. CASE own'[p] = own[p]
    BY <1>2, <1>3, <2>1 DEF CacheInv, CacheIsTyped, OwnWritesAreAwaited
  <2>2. CASE /\ own'[p] = Len(log) /\ p \in named /\ data[p] # None
             /\ p \in Observed \/ flight[p] = Idle
    BY <1>2, <1>3, <2>2 DEF CacheInv, CacheIsTyped, OwnWritesAreAwaited
  <2> QED BY <1>4, <2>1, <2>2
<1> QED BY <1>5, <1>6 DEF CacheInv


\* Neither the log nor a query is touched.
LEMMA UntouchedCache ==
    ASSUME CacheInv, log' = log, UNCHANGED cache, own' = own
    PROVE  CacheInv'
BY DEF CacheInv, CacheIsTyped, OwnWritesAreAwaited, cache

-----------------------------------------------------------------------------
(* The mutation.                                                           *)

\* The mutation is over, stays, or its phase changes.
SameSubmission ==
    \/ mutation' = None
    \/ mutation' = mutation
    \/ mutation # None /\ \E p \in {"sent", "done", "refreshing"} : Phase(p)

\* The log stays or grows by one.
LogStep == log' = log \/ \E y \in Entries \cup Tokens : log' = Append(log, y)

\* A commit adds to the versions of an entry, never takes one away.
LEMMA CurrentGrows ==
    ASSUME CacheInv, LogStep, NEW x
    PROVE  Current(x) \in Nat /\ Current(x)' \in Nat /\ Current(x) <= Current(x)'
<1> DEFINE S == {i \in 1..Len(log) : log[i] = x}
           T == {i \in 1..Len(log') : log'[i] = x}
<1>1. log \in Seq(Entries \cup Tokens) /\ Len(log) \in Nat
  BY DEF CacheInv, CacheIsTyped
<1>2. /\ Len(log') \in Nat /\ Len(log) <= Len(log')
      /\ \A i \in 1..Len(log) : log'[i] = log[i]
  BY <1>1 DEF LogStep
<1>3. S \in SUBSET T /\ T \in SUBSET (1..Len(log'))
  BY <1>1, <1>2
<1>4. IsFiniteSet(1..Len(log'))
  BY <1>2, FS_Interval
<1>5. IsFiniteSet(T)
  BY <1>3, <1>4, FS_Subset
<1>6. IsFiniteSet(S) /\ Cardinality(S) <= Cardinality(T)
  BY <1>3, <1>5, FS_Subset
<1>7. Cardinality(S) \in Nat /\ Cardinality(T) \in Nat
  BY <1>5, <1>6, FS_CardinalityType
<1>8. Current(x) = Cardinality(S) /\ Current(x)' = Cardinality(T)
  BY DEF Current, VersionAt
<1> QED BY <1>6, <1>7, <1>8

\* The version a click saw stays what it was.
LEMMA VersionsKept ==
    ASSUME CacheInv, LogStep, NEW x, NEW n \in Nat, n <= Len(log)
    PROVE  VersionAt(x, n)' = VersionAt(x, n) /\ n <= Len(log')
<1>1. log \in Seq(Entries \cup Tokens) /\ Len(log) \in Nat
  BY DEF CacheInv, CacheIsTyped
<1>2. CASE log' = log
  BY <1>2 DEF VersionAt
<1>3. ASSUME NEW y \in Entries \cup Tokens, log' = Append(log, y)
      PROVE  VersionAt(x, n)' = VersionAt(x, n) /\ n <= Len(log')
  BY <1>1, <1>3, VersionsStay
<1> QED BY <1>2, <1>3 DEF LogStep

\* What is known of a submission outlives every commit and every phase.
LEMMA SubmissionKept ==
    ASSUME CacheInv, MutationInv, LogStep, SameSubmission
    PROVE  MutationInv'
<1>1. CASE mutation' = None
  BY <1>1 DEF MutationInv, SubmissionIsOfShown
<1>2. CASE mutation' # None /\ mutation # None
  <2>1. mutation \in Submissions
    BY <1>2 DEF MutationInv
  <2>2. /\ mutation' \in Submissions
        /\ mutation'.kind = mutation.kind /\ mutation'.target = mutation.target
        /\ mutation'.basis = mutation.basis /\ mutation'.expected = mutation.expected
        /\ mutation'.version = mutation.version /\ mutation'.env = mutation.env
    BY <1>2, <2>1 DEF SameSubmission, Phase, Submissions
  <2>3. PICK m : m = mutation
    OBVIOUS
  <2>4. PICK x : x = m.target
    OBVIOUS
  <2>5. PICK n : n = m.basis
    OBVIOUS
  <2>6. n \in Nat /\ m.version \in Nat
    BY <2>1, <2>3, <2>5 DEF Submissions
  <2>7. mutation.kind \in {"entry", "rollback"} =>
           x \in Entries /\ n <= Len(log) /\ m.expected = VersionAt(x, n)
    BY <1>2, <2>3, <2>4, <2>5 DEF MutationInv, SubmissionIsOfShown
  <2>8. mutation.kind = "rollback" => m.version \in 1..Current(x) /\ EnvOf[x] = m.env
    BY <1>2, <2>3, <2>4 DEF MutationInv, SubmissionIsOfShown
  <2>9. mutation.kind \in {"entry", "rollback"} =>
           n <= Len(log') /\ m.expected = VersionAt(x, n)'
    BY <2>6, <2>7, VersionsKept
  <2>10. mutation.kind = "rollback" => m.version \in 1..Current(x)'
    BY <2>6, <2>8, CurrentGrows
  <2>11. /\ mutation.kind = "environment" => m.target \in Envs
         /\ mutation.kind \in {"token", "revocation"} => m.target \in Tokens
    BY <1>2, <2>3 DEF MutationInv, SubmissionIsOfShown
  <2>12. \A y, k : y = x /\ k = n =>
            VersionAt(x, n)' = Cardinality({i \in 1..k : log'[i] = y})
    BY DEF VersionAt
  <2>13. \A y : y = x => Current(x)' = Cardinality({i \in 1..Len(log') : log'[i] = y})
    BY DEF Current, VersionAt
  <2>14. SubmissionIsOfShown'
    BY <2>2, <2>3, <2>4, <2>5, <2>7, <2>8, <2>9, <2>10, <2>11, <2>12, <2>13
       DEF SubmissionIsOfShown, Current, VersionAt
  <2> QED BY <2>2, <2>14 DEF MutationInv
<1>3. CASE mutation' # None /\ mutation = None
  BY <1>3 DEF SameSubmission
<1> QED BY <1>1, <1>2, <1>3

\* A click on Save takes what the table shows.
LEMMA SaveIsOfShown ==
    ASSUME CInv, NEW x \in Entries, SaveEntry(x)
    PROVE  MutationInv'
<1> USE WorkspaceAssumption
<1>1. env \in Queries /\ env \in Envs
  BY DEF SaveEntry, Queries
<1>2. Len(log) \in Nat
  BY DEF CInv, CacheInv, CacheIsTyped
<1>3. PICK n : n = Shown
  OBVIOUS
<1>4. n \in Nat /\ n <= Len(log)
  BY <1>1, <1>2, <1>3 DEF CInv, CacheInv, CacheIsTyped, OwnWritesAreAwaited, Shown
<1>5. PICK v : v = VersionAt(x, n)
  OBVIOUS
<1>6. v \in Nat
  BY <1>4, <1>5, VersionsGrow
<1>7. /\ mutation' = [kind |-> "entry", target |-> x, env |-> env, history |-> entry,
                      basis |-> n, expected |-> v, version |-> 0, phase |-> "sent"]
      /\ log' = log
  BY <1>3, <1>5 DEF SaveEntry, Submit, db
<1>8. mutation' \in Submissions
  BY <1>1, <1>4, <1>6, <1>7 DEF CInv, SelectionInv, Submissions, Kinds
<1>9. SubmissionIsOfShown'
  BY <1>4, <1>5, <1>7 DEF SubmissionIsOfShown, VersionAt
<1> QED BY <1>8, <1>9 DEF MutationInv

\* A click on a version of the history takes that version, and what the table shows.
LEMMA RollbackIsOfShown ==
    ASSUME CInv, NEW v \in Nat, RollbackEntry(v)
    PROVE  MutationInv'
<1> USE WorkspaceAssumption
<1>1. env \in Queries /\ env \in Envs /\ entry \in Entries /\ entry \in Queries /\ EnvOf[entry] = env
  BY DEF CInv, SelectionInv, RollbackEntry, Listed, Queries
<1>2. Len(log) \in Nat
  BY DEF CInv, CacheInv, CacheIsTyped
<1>3. PICK n : n = Shown
  OBVIOUS
<1>4. n \in Nat /\ n <= Len(log)
  BY <1>1, <1>2, <1>3 DEF CInv, CacheInv, CacheIsTyped, OwnWritesAreAwaited, Shown
<1>5. PICK x : x = entry
  OBVIOUS
<1>6. PICK e : e = VersionAt(x, n)
  OBVIOUS
<1>7. e \in Nat
  BY <1>4, <1>6, VersionsGrow
<1>8. PICK k : k = data[x]
  OBVIOUS
<1>9. k \in Nat /\ k <= Len(log) /\ v \in 1..VersionAt(x, k)
  <2>1. v \in ListedVersions(x)
    BY <1>5 DEF RollbackEntry
  <2>2. k # None /\ v \in 1..VersionAt(x, k)
    BY <1>8, <2>1 DEF ListedVersions
  <2> QED BY <1>1, <1>5, <1>8, <2>2 DEF CInv, CacheInv, CacheIsTyped, OwnWritesAreAwaited
<1>10. v \in 1..Current(x)
  <2>1. /\ VersionAt(x, k) \in Nat /\ VersionAt(x, Len(log)) \in Nat
        /\ VersionAt(x, k) <= VersionAt(x, Len(log))
    BY <1>2, <1>9, VersionsGrow
  <2> QED BY <1>9, <2>1 DEF Current
<1>11. /\ mutation' = [kind |-> "rollback", target |-> x, env |-> env, history |-> x,
                       basis |-> n, expected |-> e, version |-> v, phase |-> "sent"]
       /\ log' = log
  BY <1>3, <1>5, <1>6 DEF RollbackEntry, Submit, db
<1>12. mutation' \in Submissions
  BY <1>1, <1>4, <1>5, <1>7, <1>11 DEF Submissions, Kinds
<1>13. SubmissionIsOfShown'
  BY <1>1, <1>4, <1>5, <1>6, <1>10, <1>11 DEF SubmissionIsOfShown, VersionAt, Current
<1> QED BY <1>12, <1>13 DEF MutationInv

\* The other clicks do not compare versions.
LEMMA OtherSubmissions ==
    ASSUME NEW kind \in {"app", "environment", "token", "revocation"},
           NEW target \in Apps \cup Envs \cup Tokens, kind = "environment" => target \in Envs,
           kind \in {"token", "revocation"} => target \in Tokens,
           NEW e \in Envs \cup {None}, Submit(kind, target, e, None, 0, 0, 0)
    PROVE  MutationInv'
<1>1. mutation' = [kind |-> kind, target |-> target, env |-> e, history |-> None,
                   basis |-> 0, expected |-> 0, version |-> 0, phase |-> "sent"]
  BY DEF Submit
<1>2. mutation' \in Submissions
  BY <1>1 DEF Submissions, Kinds
<1>3. SubmissionIsOfShown'
  BY <1>1 DEF SubmissionIsOfShown
<1> QED BY <1>2, <1>3 DEF MutationInv

-----------------------------------------------------------------------------
(* The inductive invariant.                                                *)

\* Nothing was read, submitted or written at first.
LEMMA CInvHoldsAtFirst == Init => CInv
<1> SUFFICES ASSUME Init PROVE CInv
  OBVIOUS
<1> USE WorkspaceAssumption
<1>1. Len(log) = 0 /\ log \in Seq(Entries \cup Tokens)
  BY DEF Init
<1>2. CacheInv
  BY <1>1 DEF Init, CacheInv, CacheIsTyped, OwnWritesAreAwaited
<1>3. SelectionInv /\ MutationInv
  BY DEF Init, SelectionInv, MutationInv, SubmissionIsOfShown
<1> QED BY <1>2, <1>3 DEF CInv

\* A query that starts to be observed is fetched.
LEMMA MountKeepsCache ==
    ASSUME CacheInv, NEW q, Mount(q), log' = log, data' = data, stale' = stale, own' = own
    PROVE  CacheInv'
<1>1. PICK aged \in BOOLEAN : Fetch(Outdated({q}, aged))
  BY DEF Mount
<1> QED BY <1>1, FetchRequests, RequestedKeeps

\* Queries that are invalidated, by an event or the Refresh button.
LEMMA InvalidationKeepsCache ==
    ASSUME CacheInv, NEW qs, NEW mounted, Invalidate(qs, mounted),
           log' = log, data' = data, own' = own
    PROVE  CacheInv'
<1>1. Requested
  BY InvalidateRequests DEF Requested
<1> QED BY <1>1, RequestedKeeps

\* A click keeps the invariant.
LEMMA ClickKeeps ==
    ASSUME CInv, Click
    PROVE  CInv'
<1> USE WorkspaceAssumption
<1>1. CacheInv /\ SelectionInv /\ MutationInv
  BY DEF CInv
<1>2. ASSUME NEW a \in Apps, SelectApp(a) PROVE CInv'
  <2>1. CacheInv'
    BY <1>1, <1>2, UntouchedCache DEF SelectApp, db
  <2>2. SelectionInv'
    BY <1>2 DEF SelectApp, SelectionInv
  <2>3. MutationInv'
    BY <1>1, <1>2, SubmissionKept DEF SelectApp, db, LogStep, SameSubmission
  <2> QED BY <2>1, <2>2, <2>3 DEF CInv
<1>3. ASSUME NEW kind, NEW t, NEW e, NEW h, NEW b, NEW x, NEW v, Submit(kind, t, e, h, b, x, v)
      PROVE  CacheInv' /\ SelectionInv'
  <2>1. CacheInv'
    BY <1>1, <1>3, UntouchedCache DEF Submit, db
  <2> QED BY <1>1, <1>3, <2>1 DEF Submit, selection, SelectionInv
<1>4. ASSUME NEW a \in Apps, CreateApp(a) PROVE CInv'
  <2>1. Submit("app", a, None, None, 0, 0, 0)
    BY <1>4 DEF CreateApp
  <2> QED BY <1>3, <2>1, OtherSubmissions DEF CInv
<1>5. ASSUME NEW e \in Envs, SelectEnvironment(e) PROVE CInv'
  <2>1. CacheInv'
    BY <1>1, <1>5, MountKeepsCache DEF SelectEnvironment, db
  <2>2. SelectionInv'
    BY <1>5 DEF SelectEnvironment, SelectionInv
  <2>3. MutationInv'
    BY <1>1, <1>5, SubmissionKept DEF SelectEnvironment, db, LogStep, SameSubmission
  <2> QED BY <2>1, <2>2, <2>3 DEF CInv
<1>6. ASSUME NEW e \in Envs, CreateEnvironment(e) PROVE CInv'
  <2>1. Submit("environment", e, None, None, 0, 0, 0)
    BY <1>6 DEF CreateEnvironment
  <2> QED BY <1>3, <2>1, OtherSubmissions DEF CInv
<1>7. ASSUME NEW x \in Entries, SelectEntry(x) PROVE CInv'
  <2>1. CacheInv'
    BY <1>1, <1>7, MountKeepsCache DEF SelectEntry, db
  <2>2. SelectionInv'
    BY <1>1, <1>7 DEF SelectEntry, SelectionInv
  <2>3. MutationInv'
    BY <1>1, <1>7, SubmissionKept DEF SelectEntry, db, LogStep, SameSubmission
  <2> QED BY <2>1, <2>2, <2>3 DEF CInv
<1>8. ASSUME NEW x \in Entries, SaveEntry(x) PROVE CInv'
  <2>1. Submit("entry", x, env, entry, Shown, VersionAt(x, Shown), 0)
    BY <1>8 DEF SaveEntry
  <2> QED BY <1>3, <1>8, <2>1, SaveIsOfShown DEF CInv
<1>9. ASSUME NEW k \in Tokens, CreateToken(k) PROVE CInv'
  <2>1. Submit("token", k, env, None, 0, 0, 0)
    BY <1>9 DEF CreateToken
  <2> QED BY <1>1, <1>3, <2>1, OtherSubmissions DEF CInv, SelectionInv
<1>10. ASSUME NEW k \in Tokens, RevokeToken(k) PROVE CInv'
  <2>1. Submit("revocation", k, env, None, 0, 0, 0)
    BY <1>10 DEF RevokeToken
  <2> QED BY <1>1, <1>3, <2>1, OtherSubmissions DEF CInv, SelectionInv
<1>11. ASSUME NEW n \in 1..MaxWrites, RollbackEntry(n) PROVE CInv'
  <2>1. Submit("rollback", entry, env, entry, Shown, VersionAt(entry, Shown), n) /\ n \in Nat
    BY <1>11 DEF RollbackEntry
  <2> QED BY <1>3, <1>11, <2>1, RollbackIsOfShown DEF CInv
<1>12. CASE Refresh
  <2>1. CacheInv'
    BY <1>1, <1>12, InvalidationKeepsCache DEF Refresh, db
  <2>2. SelectionInv'
    BY <1>1, <1>12 DEF Refresh, selection, SelectionInv
  <2>3. MutationInv'
    BY <1>1, <1>12, SubmissionKept DEF Refresh, db, LogStep, SameSubmission
  <2> QED BY <2>1, <2>2, <2>3 DEF CInv
<1> QED BY <1>2, <1>4, <1>5, <1>6, <1>7, <1>8, <1>9, <1>10, <1>11, <1>12 DEF Click

\* A commit of the API, for the page or for another administrator.
LEMMA CommitKeeps ==
    ASSUME CInv, NEW y \in Entries \cup Tokens, Commit(y), SameSubmission,
           UNCHANGED <<selection, cache, own>>
    PROVE  CInv'
<1>1. CacheInv /\ SelectionInv /\ MutationInv /\ log' = Append(log, y)
  BY DEF CInv, Commit
<1>2. CacheInv'
  BY <1>1, CommitKeepsCache
<1>3. SelectionInv'
  BY <1>1 DEF selection, SelectionInv
<1>4. MutationInv'
  BY <1>1, SubmissionKept DEF LogStep
<1> QED BY <1>2, <1>3, <1>4 DEF CInv

\* A step that leaves log, selection and cache alone.
LEMMA QuietKeeps ==
    ASSUME CInv, log' = log, SameSubmission, UNCHANGED <<selection, cache, own>>
    PROVE  CInv'
<1>1. CacheInv'
  BY UntouchedCache DEF CInv
<1>2. SelectionInv'
  BY DEF CInv, selection, SelectionInv
<1>3. MutationInv'
  BY SubmissionKept DEF CInv, LogStep
<1> QED BY <1>1, <1>2, <1>3 DEF CInv

\* A request that is handled or answered keeps the invariant.
LEMMA ResponseKeeps ==
    ASSUME CInv, Response
    PROVE  CInv'
<1> USE WorkspaceAssumption
<1>1. CacheInv /\ SelectionInv /\ MutationInv
  BY DEF CInv
<1>2. ASSUME NEW kind, Create(kind) PROVE CInv'
  BY <1>2, QuietKeeps DEF Create, Submitted, SameSubmission
<1>3. CASE HandleWrite
  <2>1. CASE mutation.expected = Current(mutation.target)
    <3>1. PICK y : y = mutation.target
      OBVIOUS
    <3>2. y \in Entries /\ Commit(y) /\ SameSubmission /\ UNCHANGED <<selection, cache, own>>
      BY <1>1, <1>3, <2>1, <3>1
         DEF HandleWrite, Submitted, SameSubmission, MutationInv, SubmissionIsOfShown
    <3> QED BY <3>2, CommitKeeps
  <2>2. CASE mutation.expected # Current(mutation.target)
    BY <1>3, <2>2, QuietKeeps DEF HandleWrite, SameSubmission, db
  <2> QED BY <2>1, <2>2
<1>4. CASE HandleCreateToken \/ HandleRevokeToken
  <2>1. PICK y : y = mutation.target
    OBVIOUS
  <2>2. Commit(y) /\ SameSubmission /\ UNCHANGED <<selection, cache, own>>
    BY <1>4, <2>1 DEF HandleCreateToken, HandleRevokeToken, Submitted, SameSubmission
  <2>3. mutation \in Submissions /\ mutation.kind \in {"token", "revocation"}
    BY <1>1, <1>4 DEF HandleCreateToken, HandleRevokeToken, Submitted, MutationInv
  <2>4. y \in Entries \cup Tokens
    BY <1>1, <1>4, <2>1, <2>3
       DEF HandleCreateToken, HandleRevokeToken, Submitted, MutationInv, SubmissionIsOfShown
  <2> QED BY <2>2, <2>4, CommitKeeps
<1>5. CASE RequestFails \/ RefreshSettles
  BY <1>5, QuietKeeps DEF RequestFails, RefreshSettles, SameSubmission, db
<1>6. CASE TokenWritten
  BY <1>6, QuietKeeps DEF TokenWritten, Answered, SameSubmission, db
<1>7. CASE AppCreated
  <2>1. CacheInv'
    BY <1>1, <1>7, UntouchedCache DEF AppCreated, db
  <2>2. SelectionInv' /\ MutationInv'
    BY <1>1, <1>7 DEF AppCreated, SelectionInv, MutationInv, SubmissionIsOfShown
  <2> QED BY <2>1, <2>2 DEF CInv
<1>8. CASE EnvironmentCreated
  <2>1. CacheInv'
    BY <1>1, <1>8, MountKeepsCache DEF EnvironmentCreated, db
  <2>2. mutation.target \in Envs
    BY <1>1, <1>8 DEF EnvironmentCreated, Answered, MutationInv, SubmissionIsOfShown
  <2>3. SelectionInv' /\ MutationInv'
    BY <1>1, <1>8, <2>2 DEF EnvironmentCreated, SelectionInv, MutationInv, SubmissionIsOfShown
  <2> QED BY <2>1, <2>3 DEF CInv
<1>9. CASE EntrySaved
  <2>1. CacheInv'
    BY <1>1, <1>9, OwnWriteKeepsCache DEF EntrySaved, db
  <2>2. mutation.target \in Entries
    BY <1>1, <1>9 DEF EntrySaved, Answered, MutationInv, SubmissionIsOfShown
  <2>3. SelectionInv'
    BY <1>1, <1>9, <2>2 DEF EntrySaved, SelectionInv
  <2>4. MutationInv'
    BY <1>1, <1>9, SubmissionKept DEF EntrySaved, Answered, SameSubmission, LogStep, db
  <2> QED BY <2>1, <2>3, <2>4 DEF CInv
<1>10. CASE EntryRolledBack
  <2>1. CacheInv'
    BY <1>1, <1>10, OwnWriteKeepsCache DEF EntryRolledBack, db
  <2>2. SelectionInv'
    BY <1>1, <1>10 DEF EntryRolledBack, SelectionInv, selection
  <2>3. MutationInv'
    BY <1>1, <1>10, SubmissionKept DEF EntryRolledBack, Answered, SameSubmission, LogStep, db
  <2> QED BY <2>1, <2>2, <2>3 DEF CInv
<1> QED
  BY <1>2, <1>3, <1>4, <1>5, <1>6, <1>7, <1>8, <1>9, <1>10
     DEF Response, HandleCreateApp, HandleCreateEnvironment

\* So does what the others and the stream do, and every answer of a query.
LEMMA OthersKeep ==
    ASSUME CInv, Others
    PROVE  CInv'
<1>1. ASSUME NEW y \in Entries \cup Tokens, OtherWrites(y) \/ OtherTokens(y) PROVE CInv'
  BY <1>1, CommitKeeps DEF OtherWrites, OtherTokens, SameSubmission
<1>2. ASSUME NEW c, OtherCreates(c) PROVE CInv'
  BY <1>2, QuietKeeps DEF OtherCreates, SameSubmission
<1> QED BY <1>1, <1>2 DEF Others, OtherCreatesApp, OtherCreatesEnvironment

\* Every step keeps the invariant.
LEMMA CInvIsKept == CInv /\ [Next]_vars => CInv'
<1> SUFFICES ASSUME CInv, [Next]_vars PROVE CInv'
  OBVIOUS
<1>1. CacheInv /\ SelectionInv /\ MutationInv
  BY DEF CInv
<1>2. ASSUME NEW q \in Queries, QueryArrives(q) PROVE CInv'
  <2>1. CacheInv'
    BY <1>1, <1>2, ArrivalKeepsCache
  <2>2. SelectionInv' /\ LogStep /\ SameSubmission
    BY <1>1, <1>2 DEF QueryArrives, selection, SelectionInv, db, LogStep, SameSubmission
  <2> QED BY <1>1, <2>1, <2>2, SubmissionKept DEF CInv
<1>3. ASSUME NEW q \in Queries, QueryFails(q) PROVE CInv'
  <2>1. CacheInv'
    BY <1>1, <1>3, FailureKeepsCache
  <2>2. SelectionInv' /\ LogStep /\ SameSubmission
    BY <1>1, <1>3 DEF QueryFails, selection, SelectionInv, db, LogStep, SameSubmission
  <2> QED BY <1>1, <2>1, <2>2, SubmissionKept DEF CInv
<1>4. CASE StreamConnects \/ StreamBreaks
  BY <1>4, QuietKeeps DEF StreamConnects, StreamBreaks, db, SameSubmission
<1>5. CASE OnConfigEvent
  <2>1. CacheInv'
    BY <1>1, <1>5, InvalidationKeepsCache DEF OnConfigEvent, db
  <2>2. SelectionInv' /\ LogStep /\ SameSubmission
    BY <1>1, <1>5 DEF OnConfigEvent, selection, SelectionInv, db, LogStep, SameSubmission
  <2> QED BY <1>1, <2>1, <2>2, SubmissionKept DEF CInv
<1>6. CASE UNCHANGED vars
  BY <1>6, QuietKeeps DEF vars, db, SameSubmission
<1> QED BY <1>2, <1>3, <1>4, <1>5, <1>6, ClickKeeps, ResponseKeeps, OthersKeep DEF Next

-----------------------------------------------------------------------------
(* What it gives.                                                          *)

\* After the answer of a write no earlier answer of a query makes its table look fresh.
THEOREM OwnWritesStayVisible == Spec => []OwnWritesAreShown
<1>1. CInv => OwnWritesAreShown
  BY DEF CInv, CacheInv, OwnWritesAreAwaited, OwnWritesAreShown
<1> QED BY <1>1, CInvHoldsAtFirst, CInvIsKept, PTL DEF Spec

\* The API compares numbers, and that is enough: if the version is the one that was
\* shown, nothing was written in between; and a rollback names a version there is.
THEOREM ShownVersionsAreReplaced == Spec => WritesReplaceWhatWasShown
<1>1. ASSUME CInv, NEW x \in Entries, HandleWrite, log' = Append(log, x)
      PROVE  /\ \A i \in (mutation.basis + 1)..Len(log) : log[i] # x
             /\ mutation.kind = "rollback" =>
                   mutation.version \in 1..Current(x) /\ EnvOf[x] = mutation.env
  <2>1. log \in Seq(Entries \cup Tokens) /\ Len(log) \in Nat
    BY <1>1 DEF CInv, CacheInv, CacheIsTyped
  <2>2. mutation # None /\ mutation \in Submissions /\ mutation.kind \in {"entry", "rollback"}
    BY <1>1 DEF HandleWrite, Submitted, CInv, MutationInv
  <2>3. PICK y : y = mutation.target
    OBVIOUS
  <2>4. y \in Entries /\ mutation.expected = Current(y) /\ log' = Append(log, y)
    <3>1. log' # log
      BY <1>1, <2>1
    <3> QED
      BY <1>1, <2>2, <2>3, <3>1
         DEF HandleWrite, Commit, db, CInv, MutationInv, SubmissionIsOfShown
  <2>5. x = y
    <3>1. Append(log, x) = Append(log, y)
      BY <1>1, <2>4
    <3>2. Append(log, x)[Len(log) + 1] = x /\ Append(log, y)[Len(log) + 1] = y
      BY <2>1, <2>4
    <3> QED BY <3>1, <3>2
  <2>6. PICK n : n = mutation.basis
    OBVIOUS
  <2>7. n \in Nat /\ n <= Len(log) /\ VersionAt(x, n) = Current(x)
    BY <1>1, <2>2, <2>3, <2>4, <2>5, <2>6
       DEF Submissions, CInv, MutationInv, SubmissionIsOfShown
  <2>8. \A i \in (n + 1)..Len(log) : log[i] # x
    BY <2>1, <2>7, VersionsGrow DEF Current
  <2>9. mutation.kind = "rollback" =>
           mutation.version \in 1..Current(x) /\ EnvOf[x] = mutation.env
    BY <1>1, <2>2, <2>3, <2>5 DEF CInv, MutationInv, SubmissionIsOfShown
  <2> QED BY <2>6, <2>8, <2>9
<1>2. CInv /\ [Next]_vars =>
         [\A x \in Entries : HandleWrite /\ log' = Append(log, x) =>
             /\ \A i \in (mutation.basis + 1)..Len(log) : log[i] # x
             /\ mutation.kind = "rollback" =>
                   mutation.version \in 1..Current(x) /\ EnvOf[x] = mutation.env]_vars
  BY <1>1
<1> QED BY <1>2, CInvHoldsAtFirst, CInvIsKept, PTL DEF Spec, WritesReplaceWhatWasShown

\* A click never shows an environment under another app, nor an entry under another
\* environment; only the answer of a mutation does.
THEOREM ClicksKeepTheSelectionTogether == Spec => SelectionStraysOnAnswers
<1>1. ASSUME Next, SelectionFits, ~SelectionFits'
      PROVE  AppCreated \/ EnvironmentCreated \/ EntrySaved
  <2>1. UNCHANGED selection => SelectionFits'
    BY <1>1 DEF selection, SelectionFits
  <2>2. ASSUME NEW kind, NEW t, NEW e, NEW h, NEW b, NEW x, NEW v, Submit(kind, t, e, h, b, x, v)
        PROVE  UNCHANGED selection
    BY <2>2 DEF Submit
  <2>3. Click => SelectionFits'
    <3>1. ASSUME NEW a \in Apps, SelectApp(a) PROVE SelectionFits'
      BY <3>1 DEF SelectApp, SelectionFits
    <3>2. ASSUME NEW e \in Envs, SelectEnvironment(e) PROVE SelectionFits'
      BY <3>2 DEF SelectEnvironment, ListedEnvironments, SelectionFits
    <3>3. ASSUME NEW x \in Entries, SelectEntry(x) PROVE SelectionFits'
      BY <1>1, <3>3 DEF SelectEntry, Listed, SelectionFits
    <3>4. ASSUME NEW a \in Apps, CreateApp(a) PROVE UNCHANGED selection
      BY <2>2, <3>4 DEF CreateApp
    <3>5. ASSUME NEW e \in Envs, CreateEnvironment(e) PROVE UNCHANGED selection
      BY <2>2, <3>5 DEF CreateEnvironment
    <3>6. ASSUME NEW x \in Entries, SaveEntry(x) PROVE UNCHANGED selection
      BY <2>2, <3>6 DEF SaveEntry
    <3>7. ASSUME NEW k \in Tokens, CreateToken(k) \/ RevokeToken(k) PROVE UNCHANGED selection
      BY <2>2, <3>7 DEF CreateToken, RevokeToken
    <3>8. ASSUME NEW n \in 1..MaxWrites, RollbackEntry(n) PROVE UNCHANGED selection
      BY <2>2, <3>8 DEF RollbackEntry
    <3>9. Refresh => UNCHANGED selection
      BY DEF Refresh
    <3> QED
      BY <2>1, <3>1, <3>2, <3>3, <3>4, <3>5, <3>6, <3>7, <3>8, <3>9 DEF Click
  <2>4. Response => UNCHANGED selection \/ AppCreated \/ EnvironmentCreated \/ EntrySaved
    BY DEF Response, HandleCreateApp, HandleCreateEnvironment, Create, HandleWrite,
           HandleCreateToken, HandleRevokeToken, RequestFails, EntryRolledBack,
           TokenWritten, RefreshSettles
  <2>5. Others => UNCHANGED selection
    BY DEF Others, OtherWrites, OtherTokens, OtherCreatesApp, OtherCreatesEnvironment,
           OtherCreates
  <2>6. ASSUME NEW q \in Queries, QueryArrives(q) \/ QueryFails(q) PROVE UNCHANGED selection
    BY <2>6 DEF QueryArrives, QueryFails
  <2>7. StreamConnects \/ StreamBreaks \/ OnConfigEvent => UNCHANGED selection
    BY DEF StreamConnects, StreamBreaks, OnConfigEvent
  <2> QED BY <1>1, <2>1, <2>3, <2>4, <2>5, <2>6, <2>7 DEF Next
<1>2. [Next]_vars =>
         [SelectionFits /\ ~SelectionFits' => AppCreated \/ EnvironmentCreated \/ EntrySaved]_vars
  BY <1>1
<1> QED BY <1>2, PTL DEF Spec, SelectionStraysOnAnswers
================================================================================
