--------------------------- MODULE ConfigRepository ---------------------------
(***************************************************************************)
(* The write transactions of packages/db's config repository on the        *)
(* entries of one environment (upsertEntry and rollbackEntry), statement   *)
(* by statement, and the two-statement snapshot read that serves the SDK   *)
(* clients (getEnvironmentSnapshot).                                       *)
(*                                                                         *)
(* The transactions run at PostgreSQL's default isolation, READ COMMITTED: *)
(* a SELECT sees what was committed when it starts and takes no lock, an   *)
(* UPDATE waits for the transaction that updated the row before it and     *)
(* then works on the newest row, an INSERT waits for an open transaction   *)
(* that inserted the same unique key and fails if that key is committed.   *)
(* Locks are kept to the end of the transaction, so which locks a          *)
(* transaction holds follows from the statement it has reached.            *)
(*                                                                         *)
(* The variables entries, versions, revision, outbox and auditLog are the  *)
(* committed rows; what an open transaction has written is in tx.          *)
(***************************************************************************)
EXTENDS Integers, FiniteSets

CONSTANTS
    Clients,        \* API requests that run a write transaction
    Readers,        \* API requests that read a snapshot
    Keys,           \* entry keys of the environment
    Values,         \* value type, value and checksum of a version, as one token
    None,           \* SQL NULL, and no row
    MaxRevision     \* no write is begun once this many are committed

ASSUME MaxRevisionAssumption == MaxRevision \in Nat

VARIABLES
    entries,        \* config_entries: key -> row or None
    versions,       \* config_entry_versions: the set of rows
    revision,       \* config_environments.revision
    outbox,         \* config_event_outbox: the payloads of the rows
    auditLog,       \* audit_logs, each row with the revision it was committed with
    tx,             \* client -> the transaction it has open
    outcome,        \* what the last step answered its caller, or "none"
    snapshot        \* reader -> the snapshot being assembled

committed == <<entries, versions, revision, outbox, auditLog>>
vars == <<entries, versions, revision, outbox, auditLog, tx, outcome, snapshot>>

-----------------------------------------------------------------------------
\* expectedVersion of a request: left out, null, or a version number
Omitted == -1
Null == -2
ExpectedVersions == {Omitted, Null} \cup Nat

EventTypes == {"created", "updated", "rollback"}

Phases == {"idle", "selectTarget", "writeEntry", "insertVersion", "updateEntry",
           "updateEnvironment", "commit"}

Outcomes == {"none", "ok", "conflict", "duplicate", "error"}

\* A row of config_entry_versions; from is rollbackFromVersion, 0 when null.
VersionRows == [key : Keys, version : Nat, value : Values, from : Nat]

\* A row of config_entries; current is the row currentVersionId points at.
EntryRows == [currentVersion : Nat, current : VersionRows, valueType : Values]

ASSUME NoneAssumption == None \notin Keys \cup Values \cup EntryRows

ConfigEvents == [type : EventTypes, key : Keys, version : Nat, revision : Nat,
                 checksum : Values]

AuditRows == [type : EventTypes, revision : Nat, expected : ExpectedVersions]

NoTransaction == [phase |-> "idle", event |-> "updated", audit |-> "updated",
                  expected |-> Omitted, key |-> None, base |-> 0, value |-> None,
                  from |-> 0, revision |-> 0]

CurrentVersion(k) == IF entries[k] = None THEN 0 ELSE entries[k].currentVersion

VersionsOf(k) == {r \in versions : r.key = k}

\* The version row the transaction of c inserts, with nextVersion = base + 1.
NewVersion(c) == [key |-> tx[c].key, version |-> tx[c].base + 1,
                  value |-> tx[c].value, from |-> tx[c].from]

\* Faulty: a rollback moves currentVersion but not currentVersionId.
EntryRowPointerKept(c) ==
    [currentVersion |-> tx[c].base + 1,
     current |-> IF tx[c].event = "rollback" THEN entries[tx[c].key].current
                                             ELSE NewVersion(c),
     valueType |-> tx[c].value]

\* The row of config_entries after its UPDATE.
EntryRow(c) == [currentVersion |-> tx[c].base + 1, current |-> NewVersion(c),
                valueType |-> tx[c].value]

\* The payload of the outbox row.
Event(c) == [type |-> tx[c].event, key |-> tx[c].key, version |-> tx[c].base + 1,
             revision |-> tx[c].revision, checksum |-> tx[c].value]

\* The audit row; the service fixed its type before the transaction.
AuditRow(c) == [type |-> tx[c].audit, revision |-> tx[c].revision,
                expected |-> tx[c].expected]

\* Faulty: every upsert is an update.
UpsertEventTypeFixed(k) == "updated"

\* What upsertEntry of the repository calls the write, from the row it read.
UpsertEventType(k) == IF entries[k] = None THEN "created" ELSE "updated"

\* Faulty: version 0 is not recognised as "the entry does not exist".
UpsertAuditTypeZeroMissed(expected) == IF expected = Null THEN "created" ELSE "updated"

\* What upsertEntry of the service calls it, from the request alone.
UpsertAuditType(expected) == IF expected \in {0, Null} THEN "created" ELSE "updated"

-----------------------------------------------------------------------------
(* Locks.  A transaction holds what its executed statements have locked.   *)

\* Faulty: a rollback updates the entry before it inserts the version.
HoldsEntryEarly(c) ==
    tx[c].phase \in {"insertVersion", "updateEntry", "updateEnvironment", "commit"}

HoldsEntry(c) ==
    \/ tx[c].phase \in {"updateEnvironment", "commit"}
    \/ tx[c].event # "rollback" /\ tx[c].phase \in {"insertVersion", "updateEntry"}

\* Faulty: the index key is not held until the entry has been updated.
HoldsVersionLate(c) == tx[c].phase \in {"updateEnvironment", "commit"}

HoldsVersion(c) == tx[c].phase \in {"updateEntry", "updateEnvironment", "commit"}

HoldsEnvironment(c) == tx[c].phase = "commit"

\* The next statement of c needs a row or an index key that d has locked.
Waits(c, d) ==
    /\ c # d
    /\ \/ /\ tx[c].phase \in {"writeEntry", "updateEntry"}
          /\ HoldsEntry(d)
          /\ tx[d].key = tx[c].key
       \/ /\ tx[c].phase = "insertVersion"
          /\ HoldsVersion(d)
          /\ tx[d].key = tx[c].key
          /\ tx[d].base = tx[c].base
       \/ /\ tx[c].phase = "updateEnvironment"
          /\ HoldsEnvironment(d)

Unblocked(c) == \A d \in Clients : ~Waits(c, d)

\* Every transaction of S waits for one of S and is waited for by one of S.
\* A statement waits for a single holder, so S is made of cycles.
WaitCycle(S) ==
    /\ S # {}
    /\ \A c \in S : /\ \E d \in S : Waits(c, d)
                    /\ \E d \in S : Waits(d, c)

-----------------------------------------------------------------------------
Init ==
    /\ entries = [k \in Keys |-> None]
    /\ versions = {}
    /\ revision = 0
    /\ outbox = {}
    /\ auditLog = {}
    /\ tx = [c \in Clients |-> NoTransaction]
    /\ outcome = "none"
    /\ snapshot = [r \in Readers |-> [phase |-> "idle", revision |-> 0,
                                      versions |-> [k \in Keys |-> 0]]]

\* c goes on to its next statement; nothing is committed or answered.
Advance(c, t) ==
    /\ tx' = [tx EXCEPT ![c] = t]
    /\ outcome' = "none"
    /\ UNCHANGED <<committed, snapshot>>

\* c's transaction ends without a trace and the caller is told why.
Abandon(c, answer) ==
    /\ tx' = [tx EXCEPT ![c] = NoTransaction]
    /\ outcome' = answer
    /\ UNCHANGED <<committed, snapshot>>

\* BEGIN; the SELECTs of the environment and of the entry, and the check of
\* expectedVersion.  The audit type is chosen by the service before the
\* transaction, the event type by the repository from what it has read.
UpsertSelect(c, k, v, expected) ==
    /\ tx[c].phase = "idle"
    /\ revision < MaxRevision
    /\ expected \in {Omitted, Null, CurrentVersion(k)}
    /\ Advance(c, [phase |-> "writeEntry",
                   event |-> UpsertEventType(k), audit |-> UpsertAuditType(expected),
                   expected |-> expected,
                   key |-> k, base |-> CurrentVersion(k), value |-> v, from |-> 0,
                   revision |-> 0])

\* ConfigVersionConflictError: the caller has not seen the current version.
UpsertConflict(c, k, expected) ==
    /\ tx[c].phase = "idle"
    /\ expected \notin {Omitted, Null, CurrentVersion(k)}
    /\ Abandon(c, "conflict")

\* BEGIN; the SELECT of the entry and the check of expectedVersion, which
\* rollback requests always carry.
RollbackSelect(c, k, target, expected) ==
    /\ tx[c].phase = "idle"
    /\ revision < MaxRevision
    /\ entries[k] # None
    /\ expected = CurrentVersion(k)
    /\ Advance(c, [phase |-> "selectTarget", event |-> "rollback",
                   audit |-> "rollback", expected |-> expected,
                   key |-> k, base |-> CurrentVersion(k), value |-> None,
                   from |-> target, revision |-> 0])

RollbackConflict(c, k, expected) ==
    /\ tx[c].phase = "idle"
    /\ entries[k] # None
    /\ expected # CurrentVersion(k)
    /\ Abandon(c, "conflict")

RollbackEntryNotFound(c, k) ==
    /\ tx[c].phase = "idle"
    /\ entries[k] = None
    /\ Abandon(c, "error")

\* The SELECT of the version to restore.
SelectTarget(c) ==
    /\ tx[c].phase = "selectTarget"
    /\ \/ \E r \in VersionsOf(tx[c].key) :
            /\ r.version = tx[c].from
            /\ Advance(c, [tx[c] EXCEPT !.phase = "insertVersion", !.value = r.value])
       \/ /\ \A r \in VersionsOf(tx[c].key) : r.version # tx[c].from
          /\ Abandon(c, "error")

\* UPDATE config_entries for an entry that was read, INSERT for one that was
\* not: the INSERT fails when the key has been committed in the meantime.
WriteEntry(c) ==
    /\ tx[c].phase = "writeEntry"
    /\ Unblocked(c)
    /\ IF tx[c].event = "created" /\ entries[tx[c].key] # None
         THEN Abandon(c, "duplicate")
         ELSE Advance(c, [tx[c] EXCEPT !.phase = "insertVersion"])

\* Faulty: without the unique index the row is always inserted.
InsertVersionUnindexed(c) ==
    /\ tx[c].phase = "insertVersion"
    /\ Unblocked(c)
    /\ Advance(c, [tx[c] EXCEPT !.phase = "updateEntry"])

\* Faulty: a pending row counts as a duplicate before its transaction has ended.
InsertVersionImpatient(c) ==
    /\ tx[c].phase = "insertVersion"
    /\ IF ~Unblocked(c) \/ \E r \in VersionsOf(tx[c].key) : r.version = tx[c].base + 1
         THEN Abandon(c, "duplicate")
         ELSE Advance(c, [tx[c] EXCEPT !.phase = "updateEntry"])

\* INSERT INTO config_entry_versions, unique on entry and version.
InsertVersion(c) ==
    /\ tx[c].phase = "insertVersion"
    /\ Unblocked(c)
    /\ IF \E r \in VersionsOf(tx[c].key) : r.version = tx[c].base + 1
         THEN Abandon(c, "duplicate")
         ELSE Advance(c, [tx[c] EXCEPT !.phase = "updateEntry"])

\* UPDATE config_entries with the new version; only a rollback can wait here.
UpdateEntry(c) ==
    /\ tx[c].phase = "updateEntry"
    /\ Unblocked(c)
    /\ Advance(c, [tx[c] EXCEPT !.phase = "updateEnvironment"])

\* UPDATE config_environments SET revision = revision + 1, evaluated by the
\* server on the newest committed row once the row lock is granted.
UpdateEnvironment(c) ==
    /\ tx[c].phase = "updateEnvironment"
    /\ Unblocked(c)
    /\ Advance(c, [tx[c] EXCEPT !.phase = "commit", !.revision = revision + 1])

\* The INSERTs of the outbox and audit rows, which lock nothing others need,
\* and COMMIT.  The answer may be lost on its way to the caller.
Commit(c) ==
    /\ tx[c].phase = "commit"
    /\ entries' = [entries EXCEPT ![tx[c].key] = EntryRow(c)]
    /\ versions' = versions \cup {NewVersion(c)}
    /\ revision' = tx[c].revision
    /\ outbox' = outbox \cup {Event(c)}
    /\ auditLog' = auditLog \cup {AuditRow(c)}
    /\ tx' = [tx EXCEPT ![c] = NoTransaction]
    /\ outcome' \in {"ok", "error"}
    /\ UNCHANGED snapshot

\* A lost connection, a crash of the API or any other error of a statement.
Fail(c) ==
    /\ tx[c].phase # "idle"
    /\ Abandon(c, "error")

\* Faulty: wait cycles are not looked for.
DeadlockUndetected(c) == FALSE /\ Abandon(c, "error")

\* PostgreSQL's deadlock detector aborts one transaction of a wait cycle.
DeadlockDetected(c) ==
    /\ \E S \in SUBSET Clients : c \in S /\ WaitCycle(S)
    /\ Abandon(c, "error")

-----------------------------------------------------------------------------
(* getEnvironmentSnapshot: two SELECTs outside any transaction.            *)

\* The entries are joined with their versions through currentVersionId.
PointedVersion(k) == IF entries[k] = None THEN 0 ELSE entries[k].current.version

SnapshotSelectEnvironment(r) ==
    /\ snapshot[r].phase # "entries"
    /\ snapshot' = [snapshot EXCEPT ![r] = [phase |-> "entries", revision |-> revision,
                                            versions |-> [k \in Keys |-> 0]]]
    /\ outcome' = "none"
    /\ UNCHANGED <<committed, tx>>

SnapshotSelectEntries(r) ==
    /\ snapshot[r].phase = "entries"
    /\ snapshot' = [snapshot EXCEPT ![r].phase = "done",
                        ![r].versions = [k \in Keys |-> PointedVersion(k)]]
    /\ outcome' = "none"
    /\ UNCHANGED <<committed, tx>>

-----------------------------------------------------------------------------
Request(c) ==
    \E k \in Keys : \E expected \in {Omitted, Null} \cup 0..MaxRevision :
        \/ \E v \in Values : UpsertSelect(c, k, v, expected)
        \/ UpsertConflict(c, k, expected)
        \/ \E target \in 1..MaxRevision : RollbackSelect(c, k, target, expected)
        \/ RollbackConflict(c, k, expected)
        \/ RollbackEntryNotFound(c, k)

Statement(c) ==
    \/ SelectTarget(c)
    \/ WriteEntry(c)
    \/ InsertVersion(c)
    \/ UpdateEntry(c)
    \/ UpdateEnvironment(c)
    \/ Commit(c)

Next ==
    \/ \E c \in Clients :
         Request(c) \/ Statement(c) \/ Fail(c) \/ DeadlockDetected(c)
    \/ \E r \in Readers :
         SnapshotSelectEnvironment(r) \/ SnapshotSelectEntries(r)

Spec == Init /\ [][Next]_vars

\* The server runs the statements of an open transaction, grants row locks in
\* the order they were asked for, and looks for wait cycles.
Fairness ==
    /\ \A c \in Clients : SF_vars(Statement(c))
    /\ WF_vars(\E c \in Clients : DeadlockDetected(c))

FairSpec == Spec /\ Fairness

-----------------------------------------------------------------------------
(* Properties.                                                             *)

Snapshots == [phase : {"idle", "entries", "done"}, revision : Nat,
              versions : [Keys -> Nat]]

Transactions == [phase : Phases, event : EventTypes, audit : EventTypes,
                 expected : ExpectedVersions, key : Keys \cup {None}, base : Nat,
                 value : Values \cup {None}, from : Nat, revision : Nat]

\* The types of the tables, of the open transactions and of the answers.
TypeOK ==
    /\ entries \in [Keys -> EntryRows \cup {None}]
    /\ versions \in SUBSET VersionRows
    /\ revision \in Nat
    /\ outbox \in SUBSET ConfigEvents
    /\ auditLog \in SUBSET AuditRows
    /\ tx \in [Clients -> Transactions]
    /\ outcome \in Outcomes
    /\ snapshot \in [Readers -> Snapshots]

\* The history of an entry has no gap and no fork: whatever the transactions
\* racing on it, its versions are 1, 2, ... up to the current one, once each.
VersionsContiguous ==
    \A k \in Keys :
        /\ \A r \in VersionsOf(k) : r.version \in 1..CurrentVersion(k)
        /\ \A n \in 1..CurrentVersion(k) : \E r \in VersionsOf(k) : r.version = n
        /\ \A r, s \in VersionsOf(k) : r.version = s.version => r = s

\* Each revision of the environment has been announced by exactly one event.
OneEventPerRevision ==
    /\ \A e \in outbox : e.revision \in 1..revision
    /\ \A n \in 1..revision : \E e \in outbox : e.revision = n
    /\ \A e, f \in outbox : e.revision = f.revision => e = f

\* A snapshot that says revision n holds every write of revision n or less,
\* although its two SELECTs do not see the same state of the database.
SnapshotCoversRevision ==
    \A r \in Readers : snapshot[r].phase = "done" =>
        \A e \in outbox :
            e.revision <= snapshot[r].revision =>
                snapshot[r].versions[e.key] >= e.version

\* The audit row of a write that named its expected version has the type of
\* the event of that write, though service and repository choose separately.
AuditAgreesWithEvent ==
    \A a \in auditLog : \A e \in outbox :
        a.expected \in Nat /\ a.revision = e.revision => a.type = e.type

\* An upsert, which locks the entry before the version, against a rollback of
\* the entry, which locks the version first.
UpsertAgainstRollback(c, d) ==
    /\ tx[c].event = "updated" /\ tx[c].phase = "insertVersion"
    /\ tx[d].event = "rollback" /\ tx[d].phase = "updateEntry"
    /\ tx[c].key = tx[d].key /\ tx[c].base = tx[d].base

\* Transactions wait in a circle only as pairs, each an upsert against a
\* rollback that read the same version of the same entry.
WaitCyclesAreUpsertAgainstRollback ==
    \A S \in SUBSET Clients : WaitCycle(S) =>
        \A c \in S : \E d \in S :
            UpsertAgainstRollback(c, d) \/ UpsertAgainstRollback(d, c)

\* No lost update: the version that a commit replaces is the version the
\* transaction read, and checked against expectedVersion, when it began.
NoLostUpdate ==
    [][\A c \in Clients : tx[c].phase = "commit" /\ versions' # versions
                            /\ tx'[c].phase = "idle"
         => /\ CurrentVersion(tx[c].key) = tx[c].base
            /\ entries'[tx[c].key].currentVersion = tx[c].base + 1
            /\ revision' = revision + 1]_vars

\* A duplicate key is only ever reported to a transaction whose entry has
\* moved on since it was read, never for a transaction that rolled back.
NoSpuriousDuplicate ==
    [][\A c \in Clients : outcome' = "duplicate" /\ tx'[c] # tx[c]
         => CurrentVersion(tx[c].key) > tx[c].base]_vars

\* Every transaction ends: row locks, index locks and wait cycles never leave
\* a request hanging.
TransactionsEnd ==
    \A c \in Clients : tx[c].phase # "idle" ~> tx[c].phase = "idle"

-----------------------------------------------------------------------------
(* The inductive invariant the proofs rest on.  VInv is VersionsContiguous *)
(* and OneEventPerRevision, strengthened by what open transactions know.   *)
(* RInv adds what the other records say of the versions and of each other. *)

\* A transaction past its SELECTs knows the entry and the value it writes.
TransactionsBound ==
    \A c \in Clients :
        /\ tx[c].phase # "idle" => tx[c].key \in Keys
        /\ tx[c].phase \notin {"idle", "selectTarget"} => tx[c].value \in Values

\* What a transaction has read is never ahead of the tables, and is still true
\* of them once it holds the index key of its version, or the environment row.
TransactionsCurrent ==
    \A c \in Clients :
        /\ tx[c].phase # "idle" => tx[c].base <= CurrentVersion(tx[c].key)
        /\ HoldsVersion(c) => tx[c].base = CurrentVersion(tx[c].key)
        /\ HoldsEnvironment(c) => tx[c].revision = revision + 1

\* Two transactions hold no index key of the same entry, nor the environment.
LocksExclusive ==
    \A c, d \in Clients : c # d =>
        /\ HoldsVersion(c) /\ HoldsVersion(d) => tx[c].key # tx[d].key
        /\ ~(HoldsEnvironment(c) /\ HoldsEnvironment(d))

\* A committed entry has a version.
EntriesHaveVersions ==
    \A k \in Keys : entries[k] # None => entries[k].currentVersion > 0

VInv ==
    /\ TypeOK
    /\ TransactionsBound
    /\ TransactionsCurrent
    /\ LocksExclusive
    /\ EntriesHaveVersions
    /\ VersionsContiguous
    /\ OneEventPerRevision

\* The entry row points at its newest version, and no event, audit row or
\* snapshot is ahead of the tables.
RecordsCurrent ==
    /\ \A k \in Keys : PointedVersion(k) = CurrentVersion(k)
    /\ \A e \in outbox : e.version <= CurrentVersion(e.key)
    /\ \A a \in auditLog : a.revision \in 1..revision
    /\ \A r \in Readers : snapshot[r].revision <= revision

\* What a transaction calls its write agrees with the version it has read, and
\* with what the service calls it for a request that named that version.
WriteNamed(t) ==
    /\ t.phase = "selectTarget" => t.event = "rollback"
    /\ t.event = "created" <=> t.base = 0
    /\ t.expected \in Nat => t.audit = t.event

\* A rollback past its SELECTs writes the value of the version it goes back to.
TargetRestored(t) ==
    t.event = "rollback" /\ t.phase # "selectTarget" =>
        \E r \in VersionsOf(t.key) : r.version = t.from /\ r.value = t.value

WritesDescribed ==
    \A c \in Clients :
        tx[c].phase # "idle" => WriteNamed(tx[c]) /\ TargetRestored(tx[c])

\* Two transactions hold no row lock of the same entry.
EntryLocksExclusive ==
    \A c, d \in Clients :
        c # d /\ HoldsEntry(c) /\ HoldsEntry(d) => tx[c].key # tx[d].key

RInv ==
    /\ RecordsCurrent
    /\ WritesDescribed
    /\ EntryLocksExclusive
    /\ SnapshotCoversRevision
    /\ AuditAgreesWithEvent

IInv == VInv /\ RInv

-----------------------------------------------------------------------------
(* Refinement: the committed tables as histories and a log of events.      *)

VersionRow(k, n) == CHOOSE r \in VersionsOf(k) : r.version = n

EventOf(n) == CHOOSE e \in outbox : e.revision = n

Store == INSTANCE ConfigStore WITH
    history <- [k \in Keys |->
                  [n \in 1..CurrentVersion(k) |-> VersionRow(k, n).value]],
    log <- [n \in 1..revision |->
              [type |-> EventOf(n).type, key |-> EventOf(n).key,
               version |-> EventOf(n).version]]

\* The interleaved transactions behave like the atomic writes of ConfigStore.
ImplementsStore == Store!Spec

================================================================================
