------------------------ MODULE ConfigRepositoryProofs ------------------------
(***************************************************************************)
(* Proofs about ConfigRepository, for any number of clients, readers,      *)
(* keys, values and revisions.                                             *)
(*                                                                         *)
(* The core of the inductive invariant is VInv: a transaction that holds   *)
(* the index key of the version it inserted has read the version that is   *)
(* still current.  The unique index let it in only because no later        *)
(* version was committed or pending, and as long as it holds the key no    *)
(* other transaction can commit a version of that entry.                   *)
(*                                                                         *)
(* RInv adds the other records: a write is called and described by what    *)
(* its transaction has read, and since that is still true at the commit,   *)
(* it is true of the tables.  The refinement of ConfigStore rests on both. *)
(***************************************************************************)
EXTENDS ConfigRepository, SequenceTheorems, TLAPS

\* Version numbers are natural numbers.
LEMMA CurrentVersionType ==
    ASSUME TypeOK, NEW k \in Keys
    PROVE  CurrentVersion(k) \in Nat /\ PointedVersion(k) \in Nat
BY DEF TypeOK, CurrentVersion, PointedVersion, EntryRows, VersionRows

\* The phases in which a transaction holds the index key of its version.
LEMMA HoldsVersionPhases ==
    ASSUME NEW c \in Clients
    PROVE  HoldsVersion(c) <=> tx[c].phase \in {"updateEntry", "updateEnvironment", "commit"}
BY DEF HoldsVersion

\* Ending a transaction without a commit keeps the invariant.
LEMMA AbandonStep ==
    ASSUME VInv, NEW c \in Clients, NEW a \in Outcomes, Abandon(c, a)
    PROVE  VInv'
<1> USE DEF VInv
<1>1. NoTransaction \in Transactions /\ NoTransaction.phase = "idle"
  BY DEF NoTransaction, Transactions, Phases, EventTypes, ExpectedVersions
<1>2. TypeOK'
  BY <1>1 DEF TypeOK, Abandon, committed
<1>3. /\ tx \in [Clients -> Transactions]
      /\ tx' = [tx EXCEPT ![c] = NoTransaction]
      /\ UNCHANGED <<entries, versions, revision, outbox>>
  BY DEF TypeOK, Abandon, committed
<1>4. TransactionsBound' /\ TransactionsCurrent' /\ LocksExclusive'
  BY <1>1, <1>3
     DEF TransactionsBound, TransactionsCurrent, LocksExclusive, HoldsVersion,
         HoldsEnvironment, CurrentVersion
<1>5. EntriesHaveVersions' /\ VersionsContiguous' /\ OneEventPerRevision'
  BY <1>3
     DEF EntriesHaveVersions, VersionsContiguous, OneEventPerRevision, VersionsOf,
         CurrentVersion
<1>6. QED
  BY <1>2, <1>4, <1>5

\* So does going on to the next statement, when what the transaction then
\* knows and holds is what the invariant says of it.
LEMMA AdvanceStep ==
    ASSUME VInv, NEW c \in Clients, NEW t \in Transactions, Advance(c, t),
           t.key \in Keys,
           t.base <= CurrentVersion(t.key),
           t.phase # "selectTarget" => t.value \in Values,
           t.phase \in {"updateEntry", "updateEnvironment", "commit"} =>
              /\ t.base = CurrentVersion(t.key)
              /\ \A d \in Clients : d # c /\ HoldsVersion(d) => tx[d].key # t.key,
           t.phase = "commit" =>
              /\ t.revision = revision + 1
              /\ \A d \in Clients : d # c => ~HoldsEnvironment(d)
    PROVE  VInv'
<1> USE DEF VInv
<1>1. TypeOK'
  BY DEF TypeOK, Advance, committed, Outcomes
<1>2. /\ tx \in [Clients -> Transactions]
      /\ tx' = [tx EXCEPT ![c] = t]
      /\ UNCHANGED <<entries, versions, revision, outbox>>
  BY DEF TypeOK, Advance, committed
<1>3. TransactionsBound'
  BY <1>2 DEF TransactionsBound
<1>4. TransactionsCurrent'
  BY <1>2 DEF TransactionsCurrent, HoldsVersion, HoldsEnvironment, CurrentVersion
<1>5. LocksExclusive'
  BY <1>2 DEF LocksExclusive, HoldsVersion, HoldsEnvironment
<1>6. EntriesHaveVersions' /\ VersionsContiguous' /\ OneEventPerRevision'
  BY <1>2
     DEF EntriesHaveVersions, VersionsContiguous, OneEventPerRevision, VersionsOf,
         CurrentVersion
<1>7. QED
  BY <1>1, <1>3, <1>4, <1>5, <1>6

\* A request that begins: its transaction has read the committed entry.
LEMMA RequestStep ==
    ASSUME VInv, NEW c \in Clients, Request(c)
    PROVE  VInv'
<1>1. ASSUME NEW k \in Keys, NEW v \in Values,
             NEW expected \in {Omitted, Null} \cup 0..MaxRevision,
             UpsertSelect(c, k, v, expected)
      PROVE  VInv'
  <2> DEFINE t == [phase |-> "writeEntry",
                   event |-> UpsertEventType(k), audit |-> UpsertAuditType(expected),
                   expected |-> expected,
                   key |-> k, base |-> CurrentVersion(k), value |-> v, from |-> 0,
                   revision |-> 0]
  <2>1. CurrentVersion(k) \in Nat
    BY CurrentVersionType DEF VInv
  <2>2. t \in Transactions
    BY <2>1
       DEF Transactions, Phases, EventTypes, ExpectedVersions, UpsertEventType,
           UpsertAuditType
  <2>3. Advance(c, t)
    BY <1>1 DEF UpsertSelect
  <2>4. QED
    BY <2>1, <2>2, <2>3, AdvanceStep
<1>2. ASSUME NEW k \in Keys, NEW target \in 1..MaxRevision,
             NEW expected \in {Omitted, Null} \cup 0..MaxRevision,
             RollbackSelect(c, k, target, expected)
      PROVE  VInv'
  <2> DEFINE t == [phase |-> "selectTarget", event |-> "rollback",
                   audit |-> "rollback", expected |-> expected,
                   key |-> k, base |-> CurrentVersion(k), value |-> None,
                   from |-> target, revision |-> 0]
  <2>1. CurrentVersion(k) \in Nat /\ target \in Nat
    BY CurrentVersionType, MaxRevisionAssumption DEF VInv
  <2>2. t \in Transactions
    BY <2>1 DEF Transactions, Phases, EventTypes, ExpectedVersions
  <2>3. Advance(c, t)
    BY <1>2 DEF RollbackSelect
  <2>4. QED
    BY <2>1, <2>2, <2>3, AdvanceStep
<1>3. ASSUME NEW a \in Outcomes, Abandon(c, a)
      PROVE  VInv'
  BY <1>3, AbandonStep
<1>4. QED
  BY <1>1, <1>2, <1>3
     DEF Request, UpsertConflict, RollbackConflict, RollbackEntryNotFound, Outcomes

\* The SELECT of the version to restore, and the write of the entry row.
LEMMA EarlyStatementStep ==
    ASSUME VInv, NEW c \in Clients, SelectTarget(c) \/ WriteEntry(c)
    PROVE  VInv'
<1> tx[c] \in Transactions
  BY DEF VInv, TypeOK
<1>1. /\ tx[c].key \in Keys
      /\ tx[c].base <= CurrentVersion(tx[c].key)
  BY DEF VInv, TransactionsBound, TransactionsCurrent, SelectTarget, WriteEntry
<1>2. CASE SelectTarget(c)
  <2>1. ASSUME NEW r \in VersionsOf(tx[c].key),
               Advance(c, [tx[c] EXCEPT !.phase = "insertVersion", !.value = r.value])
        PROVE  VInv'
    <3> DEFINE t == [tx[c] EXCEPT !.phase = "insertVersion", !.value = r.value]
    <3>1. r.value \in Values
      BY DEF VInv, TypeOK, VersionsOf, VersionRows
    <3>2. /\ t \in Transactions
          /\ t.phase = "insertVersion" /\ t.value \in Values
          /\ t.key = tx[c].key /\ t.base = tx[c].base
      BY <3>1 DEF Transactions, Phases
    <3> HIDE DEF t
    <3>3. QED
      BY <2>1, <3>2, <1>1, AdvanceStep DEF t
  <2>2. QED
    BY <1>2, <2>1, AbandonStep DEF SelectTarget, Outcomes
<1>3. CASE WriteEntry(c)
  <2> DEFINE t == [tx[c] EXCEPT !.phase = "insertVersion"]
  <2>1. tx[c].value \in Values
    BY <1>3 DEF VInv, TransactionsBound, WriteEntry
  <2>2. /\ t \in Transactions
        /\ t.phase = "insertVersion" /\ t.value = tx[c].value
        /\ t.key = tx[c].key /\ t.base = tx[c].base
    BY DEF Transactions, Phases
  <2>3. Advance(c, t) => VInv'
    <3> HIDE DEF t
    <3>1. QED
      BY <1>1, <2>1, <2>2, AdvanceStep
  <2>4. QED
    BY <1>3, <2>3, AbandonStep DEF WriteEntry, Outcomes
<1>4. QED
  BY <1>2, <1>3

\* The unique index on entry and version: a transaction gets past it only when
\* the version it read is still current and no other one is pending.
LEMMA InsertVersionStep ==
    ASSUME VInv, NEW c \in Clients, InsertVersion(c)
    PROVE  VInv'
<1> DEFINE k == tx[c].key
           t == [tx[c] EXCEPT !.phase = "updateEntry"]
<1> tx[c] \in Transactions
  BY DEF VInv, TypeOK
<1>1. /\ k \in Keys
      /\ tx[c].base \in Nat /\ tx[c].base <= CurrentVersion(k)
      /\ tx[c].value \in Values
  BY DEF VInv, TransactionsBound, TransactionsCurrent, InsertVersion, Transactions
<1>2. CurrentVersion(k) \in Nat
  BY <1>1, CurrentVersionType DEF VInv
<1>3. CASE \E r \in VersionsOf(k) : r.version = tx[c].base + 1
  BY <1>3, AbandonStep DEF InsertVersion, Outcomes
<1>4. CASE ~ \E r \in VersionsOf(k) : r.version = tx[c].base + 1
  <2>1. tx[c].base + 1 \notin 1..CurrentVersion(k)
    BY <1>1, <1>4 DEF VInv, VersionsContiguous
  <2>2. tx[c].base = CurrentVersion(k)
    BY <1>1, <1>2, <2>1
  <2>3. ASSUME NEW d \in Clients, d # c, HoldsVersion(d)
        PROVE  tx[d].key # k
    <3>1. ~Waits(c, d)
      BY DEF InsertVersion, Unblocked
    <3>2. tx[d].base = CurrentVersion(tx[d].key)
      BY <2>3 DEF VInv, TransactionsCurrent
    <3>3. QED
      BY <2>2, <2>3, <3>1, <3>2 DEF Waits, InsertVersion
  <2>4. /\ t \in Transactions
        /\ t.phase = "updateEntry" /\ t.value = tx[c].value
        /\ t.key = k /\ t.base = tx[c].base
    BY DEF Transactions, Phases
  <2>5. Advance(c, t)
    BY <1>4 DEF InsertVersion
  <2> HIDE DEF t
  <2>6. QED
    BY <1>1, <2>2, <2>3, <2>4, <2>5, AdvanceStep
<1>5. QED
  BY <1>3, <1>4

\* The two UPDATEs: the locks a transaction holds already stay its own.
LEMMA UpdateStep ==
    ASSUME VInv, NEW c \in Clients, UpdateEntry(c) \/ UpdateEnvironment(c)
    PROVE  VInv'
<1> DEFINE k == tx[c].key
<1> tx[c] \in Transactions
  BY DEF VInv, TypeOK
<1>1. HoldsVersion(c)
  BY DEF UpdateEntry, UpdateEnvironment, HoldsVersion
<1>2. /\ k \in Keys
      /\ tx[c].base = CurrentVersion(k)
      /\ tx[c].value \in Values
  BY <1>1
     DEF VInv, TransactionsBound, TransactionsCurrent, UpdateEntry, UpdateEnvironment
<1>3. \A d \in Clients : d # c /\ HoldsVersion(d) => tx[d].key # k
  BY <1>1 DEF VInv, LocksExclusive
<1>4. CurrentVersion(k) \in Nat
  BY <1>2, CurrentVersionType DEF VInv
<1>5. CASE UpdateEntry(c)
  <2> DEFINE t == [tx[c] EXCEPT !.phase = "updateEnvironment"]
  <2>1. /\ t \in Transactions
        /\ t.phase = "updateEnvironment" /\ t.value = tx[c].value
        /\ t.key = k /\ t.base = tx[c].base
    BY DEF Transactions, Phases
  <2>2. Advance(c, t)
    BY <1>5 DEF UpdateEntry
  <2> HIDE DEF t
  <2>3. QED
    BY <1>2, <1>3, <1>4, <2>1, <2>2, AdvanceStep
<1>6. CASE UpdateEnvironment(c)
  <2> DEFINE t == [tx[c] EXCEPT !.phase = "commit", !.revision = revision + 1]
  <2>1. revision + 1 \in Nat
    BY DEF VInv, TypeOK
  <2>2. /\ t \in Transactions
        /\ t.phase = "commit" /\ t.value = tx[c].value
        /\ t.key = k /\ t.base = tx[c].base /\ t.revision = revision + 1
    BY <2>1 DEF Transactions, Phases
  <2>3. Advance(c, t)
    BY <1>6 DEF UpdateEnvironment
  <2>4. \A d \in Clients : d # c => ~HoldsEnvironment(d)
    BY <1>6 DEF UpdateEnvironment, Unblocked, Waits
  <2> HIDE DEF t
  <2>5. QED
    BY <1>2, <1>3, <1>4, <2>2, <2>3, <2>4, AdvanceStep
<1>7. QED
  BY <1>5, <1>6

\* What a committing transaction knows of the tables.
LEMMA CommitFacts ==
    ASSUME VInv, NEW c \in Clients, Commit(c)
    PROVE  /\ tx[c].key \in Keys
           /\ tx[c].value \in Values
           /\ tx[c].base \in Nat
           /\ tx[c].base = CurrentVersion(tx[c].key)
           /\ tx[c].revision = revision + 1
           /\ NewVersion(c) \in VersionRows
           /\ NewVersion(c).key = tx[c].key
           /\ NewVersion(c).version = tx[c].base + 1
           /\ \A d \in Clients : d # c /\ HoldsVersion(d) => tx[d].key # tx[c].key
           /\ \A d \in Clients : d # c => ~HoldsEnvironment(d)
<1> tx[c] \in Transactions
  BY DEF VInv, TypeOK
<1>1. HoldsVersion(c) /\ HoldsEnvironment(c)
  BY DEF Commit, HoldsVersion, HoldsEnvironment
<1>2. /\ tx[c].key \in Keys /\ tx[c].value \in Values
      /\ tx[c].base \in Nat /\ tx[c].from \in Nat
      /\ tx[c].base = CurrentVersion(tx[c].key)
      /\ tx[c].revision = revision + 1
  BY <1>1 DEF VInv, TransactionsBound, TransactionsCurrent, Commit, Transactions
<1>3. /\ \A d \in Clients : d # c /\ HoldsVersion(d) => tx[d].key # tx[c].key
      /\ \A d \in Clients : d # c => ~HoldsEnvironment(d)
  BY <1>1 DEF VInv, LocksExclusive
<1>4. QED
  BY <1>2, <1>3 DEF NewVersion, VersionRows

\* A commit appends one version to one entry and one event to the log.
LEMMA CommitStep ==
    ASSUME VInv, NEW c \in Clients, Commit(c)
    PROVE  VInv'
<1>0. PICK k \in Keys : k = tx[c].key
  BY CommitFacts
<1> DEFINE row == [currentVersion |-> tx[c].base + 1, current |-> NewVersion(c),
                   valueType |-> tx[c].value]
           event == [type |-> tx[c].event, key |-> k, version |-> tx[c].base + 1,
                     revision |-> tx[c].revision, checksum |-> tx[c].value]
<1> tx[c] \in Transactions
  BY DEF VInv, TypeOK
<1>1. /\ k \in Keys /\ tx[c].value \in Values /\ tx[c].base \in Nat
      /\ tx[c].base = CurrentVersion(k)
      /\ tx[c].revision = revision + 1
      /\ NewVersion(c) \in VersionRows
      /\ NewVersion(c).key = k /\ NewVersion(c).version = tx[c].base + 1
      /\ \A d \in Clients : d # c /\ HoldsVersion(d) => tx[d].key # k
      /\ \A d \in Clients : d # c => ~HoldsEnvironment(d)
  BY <1>0, CommitFacts
<1>2. /\ entries \in [Keys -> EntryRows \cup {None}]
      /\ tx \in [Clients -> Transactions]
      /\ revision \in Nat
  BY DEF VInv, TypeOK
<1>3. /\ entries' = [entries EXCEPT ![k] = row]
      /\ versions' = versions \cup {NewVersion(c)}
      /\ revision' = revision + 1
      /\ outbox' = outbox \cup {event}
      /\ tx' = [tx EXCEPT ![c] = NoTransaction]
  BY <1>0, <1>1 DEF Commit, EntryRow, Event
<1>4. NoTransaction \in Transactions /\ NoTransaction.phase = "idle"
  BY DEF NoTransaction, Transactions, Phases, EventTypes, ExpectedVersions
<1>5. row \in EntryRows
  BY <1>1 DEF EntryRows
<1>6. TypeOK'
  <2>1. event \in ConfigEvents
    BY <1>1, <1>2 DEF ConfigEvents, Transactions
  <2>2. auditLog' \in SUBSET AuditRows
    BY DEF Commit, AuditRow, VInv, TypeOK, AuditRows, Transactions
  <2>3. outcome' \in Outcomes /\ snapshot' = snapshot
    BY DEF Commit, Outcomes
  <2> HIDE DEF event, row
  <2>4. QED
    BY <1>1, <1>2, <1>3, <1>4, <1>5, <2>1, <2>2, <2>3 DEF VInv, TypeOK
<1>7. /\ CurrentVersion(k)' = CurrentVersion(k) + 1
      /\ \A j \in Keys : j # k => CurrentVersion(j)' = CurrentVersion(j)
  <2>1. entries'[k] = row /\ row # None
    BY <1>1, <1>2, <1>3, <1>5, NoneAssumption
  <2>2. QED
    <3>1. CurrentVersion(k)' = tx[c].base + 1
      BY <2>1 DEF CurrentVersion
    <3>2. \A j \in Keys : j # k => entries'[j] = entries[j]
      BY <1>2, <1>3
    <3>3. QED
      BY <1>1, <3>1, <3>2 DEF CurrentVersion
<1>8. TransactionsBound' /\ LocksExclusive'
  BY <1>2, <1>3, <1>4
     DEF VInv, TransactionsBound, LocksExclusive, HoldsVersion, HoldsEnvironment
<1>9. TransactionsCurrent'
  <2> SUFFICES ASSUME NEW d \in Clients
               PROVE  (/\ tx[d].phase # "idle" => tx[d].base <= CurrentVersion(tx[d].key)
                       /\ HoldsVersion(d) => tx[d].base = CurrentVersion(tx[d].key)
                       /\ HoldsEnvironment(d) => tx[d].revision = revision + 1)'
    BY DEF TransactionsCurrent
  <2>1. CASE d = c
    BY <2>1, <1>2, <1>3, <1>4 DEF HoldsVersion, HoldsEnvironment
  <2>2. CASE d # c
    <3>1. tx'[d] = tx[d] /\ tx[d] \in Transactions
      BY <2>2, <1>2, <1>3
    <3>2. ~HoldsEnvironment(d)
      BY <2>2, <1>1
    <3>3. HoldsVersion(d) => tx[d].key # k
      BY <2>2, <1>1
    <3>4. CASE tx[d].phase = "idle"
      BY <3>1, <3>4 DEF HoldsVersion, HoldsEnvironment
    <3>5. CASE tx[d].phase # "idle"
      <4>0. PICK j \in Keys : j = tx[d].key
        BY <3>1, <3>5 DEF VInv, TransactionsBound
      <4>1. /\ tx[d].base \in Nat
            /\ tx[d].base <= CurrentVersion(j)
            /\ HoldsVersion(d) => tx[d].base = CurrentVersion(j)
        BY <3>1, <3>5, <4>0 DEF VInv, TransactionsCurrent, Transactions
      <4>2. CurrentVersion(j) \in Nat /\ CurrentVersion(k) \in Nat
        BY CurrentVersionType DEF VInv
      <4>3. tx[d].base <= CurrentVersion(j)'
        <5>1. CASE j = k
          BY <5>1, <4>1, <4>2, <1>7
        <5>2. CASE j # k
          BY <5>2, <4>1, <1>7
        <5>3. QED
          BY <5>1, <5>2
      <4>4. HoldsVersion(d) => tx[d].base = CurrentVersion(j)'
        BY <3>3, <4>0, <4>1, <1>7
      <4>5. QED
        BY <3>1, <3>2, <4>0, <4>3, <4>4 DEF HoldsVersion, HoldsEnvironment, CurrentVersion
    <3>6. QED
      BY <3>4, <3>5
  <2>3. QED
    BY <2>1, <2>2
<1>10. EntriesHaveVersions'
  BY <1>1, <1>2, <1>3 DEF VInv, EntriesHaveVersions
<1>11. VersionsContiguous'
  <2> SUFFICES ASSUME NEW j \in Keys
               PROVE  (/\ \A r \in VersionsOf(j) : r.version \in 1..CurrentVersion(j)
                       /\ \A n \in 1..CurrentVersion(j) :
                            \E r \in VersionsOf(j) : r.version = n
                       /\ \A r, s \in VersionsOf(j) : r.version = s.version => r = s)'
    BY DEF VersionsContiguous
  <2>1. /\ \A r \in VersionsOf(j) : r.version \in 1..CurrentVersion(j)
        /\ \A n \in 1..CurrentVersion(j) : \E r \in VersionsOf(j) : r.version = n
        /\ \A r, s \in VersionsOf(j) : r.version = s.version => r = s
    BY DEF VInv, VersionsContiguous
  <2>2. CurrentVersion(j) \in Nat
    BY CurrentVersionType DEF VInv
  <2>3. CASE j = k
    <3>1. VersionsOf(j)' = VersionsOf(j) \cup {NewVersion(c)}
      BY <1>1, <1>3, <2>3 DEF VersionsOf
    <3>2. CurrentVersion(j)' = CurrentVersion(j) + 1
      BY <1>7, <2>3
    <3>3. NewVersion(c).version = CurrentVersion(j) + 1
      BY <1>1, <2>3
    <3>4. QED
      BY <2>1, <2>2, <3>1, <3>2, <3>3
  <2>4. CASE j # k
    <3>1. VersionsOf(j)' = VersionsOf(j)
      BY <1>1, <1>3, <2>4 DEF VersionsOf
    <3>2. CurrentVersion(j)' = CurrentVersion(j)
      BY <1>7, <2>4
    <3>3. QED
      BY <2>1, <3>1, <3>2
  <2>5. QED
    BY <2>3, <2>4
<1>12. OneEventPerRevision'
  <2>1. event.revision = revision + 1
    BY <1>1
  <2> HIDE DEF event
  <2>2. QED
    BY <1>2, <1>3, <2>1 DEF VInv, OneEventPerRevision
<1>13. QED
  BY <1>6, <1>8, <1>9, <1>10, <1>11, <1>12 DEF VInv

\* The versions, the events and what open transactions know of them agree in
\* every reachable state.
LEMMA VersionsInvariance == Spec => []VInv
<1>1. Init => VInv
  <2> SUFFICES ASSUME Init
               PROVE  VInv
    OBVIOUS
  <2>1. NoTransaction \in Transactions /\ NoTransaction.phase = "idle"
    BY DEF NoTransaction, Transactions, Phases, EventTypes, ExpectedVersions
  <2>2. TypeOK
    BY <2>1 DEF Init, TypeOK, Outcomes, Snapshots
  <2>3. TransactionsBound /\ TransactionsCurrent /\ LocksExclusive
    BY <2>1 DEF Init, TransactionsBound, TransactionsCurrent, LocksExclusive,
                HoldsVersion, HoldsEnvironment
  <2>4. EntriesHaveVersions /\ VersionsContiguous /\ OneEventPerRevision
    BY DEF Init, EntriesHaveVersions, VersionsContiguous, OneEventPerRevision,
           VersionsOf, CurrentVersion
  <2>5. QED
    BY <2>2, <2>3, <2>4 DEF VInv
<1>2. VInv /\ [Next]_vars => VInv'
  <2> SUFFICES ASSUME VInv, [Next]_vars
               PROVE  VInv'
    OBVIOUS
  <2>1. ASSUME NEW c \in Clients, Request(c)
        PROVE  VInv'
    BY <2>1, RequestStep
  <2>2. ASSUME NEW c \in Clients, Statement(c)
        PROVE  VInv'
    BY <2>2, EarlyStatementStep, InsertVersionStep, UpdateStep, CommitStep DEF Statement
  <2>3. ASSUME NEW c \in Clients, Fail(c) \/ DeadlockDetected(c)
        PROVE  VInv'
    BY <2>3, AbandonStep DEF Fail, DeadlockDetected, Outcomes
  <2>4. ASSUME NEW r \in Readers,
               SnapshotSelectEnvironment(r) \/ SnapshotSelectEntries(r)
        PROVE  VInv'
    <3>1. TypeOK'
      <4>1. [k \in Keys |-> PointedVersion(k)] \in [Keys -> Nat]
        BY CurrentVersionType DEF VInv
      <4>2. /\ UNCHANGED <<entries, versions, revision, outbox, auditLog, tx>>
            /\ outcome' \in Outcomes
        BY <2>4
           DEF SnapshotSelectEnvironment, SnapshotSelectEntries, committed, Outcomes
      <4>3. snapshot' \in [Readers -> Snapshots]
        <5>1. snapshot \in [Readers -> Snapshots] /\ revision \in Nat
          BY DEF VInv, TypeOK
        <5>2. CASE SnapshotSelectEnvironment(r)
          BY <5>1, <5>2 DEF SnapshotSelectEnvironment, Snapshots
        <5>3. CASE SnapshotSelectEntries(r)
          <6> DEFINE read == [k \in Keys |-> PointedVersion(k)]
          <6>1. snapshot' = [snapshot EXCEPT ![r] =
                               [snapshot[r] EXCEPT !.phase = "done", !.versions = read]]
            BY <5>1, <5>3 DEF SnapshotSelectEntries, Snapshots
          <6> HIDE DEF read
          <6>2. QED
            BY <4>1, <5>1, <6>1 DEF read, Snapshots
        <5>4. QED
          BY <2>4, <5>2, <5>3
      <4>4. QED
        BY <4>2, <4>3 DEF VInv, TypeOK
    <3>2. UNCHANGED <<entries, versions, revision, outbox, tx>>
      BY <2>4 DEF SnapshotSelectEnvironment, SnapshotSelectEntries, committed
    <3>3. QED
      BY <3>1, <3>2
         DEF VInv, TransactionsBound, TransactionsCurrent, LocksExclusive, HoldsVersion,
             HoldsEnvironment, EntriesHaveVersions, VersionsContiguous,
             OneEventPerRevision, VersionsOf, CurrentVersion
  <2>5. CASE UNCHANGED vars
    BY <2>5
       DEF vars, VInv, TypeOK, TransactionsBound, TransactionsCurrent, LocksExclusive,
           HoldsVersion, HoldsEnvironment, EntriesHaveVersions, VersionsContiguous,
           OneEventPerRevision, VersionsOf, CurrentVersion
  <2>6. QED
    BY <2>1, <2>2, <2>3, <2>4, <2>5 DEF Next
<1>3. QED
  BY <1>1, <1>2, PTL DEF Spec

\* Whatever the transactions racing on an entry, its versions are 1, 2, ... up
\* to the current one, once each.
THEOREM VersionsAreContiguous == Spec => []VersionsContiguous
<1>1. VInv => VersionsContiguous
  BY DEF VInv
<1>2. QED
  BY <1>1, VersionsInvariance, PTL

\* Each revision of the environment has been announced by exactly one event.
THEOREM RevisionsAreAnnounced == Spec => []OneEventPerRevision
<1>1. VInv => OneEventPerRevision
  BY DEF VInv
<1>2. QED
  BY <1>1, VersionsInvariance, PTL

\* Only a commit writes to the tables.
LEMMA OnlyCommitWrites ==
    ASSUME [Next]_vars, \A c \in Clients : ~Commit(c)
    PROVE  UNCHANGED committed
<1>1. ASSUME NEW c, NEW t, Advance(c, t)
      PROVE  UNCHANGED committed
  BY <1>1 DEF Advance
<1>2. ASSUME NEW c, NEW a, Abandon(c, a)
      PROVE  UNCHANGED committed
  BY <1>2 DEF Abandon
<1>3. ASSUME NEW c \in Clients, Request(c)
      PROVE  UNCHANGED committed
  <2>1. ASSUME NEW k, NEW v, NEW expected, UpsertSelect(c, k, v, expected)
        PROVE  UNCHANGED committed
    BY <2>1, <1>1 DEF UpsertSelect
  <2>2. ASSUME NEW k, NEW target, NEW expected, RollbackSelect(c, k, target, expected)
        PROVE  UNCHANGED committed
    BY <2>2, <1>1 DEF RollbackSelect
  <2>3. ASSUME NEW k, NEW expected,
               \/ UpsertConflict(c, k, expected)
               \/ RollbackConflict(c, k, expected)
               \/ RollbackEntryNotFound(c, k)
        PROVE  UNCHANGED committed
    BY <2>3, <1>2 DEF UpsertConflict, RollbackConflict, RollbackEntryNotFound
  <2>4. QED
    BY <1>3, <2>1, <2>2, <2>3 DEF Request
<1>4. ASSUME NEW c \in Clients, SelectTarget(c)
      PROVE  UNCHANGED committed
  BY <1>4, <1>1, <1>2 DEF SelectTarget
<1>5. ASSUME NEW c \in Clients, WriteEntry(c) \/ InsertVersion(c)
      PROVE  UNCHANGED committed
  BY <1>5, <1>1, <1>2 DEF WriteEntry, InsertVersion
<1>6. ASSUME NEW c \in Clients, UpdateEntry(c) \/ UpdateEnvironment(c)
      PROVE  UNCHANGED committed
  BY <1>6, <1>1 DEF UpdateEntry, UpdateEnvironment
<1>7. ASSUME NEW c \in Clients, Fail(c) \/ DeadlockDetected(c)
      PROVE  UNCHANGED committed
  BY <1>7, <1>2 DEF Fail, DeadlockDetected
<1>8. ASSUME NEW r \in Readers, SnapshotSelectEnvironment(r) \/ SnapshotSelectEntries(r)
      PROVE  UNCHANGED committed
  BY <1>8 DEF SnapshotSelectEnvironment, SnapshotSelectEntries
<1>9. CASE UNCHANGED vars
  BY <1>9 DEF vars, committed
<1>10. QED
  BY <1>3, <1>4, <1>5, <1>6, <1>7, <1>8, <1>9 DEF Next, Statement

\* No lost update: the version a commit replaces is the one its transaction
\* read when it began, and the commit advances version and revision by one.
THEOREM NoUpdateIsLost == Spec => NoLostUpdate
<1> DEFINE Kept(c) ==
      tx[c].phase = "commit" /\ versions' # versions /\ tx'[c].phase = "idle"
         => /\ CurrentVersion(tx[c].key) = tx[c].base
            /\ entries'[tx[c].key].currentVersion = tx[c].base + 1
            /\ revision' = revision + 1
<1>1. ASSUME VInv, [Next]_vars, NEW c \in Clients
      PROVE  Kept(c)
  <2> SUFFICES ASSUME tx[c].phase = "commit", versions' # versions, tx'[c].phase = "idle"
               PROVE  /\ CurrentVersion(tx[c].key) = tx[c].base
                      /\ entries'[tx[c].key].currentVersion = tx[c].base + 1
                      /\ revision' = revision + 1
    OBVIOUS
  <2>1. PICK d \in Clients : Commit(d)
    BY <1>1, OnlyCommitWrites DEF committed
  <2>2. d = c
    BY <1>1, <2>1 DEF VInv, TypeOK, Commit
  <2>3. entries \in [Keys -> EntryRows \cup {None}]
    BY <1>1 DEF VInv, TypeOK
  <2>4. /\ tx[c].key \in Keys /\ tx[c].base = CurrentVersion(tx[c].key)
        /\ tx[c].revision = revision + 1
    BY <1>1, <2>1, <2>2, CommitFacts
  <2>5. QED
    BY <2>1, <2>2, <2>3, <2>4 DEF Commit, EntryRow
<1>2. VInv /\ [Next]_vars => [\A c \in Clients : Kept(c)]_vars
  BY <1>1
<1>3. QED
  BY <1>2, VersionsInvariance, PTL DEF Spec, NoLostUpdate

-----------------------------------------------------------------------------
(* The records besides the versions.                                       *)

\* Ending a transaction without a commit keeps the records.
LEMMA AbandonRecords ==
    ASSUME VInv, RInv, NEW c \in Clients, NEW a \in Outcomes, Abandon(c, a)
    PROVE  RInv'
<1> USE DEF RInv
<1>1. /\ tx \in [Clients -> Transactions]
      /\ tx' = [tx EXCEPT ![c] = NoTransaction]
      /\ UNCHANGED <<entries, versions, revision, outbox, auditLog, snapshot>>
  BY DEF VInv, TypeOK, Abandon, committed
<1>2. NoTransaction.phase = "idle" /\ NoTransaction.event # "rollback"
  BY DEF NoTransaction
<1>3. RecordsCurrent' /\ SnapshotCoversRevision' /\ AuditAgreesWithEvent'
  BY <1>1
     DEF RecordsCurrent, SnapshotCoversRevision, AuditAgreesWithEvent, PointedVersion,
         CurrentVersion
<1>4. WritesDescribed'
  BY <1>1, <1>2 DEF WritesDescribed, WriteNamed, TargetRestored, VersionsOf
<1>5. EntryLocksExclusive'
  BY <1>1, <1>2 DEF EntryLocksExclusive, HoldsEntry
<1>6. QED
  BY <1>3, <1>4, <1>5

\* So does going on to the next statement with a write that is described, and
\* with a row lock that no other transaction holds.
LEMMA AdvanceRecords ==
    ASSUME VInv, RInv, NEW c \in Clients, NEW t \in Transactions, Advance(c, t),
           WriteNamed(t), TargetRestored(t),
           (\/ t.phase \in {"updateEnvironment", "commit"}
            \/ t.event # "rollback" /\ t.phase \in {"insertVersion", "updateEntry"})
             => \A d \in Clients : d # c /\ HoldsEntry(d) => tx[d].key # t.key
    PROVE  RInv'
<1> USE DEF RInv
<1>1. /\ tx \in [Clients -> Transactions]
      /\ tx' = [tx EXCEPT ![c] = t]
      /\ UNCHANGED <<entries, versions, revision, outbox, auditLog, snapshot>>
  BY DEF VInv, TypeOK, Advance, committed
<1>2. RecordsCurrent' /\ SnapshotCoversRevision' /\ AuditAgreesWithEvent'
  BY <1>1
     DEF RecordsCurrent, SnapshotCoversRevision, AuditAgreesWithEvent, PointedVersion,
         CurrentVersion
<1>3. WritesDescribed'
  BY <1>1 DEF WritesDescribed, WriteNamed, TargetRestored, VersionsOf
<1>4. EntryLocksExclusive'
  BY <1>1 DEF EntryLocksExclusive, HoldsEntry
<1>5. QED
  BY <1>2, <1>3, <1>4

\* A request that begins: its write is called after what was read.
LEMMA RequestRecords ==
    ASSUME VInv, RInv, NEW c \in Clients, Request(c)
    PROVE  RInv'
<1>1. ASSUME NEW k \in Keys, NEW v \in Values,
             NEW expected \in {Omitted, Null} \cup 0..MaxRevision,
             UpsertSelect(c, k, v, expected)
      PROVE  RInv'
  <2> DEFINE t == [phase |-> "writeEntry",
                   event |-> UpsertEventType(k), audit |-> UpsertAuditType(expected),
                   expected |-> expected,
                   key |-> k, base |-> CurrentVersion(k), value |-> v, from |-> 0,
                   revision |-> 0]
  <2>1. /\ CurrentVersion(k) \in Nat
        /\ entries[k] = None <=> CurrentVersion(k) = 0
    BY CurrentVersionType DEF VInv, EntriesHaveVersions, CurrentVersion
  <2>2. /\ t \in Transactions
        /\ t.phase = "writeEntry" /\ t.event # "rollback"
    BY <2>1
       DEF Transactions, Phases, EventTypes, ExpectedVersions, UpsertEventType,
           UpsertAuditType
  <2>3. expected \in Nat => expected = CurrentVersion(k)
    BY <1>1 DEF UpsertSelect, Omitted, Null
  <2>4. WriteNamed(t) /\ TargetRestored(t)
    BY <2>1, <2>2, <2>3
       DEF WriteNamed, TargetRestored, UpsertEventType, UpsertAuditType, Null
  <2>5. Advance(c, t)
    BY <1>1 DEF UpsertSelect
  <2> HIDE DEF t
  <2>6. QED
    BY <2>2, <2>4, <2>5, AdvanceRecords
<1>2. ASSUME NEW k \in Keys, NEW target \in 1..MaxRevision,
             NEW expected \in {Omitted, Null} \cup 0..MaxRevision,
             RollbackSelect(c, k, target, expected)
      PROVE  RInv'
  <2> DEFINE t == [phase |-> "selectTarget", event |-> "rollback",
                   audit |-> "rollback", expected |-> expected,
                   key |-> k, base |-> CurrentVersion(k), value |-> None,
                   from |-> target, revision |-> 0]
  <2>1. CurrentVersion(k) \in Nat /\ CurrentVersion(k) # 0 /\ target \in Nat
    BY <1>2, CurrentVersionType, MaxRevisionAssumption
       DEF VInv, EntriesHaveVersions, CurrentVersion, RollbackSelect
  <2>2. /\ t \in Transactions
        /\ t.phase = "selectTarget" /\ WriteNamed(t) /\ TargetRestored(t)
    BY <2>1
       DEF Transactions, Phases, EventTypes, ExpectedVersions, WriteNamed, TargetRestored
  <2>3. Advance(c, t)
    BY <1>2 DEF RollbackSelect
  <2> HIDE DEF t
  <2>4. QED
    BY <2>2, <2>3, AdvanceRecords
<1>3. ASSUME NEW a \in Outcomes, Abandon(c, a)
      PROVE  RInv'
  BY <1>3, AbandonRecords
<1>4. QED
  BY <1>1, <1>2, <1>3
     DEF Request, UpsertConflict, RollbackConflict, RollbackEntryNotFound, Outcomes

\* The statements before the commit: a row lock is taken only when it is free,
\* and the value of a rollback is that of its target.
LEMMA StatementRecords ==
    ASSUME VInv, RInv, NEW c \in Clients,
           \/ SelectTarget(c)
           \/ WriteEntry(c)
           \/ InsertVersion(c)
           \/ UpdateEntry(c)
           \/ UpdateEnvironment(c)
    PROVE  RInv'
<1> tx[c] \in Transactions
  BY DEF VInv, TypeOK
<1>1. WriteNamed(tx[c]) /\ TargetRestored(tx[c])
  BY DEF RInv, WritesDescribed, SelectTarget, WriteEntry, InsertVersion, UpdateEntry,
         UpdateEnvironment
<1>2. ASSUME NEW a \in Outcomes, Abandon(c, a)
      PROVE  RInv'
  BY <1>2, AbandonRecords
<1>3. CASE SelectTarget(c)
  <2>1. ASSUME NEW r \in VersionsOf(tx[c].key), r.version = tx[c].from,
               Advance(c, [tx[c] EXCEPT !.phase = "insertVersion", !.value = r.value])
        PROVE  RInv'
    <3> DEFINE t == [tx[c] EXCEPT !.phase = "insertVersion", !.value = r.value]
    <3>1. r.value \in Values
      BY DEF VInv, TypeOK, VersionsOf, VersionRows
    <3>2. /\ t \in Transactions
          /\ t.phase = "insertVersion" /\ t.value = r.value
          /\ t.key = tx[c].key /\ t.from = tx[c].from /\ t.event = tx[c].event
          /\ t.base = tx[c].base /\ t.expected = tx[c].expected /\ t.audit = tx[c].audit
      BY <3>1 DEF Transactions, Phases
    <3> HIDE DEF t
    <3>3. t.event = "rollback"
      BY <1>1, <1>3, <3>2 DEF WriteNamed, SelectTarget
    <3>4. WriteNamed(t) /\ TargetRestored(t)
      BY <1>1, <2>1, <3>2 DEF WriteNamed, TargetRestored
    <3>5. QED
      BY <2>1, <3>2, <3>3, <3>4, AdvanceRecords DEF t
  <2>2. QED
    BY <1>2, <1>3, <2>1 DEF SelectTarget, Outcomes
<1>4. CASE ~SelectTarget(c)
  <2>1. ASSUME NEW p \in {"insertVersion", "updateEntry", "updateEnvironment", "commit"},
               NEW n \in Nat,
               tx[c].phase # "selectTarget",
               Advance(c, [tx[c] EXCEPT !.phase = p, !.revision = n]),
               (\/ p \in {"updateEnvironment", "commit"}
                \/ tx[c].event # "rollback")
                 => \A d \in Clients : d # c /\ HoldsEntry(d) => tx[d].key # tx[c].key
        PROVE  RInv'
    <3> DEFINE t == [tx[c] EXCEPT !.phase = p, !.revision = n]
    <3>1. /\ t \in Transactions
          /\ t.phase = p /\ t.value = tx[c].value
          /\ t.key = tx[c].key /\ t.from = tx[c].from /\ t.event = tx[c].event
          /\ t.base = tx[c].base /\ t.expected = tx[c].expected /\ t.audit = tx[c].audit
      BY DEF Transactions, Phases
    <3> HIDE DEF t
    <3>2. WriteNamed(t) /\ TargetRestored(t)
      BY <1>1, <2>1, <3>1 DEF WriteNamed, TargetRestored
    <3>3. QED
      BY <2>1, <3>1, <3>2, AdvanceRecords DEF t
  <2>2. tx[c].revision \in Nat /\ revision \in Nat /\ revision + 1 \in Nat
    BY DEF Transactions, VInv, TypeOK
  <2>3. \A p \in Phases :
          [tx[c] EXCEPT !.phase = p] = [tx[c] EXCEPT !.phase = p, !.revision = tx[c].revision]
    BY DEF Transactions
  <2>4. (\/ HoldsEntry(c)
         \/ tx[c].phase \in {"writeEntry", "updateEntry"} /\ Unblocked(c))
          => \A d \in Clients : d # c /\ HoldsEntry(d) => tx[d].key # tx[c].key
    BY DEF RInv, EntryLocksExclusive, Unblocked, Waits
  <2>5. CASE WriteEntry(c)
    BY <1>2, <2>1, <2>2, <2>3, <2>4, <2>5 DEF WriteEntry, Outcomes, Phases
  <2>6. CASE InsertVersion(c)
    BY <1>2, <2>1, <2>2, <2>3, <2>4, <2>6 DEF InsertVersion, Outcomes, Phases, HoldsEntry
  <2>7. CASE UpdateEntry(c)
    BY <2>1, <2>2, <2>3, <2>4, <2>7 DEF UpdateEntry, Phases
  <2>8. CASE UpdateEnvironment(c)
    BY <2>1, <2>2, <2>4, <2>8 DEF UpdateEnvironment, HoldsEntry
  <2>9. QED
    BY <1>4, <2>5, <2>6, <2>7, <2>8
<1>5. QED
  BY <1>3, <1>4

\* What a commit makes of the versions, for its own entry and for the others.
LEMMA CommitVersions ==
    ASSUME VInv, NEW c \in Clients, Commit(c), NEW k \in Keys
    PROVE  /\ k = tx[c].key =>
                /\ CurrentVersion(k)' = tx[c].base + 1
                /\ PointedVersion(k)' = tx[c].base + 1
                /\ VersionsOf(k)' = VersionsOf(k) \cup {NewVersion(c)}
           /\ k # tx[c].key =>
                /\ CurrentVersion(k)' = CurrentVersion(k)
                /\ PointedVersion(k)' = PointedVersion(k)
                /\ VersionsOf(k)' = VersionsOf(k)
<1>1. /\ tx[c].base \in Nat /\ tx[c].value \in Values
      /\ NewVersion(c) \in VersionRows
      /\ NewVersion(c).key = tx[c].key /\ NewVersion(c).version = tx[c].base + 1
  BY CommitFacts
<1>2. /\ entries' = [entries EXCEPT ![tx[c].key] = EntryRow(c)]
      /\ entries \in [Keys -> EntryRows \cup {None}]
      /\ versions' = versions \cup {NewVersion(c)}
  BY DEF Commit, VInv, TypeOK
<1>3. /\ EntryRow(c) \in EntryRows
      /\ EntryRow(c).currentVersion = tx[c].base + 1
      /\ EntryRow(c).current.version = tx[c].base + 1
  BY <1>1 DEF EntryRow, EntryRows
<1>4. CASE k = tx[c].key
  <2>1. entries'[k] = EntryRow(c) /\ EntryRow(c) # None
    BY <1>2, <1>3, <1>4, NoneAssumption
  <2>2. VersionsOf(k)' = VersionsOf(k) \cup {NewVersion(c)}
    BY <1>1, <1>2, <1>4 DEF VersionsOf
  <2>3. QED
    BY <1>3, <1>4, <2>1, <2>2 DEF CurrentVersion, PointedVersion
<1>5. CASE k # tx[c].key
  <2>1. entries'[k] = entries[k]
    BY <1>2, <1>5
  <2>2. VersionsOf(k)' = VersionsOf(k)
    BY <1>1, <1>2, <1>5 DEF VersionsOf
  <2>3. QED
    BY <1>5, <2>1, <2>2 DEF CurrentVersion, PointedVersion
<1>6. QED
  BY <1>4, <1>5

\* What a commit adds to the log of events and to the audit log.
LEMMA CommitRows ==
    ASSUME VInv, NEW c \in Clients, Commit(c)
    PROVE  /\ outbox' = outbox \cup {Event(c)}
           /\ auditLog' = auditLog \cup {AuditRow(c)}
           /\ revision' = revision + 1
           /\ Event(c) \in ConfigEvents
           /\ Event(c).type = tx[c].event /\ Event(c).key = tx[c].key
           /\ Event(c).version = tx[c].base + 1 /\ Event(c).revision = revision + 1
           /\ AuditRow(c).type = tx[c].audit /\ AuditRow(c).expected = tx[c].expected
           /\ AuditRow(c).revision = revision + 1
<1>1. tx[c] \in Transactions
  BY DEF VInv, TypeOK
<1>2. /\ tx[c].key \in Keys /\ tx[c].value \in Values /\ tx[c].base \in Nat
      /\ tx[c].revision = revision + 1
      /\ revision + 1 \in Nat
  BY CommitFacts DEF VInv, TypeOK
<1>3. QED
  BY <1>1, <1>2 DEF Commit, Event, AuditRow, ConfigEvents, Transactions

\* A commit keeps the records: its event and its audit row carry a revision no
\* other row has, and its version is the newest of its entry.
LEMMA CommitRecords ==
    ASSUME VInv, RInv, NEW c \in Clients, Commit(c)
    PROVE  RInv'
<1>0. PICK k \in Keys : k = tx[c].key
  BY CommitFacts
<1>1. /\ tx[c].base \in Nat
      /\ tx[c].base = CurrentVersion(k)
  BY <1>0, CommitFacts
<1>2. /\ tx \in [Clients -> Transactions]
      /\ tx' = [tx EXCEPT ![c] = NoTransaction]
      /\ snapshot' = snapshot /\ snapshot \in [Readers -> Snapshots]
      /\ revision \in Nat
      /\ outbox \in SUBSET ConfigEvents /\ auditLog \in SUBSET AuditRows
  BY DEF VInv, TypeOK, Commit
<1>3. /\ outbox' = outbox \cup {Event(c)}
      /\ auditLog' = auditLog \cup {AuditRow(c)}
      /\ revision' = revision + 1
      /\ Event(c).type = tx[c].event /\ Event(c).key = k
      /\ Event(c).version = tx[c].base + 1 /\ Event(c).revision = revision + 1
      /\ AuditRow(c).type = tx[c].audit /\ AuditRow(c).expected = tx[c].expected
      /\ AuditRow(c).revision = revision + 1
  BY <1>0, CommitRows
<1>4. \A j \in Keys :
        /\ CurrentVersion(j) \in Nat
        /\ CurrentVersion(j)' = IF j = k THEN tx[c].base + 1 ELSE CurrentVersion(j)
        /\ PointedVersion(j)' = IF j = k THEN tx[c].base + 1 ELSE PointedVersion(j)
        /\ VersionsOf(j) \subseteq VersionsOf(j)'
  BY <1>0, CommitVersions, CurrentVersionType DEF VInv
<1>5. NoTransaction.phase = "idle"
  BY DEF NoTransaction
<1>6. /\ \A e \in outbox : /\ e.key \in Keys /\ e.version \in Nat
                           /\ e.version <= CurrentVersion(e.key)
                           /\ e.revision \in Nat /\ e.revision <= revision
      /\ \A a \in auditLog : a.revision \in Nat /\ a.revision <= revision
      /\ \A r \in Readers : snapshot[r].revision \in Nat /\ snapshot[r].revision <= revision
  BY <1>2 DEF VInv, RInv, RecordsCurrent, OneEventPerRevision, ConfigEvents, AuditRows,
              Snapshots
<1>7. RecordsCurrent'
  <2>1. \A j \in Keys : PointedVersion(j)' = CurrentVersion(j)'
    BY <1>4 DEF RInv, RecordsCurrent
  <2>2. \A e \in outbox' : e.version <= CurrentVersion(e.key)'
    <3>1. ASSUME NEW e \in outbox
          PROVE  e.version <= CurrentVersion(e.key)'
      <4>0. PICK j \in Keys : j = e.key
        BY <1>6
      <4>1. QED
        BY <1>1, <1>4, <1>6, <4>0
    <3>2. ASSUME NEW e, e = Event(c)
          PROVE  e.version <= CurrentVersion(e.key)'
      <4>1. e.key = k /\ e.version = tx[c].base + 1
        BY <1>3, <3>2
      <4>2. CurrentVersion(k)' = tx[c].base + 1
        BY <1>4
      <4>3. QED
        BY <1>1, <4>1, <4>2
    <3>3. QED
      BY <1>3, <3>1, <3>2
  <2>3. \A a \in auditLog' : a.revision \in 1..revision'
    BY <1>2, <1>3, <1>6 DEF RInv, RecordsCurrent
  <2>4. \A r \in Readers : snapshot'[r].revision <= revision'
    BY <1>2, <1>3, <1>6
  <2>5. QED
    BY <2>1, <2>2, <2>3, <2>4 DEF RecordsCurrent
<1>8. WritesDescribed'
  <2> SUFFICES ASSUME NEW d \in Clients, tx'[d].phase # "idle"
               PROVE  (WriteNamed(tx[d]) /\ TargetRestored(tx[d]))'
    BY DEF WritesDescribed
  <2>1. d # c /\ tx'[d] = tx[d]
    BY <1>2, <1>5
  <2>2. PICK j \in Keys : j = tx[d].key
    BY <2>1 DEF VInv, TransactionsBound
  <2>3. WriteNamed(tx[d]) /\ TargetRestored(tx[d])
    BY <2>1 DEF RInv, WritesDescribed
  <2>4. VersionsOf(j) \subseteq VersionsOf(j)'
    BY <1>4
  <2>5. WriteNamed(tx[d])'
    BY <2>1, <2>3 DEF WriteNamed
  <2>6. TargetRestored(tx[d])'
    BY <2>1, <2>2, <2>3, <2>4 DEF TargetRestored, VersionsOf
  <2>7. QED
    BY <2>5, <2>6
<1>9. EntryLocksExclusive'
  <2>1. NoTransaction.event # "rollback"
    BY DEF NoTransaction
  <2>2. QED
    BY <1>2, <1>5 DEF RInv, EntryLocksExclusive, HoldsEntry
<1>10. SnapshotCoversRevision'
  BY <1>2, <1>3, <1>6 DEF RInv, SnapshotCoversRevision
<1>11. AuditAgreesWithEvent'
  <2>1. tx[c].expected \in Nat => tx[c].audit = tx[c].event
    BY DEF RInv, WritesDescribed, WriteNamed, Commit
  <2>2. QED
    BY <1>2, <1>3, <1>6, <2>1 DEF RInv, AuditAgreesWithEvent
<1>12. QED
  BY <1>7, <1>8, <1>9, <1>10, <1>11 DEF RInv

\* A snapshot read: the revision it begins with is the newest one, and the
\* versions it goes on to read hold every write up to that revision.
LEMMA SnapshotRecords ==
    ASSUME VInv, RInv, NEW r \in Readers,
           SnapshotSelectEnvironment(r) \/ SnapshotSelectEntries(r)
    PROVE  RInv'
<1>1. /\ UNCHANGED <<entries, versions, revision, outbox, auditLog, tx>>
      /\ revision \in Nat
      /\ snapshot \in [Readers -> Snapshots]
      /\ outbox \in SUBSET ConfigEvents
  BY DEF VInv, TypeOK, SnapshotSelectEnvironment, SnapshotSelectEntries, committed
<1>2. WritesDescribed' /\ EntryLocksExclusive' /\ AuditAgreesWithEvent'
  BY <1>1
     DEF RInv, WritesDescribed, WriteNamed, TargetRestored, VersionsOf,
         EntryLocksExclusive, HoldsEntry, AuditAgreesWithEvent
<1>3. CASE SnapshotSelectEnvironment(r)
  <2>1. \A q \in Readers :
          IF q = r THEN snapshot'[q].phase = "entries" /\ snapshot'[q].revision = revision
                   ELSE snapshot'[q] = snapshot[q]
    BY <1>1, <1>3 DEF SnapshotSelectEnvironment
  <2>2. RecordsCurrent'
    BY <1>1, <2>1 DEF RInv, RecordsCurrent, PointedVersion, CurrentVersion
  <2>3. SnapshotCoversRevision'
    BY <1>1, <2>1 DEF RInv, SnapshotCoversRevision
  <2>4. QED
    BY <1>2, <2>2, <2>3 DEF RInv
<1>4. CASE SnapshotSelectEntries(r)
  <2>1. \A q \in Readers :
          IF q = r THEN /\ snapshot'[q].revision = snapshot[q].revision
                        /\ \A k \in Keys : snapshot'[q].versions[k] = PointedVersion(k)
                   ELSE snapshot'[q] = snapshot[q]
    BY <1>1, <1>4 DEF SnapshotSelectEntries, Snapshots
  <2>2. RecordsCurrent'
    BY <1>1, <2>1 DEF RInv, RecordsCurrent, PointedVersion, CurrentVersion
  <2>3. \A e \in outbox : e.key \in Keys /\ PointedVersion(e.key) >= e.version
    <3>1. \A e \in outbox : /\ e.key \in Keys /\ e.version \in Nat
                            /\ PointedVersion(e.key) = CurrentVersion(e.key)
                            /\ e.version <= CurrentVersion(e.key)
      BY <1>1 DEF RInv, RecordsCurrent, ConfigEvents
    <3>2. \A k \in Keys : CurrentVersion(k) \in Nat
      BY CurrentVersionType DEF VInv
    <3>3. QED
      BY <3>1, <3>2
  <2>4. SnapshotCoversRevision'
    BY <1>1, <2>1, <2>3 DEF RInv, SnapshotCoversRevision
  <2>5. QED
    BY <1>2, <2>2, <2>4 DEF RInv
<1>5. QED
  BY <1>3, <1>4

\* The whole invariant holds in every reachable state.
LEMMA Invariance == Spec => []IInv
<1>1. Init => RInv
  <2> SUFFICES ASSUME Init
               PROVE  RInv
    OBVIOUS
  <2>1. NoTransaction.phase = "idle"
    BY DEF NoTransaction
  <2>2. QED
    BY <2>1
       DEF Init, RInv, RecordsCurrent, WritesDescribed, EntryLocksExclusive, HoldsEntry,
           SnapshotCoversRevision, AuditAgreesWithEvent, PointedVersion, CurrentVersion
<1>2. VInv /\ RInv /\ [Next]_vars => RInv'
  <2> SUFFICES ASSUME VInv, RInv, [Next]_vars
               PROVE  RInv'
    OBVIOUS
  <2>1. ASSUME NEW c \in Clients, Request(c)
        PROVE  RInv'
    BY <2>1, RequestRecords
  <2>2. ASSUME NEW c \in Clients, Statement(c)
        PROVE  RInv'
    BY <2>2, StatementRecords, CommitRecords DEF Statement
  <2>3. ASSUME NEW c \in Clients, Fail(c) \/ DeadlockDetected(c)
        PROVE  RInv'
    BY <2>3, AbandonRecords DEF Fail, DeadlockDetected, Outcomes
  <2>4. ASSUME NEW r \in Readers,
               SnapshotSelectEnvironment(r) \/ SnapshotSelectEntries(r)
        PROVE  RInv'
    BY <2>4, SnapshotRecords
  <2>5. CASE UNCHANGED vars
    BY <2>5
       DEF vars, RInv, RecordsCurrent, WritesDescribed, WriteNamed, TargetRestored,
           VersionsOf, EntryLocksExclusive, HoldsEntry, SnapshotCoversRevision,
           AuditAgreesWithEvent, PointedVersion, CurrentVersion
  <2>6. QED
    BY <2>1, <2>2, <2>3, <2>4, <2>5 DEF Next
<1>3. QED
  BY <1>1, <1>2, VersionsInvariance, PTL DEF Spec, IInv

\* A snapshot that says revision n holds every write of revision n or less,
\* although its two SELECTs run outside any transaction.
THEOREM SnapshotsCoverTheirRevision == Spec => []SnapshotCoversRevision
<1>1. IInv => SnapshotCoversRevision
  BY DEF IInv, RInv
<1>2. QED
  BY <1>1, Invariance, PTL

\* For a write that named its expected version, the audit row and the event
\* agree on what kind of write it was.
THEOREM AuditsAgreeWithEvents == Spec => []AuditAgreesWithEvent
<1>1. IInv => AuditAgreesWithEvent
  BY DEF IInv, RInv
<1>2. QED
  BY <1>1, Invariance, PTL

-----------------------------------------------------------------------------
(* Waiting and failing.                                                    *)

\* Transactions wait in a circle only as pairs, each an upsert against a
\* rollback that read the same version of the same entry.
THEOREM WaitCyclesArePairs == Spec => []WaitCyclesAreUpsertAgainstRollback
<1>1. ASSUME IInv, NEW S \in SUBSET Clients, WaitCycle(S), NEW c \in S
      PROVE  \E d \in S : UpsertAgainstRollback(c, d) \/ UpsertAgainstRollback(d, c)
  <2>1. \A x \in S : (\E y \in S : Waits(x, y)) /\ (\E y \in S : Waits(y, x))
    BY <1>1 DEF WaitCycle
  <2>2. \A x \in S : tx[x] \in Transactions
    BY <1>1 DEF IInv, VInv, TypeOK
  <2>3. \A x \in S : tx[x].phase # "commit"
    BY <2>1 DEF Waits
  <2>4. \A x \in S : tx[x].phase # "updateEnvironment"
    BY <2>1, <2>3 DEF Waits, HoldsEnvironment
  <2>5. \A x \in S :
          \/ tx[x].phase = "insertVersion" /\ tx[x].event # "rollback"
          \/ tx[x].phase = "updateEntry"
    BY <2>1, <2>3, <2>4 DEF Waits, HoldsEntry, HoldsVersion, HoldsEnvironment
  <2>6. ASSUME NEW x \in S, tx[x].phase = "updateEntry"
        PROVE  tx[x].event = "rollback"
    <3>1. PICK y \in S : Waits(x, y)
      BY <2>1
    <3>2. HoldsEntry(y) /\ y # x /\ tx[y].key = tx[x].key
      BY <2>6, <3>1 DEF Waits
    <3>3. ~HoldsEntry(x)
      BY <1>1, <3>2 DEF IInv, RInv, EntryLocksExclusive
    <3>4. QED
      BY <2>6, <3>3 DEF HoldsEntry
  <2>7. ASSUME NEW x \in S, tx[x].phase = "insertVersion",
               NEW y \in S, Waits(x, y)
        PROVE  UpsertAgainstRollback(x, y)
    <3>1. /\ tx[y].key = tx[x].key /\ tx[y].base = tx[x].base
          /\ tx[y].phase = "updateEntry"
      BY <2>3, <2>4, <2>7 DEF Waits, HoldsVersion
    <3>2. tx[y].event = "rollback"
      BY <2>6, <3>1
    <3>3. WriteNamed(tx[x]) /\ WriteNamed(tx[y])
      BY <1>1, <2>7, <3>1 DEF IInv, RInv, WritesDescribed
    <3>4. tx[x].event # "created" /\ tx[x].event # "rollback"
      BY <2>5, <2>7, <3>1, <3>2, <3>3 DEF WriteNamed
    <3>5. tx[x].event = "updated"
      BY <2>2, <3>4 DEF Transactions, EventTypes
    <3>6. QED
      BY <2>7, <3>1, <3>2, <3>5 DEF UpsertAgainstRollback
  <2>8. CASE tx[c].phase = "insertVersion"
    BY <2>1, <2>7, <2>8
  <2>9. CASE tx[c].phase = "updateEntry"
    <3>1. PICK e \in S : Waits(c, e)
      BY <2>1
    <3>2. HoldsEntry(e) /\ tx[e].key = tx[c].key
      BY <2>9, <3>1 DEF Waits
    <3>3. tx[e].phase = "insertVersion"
      BY <2>5, <2>6, <3>2 DEF HoldsEntry
    <3>4. PICK d \in S : Waits(e, d)
      BY <2>1
    <3>5. UpsertAgainstRollback(e, d)
      BY <2>7, <3>3, <3>4
    <3>6. d = c
      <4>1. HoldsVersion(c) /\ HoldsVersion(d) /\ tx[d].key = tx[c].key
        BY <2>9, <3>2, <3>5 DEF HoldsVersion, UpsertAgainstRollback
      <4>2. QED
        BY <1>1, <4>1 DEF IInv, VInv, LocksExclusive
    <3>7. QED
      BY <3>5, <3>6
  <2>10. QED
    BY <2>5, <2>8, <2>9
<1>2. IInv => WaitCyclesAreUpsertAgainstRollback
  BY <1>1 DEF WaitCyclesAreUpsertAgainstRollback
<1>3. QED
  BY <1>2, Invariance, PTL

\* The steps that answer "duplicate" are those of the two INSERTs.
LEMMA DuplicateSteps ==
    ASSUME [Next]_vars, outcome' = "duplicate", NEW c \in Clients,
           tx \in [Clients -> Transactions], tx'[c] # tx[c]
    PROVE  \/ WriteEntry(c) /\ tx[c].event = "created" /\ entries[tx[c].key] # None
           \/ /\ InsertVersion(c)
              /\ \E r \in VersionsOf(tx[c].key) : r.version = tx[c].base + 1
<1>1. ASSUME NEW d \in Clients, Request(d)
      PROVE  FALSE
  BY <1>1
     DEF Request, UpsertSelect, UpsertConflict, RollbackSelect, RollbackConflict,
         RollbackEntryNotFound, Advance, Abandon
<1>2. ASSUME NEW d \in Clients, SelectTarget(d)
      PROVE  FALSE
  BY <1>2 DEF SelectTarget, Advance, Abandon
<1>3. ASSUME NEW d \in Clients, UpdateEntry(d) \/ UpdateEnvironment(d) \/ Commit(d)
      PROVE  FALSE
  BY <1>3 DEF UpdateEntry, UpdateEnvironment, Commit, Advance
<1>4. ASSUME NEW d \in Clients, Fail(d) \/ DeadlockDetected(d)
      PROVE  FALSE
  BY <1>4 DEF Fail, DeadlockDetected, Abandon
<1>5. ASSUME NEW d \in Clients, WriteEntry(d)
      PROVE  WriteEntry(c) /\ tx[c].event = "created" /\ entries[tx[c].key] # None
  <2>1. tx[d].event = "created" /\ entries[tx[d].key] # None /\ Abandon(d, "duplicate")
    BY <1>5 DEF WriteEntry, Advance
  <2>2. d = c
    BY <2>1 DEF Abandon
  <2>3. QED
    BY <1>5, <2>1, <2>2
<1>6. ASSUME NEW d \in Clients, InsertVersion(d)
      PROVE  InsertVersion(c) /\ \E r \in VersionsOf(tx[c].key) : r.version = tx[c].base + 1
  <2>1. /\ \E r \in VersionsOf(tx[d].key) : r.version = tx[d].base + 1
        /\ Abandon(d, "duplicate")
    BY <1>6 DEF InsertVersion, Advance
  <2>2. d = c
    BY <2>1 DEF Abandon
  <2>3. QED
    BY <1>6, <2>1, <2>2
<1>7. ASSUME NEW r \in Readers, SnapshotSelectEnvironment(r) \/ SnapshotSelectEntries(r)
      PROVE  FALSE
  BY <1>7 DEF SnapshotSelectEnvironment, SnapshotSelectEntries
<1>8. ~UNCHANGED vars
  BY DEF vars
<1>9. QED
  BY <1>1, <1>2, <1>3, <1>4, <1>5, <1>6, <1>7, <1>8 DEF Next, Statement

\* A duplicate key is only reported to a transaction whose entry has moved on
\* since it was read.
THEOREM DuplicatesAreReal == Spec => NoSpuriousDuplicate
<1> DEFINE MovedOn(c) == outcome' = "duplicate" /\ tx'[c] # tx[c]
                           => CurrentVersion(tx[c].key) > tx[c].base
<1>1. ASSUME IInv, [Next]_vars, NEW c \in Clients
      PROVE  MovedOn(c)
  <2> SUFFICES ASSUME outcome' = "duplicate", tx'[c] # tx[c]
               PROVE  CurrentVersion(tx[c].key) > tx[c].base
    OBVIOUS
  <2>1. tx \in [Clients -> Transactions] /\ tx[c] \in Transactions
    BY <1>1 DEF IInv, VInv, TypeOK
  <2>2. \/ WriteEntry(c) /\ tx[c].event = "created" /\ entries[tx[c].key] # None
        \/ /\ InsertVersion(c)
           /\ \E r \in VersionsOf(tx[c].key) : r.version = tx[c].base + 1
    BY <1>1, <2>1, DuplicateSteps
  <2>3. tx[c].phase # "idle"
    BY <2>2 DEF WriteEntry, InsertVersion
  <2>4. PICK k \in Keys : k = tx[c].key
    BY <1>1, <2>3 DEF IInv, VInv, TransactionsBound
  <2>5. CurrentVersion(k) \in Nat /\ tx[c].base \in Nat
    BY <1>1, <2>1, CurrentVersionType DEF IInv, VInv, Transactions
  <2>6. CASE tx[c].event = "created" /\ entries[k] # None
    <3>1. tx[c].base = 0
      BY <1>1, <2>3, <2>6 DEF IInv, RInv, WritesDescribed, WriteNamed
    <3>2. CurrentVersion(k) > 0
      BY <1>1, <2>6 DEF IInv, VInv, EntriesHaveVersions, CurrentVersion
    <3>3. QED
      BY <2>4, <3>1, <3>2
  <2>7. CASE \E r \in VersionsOf(k) : r.version = tx[c].base + 1
    <3>1. tx[c].base + 1 \in 1..CurrentVersion(k)
      BY <1>1, <2>7 DEF IInv, VInv, VersionsContiguous
    <3>2. QED
      BY <2>4, <2>5, <3>1
  <2>8. QED
    BY <2>2, <2>4, <2>6, <2>7
<1>2. IInv /\ [Next]_vars => [\A c \in Clients : MovedOn(c)]_vars
  BY <1>1
<1>3. QED
  BY <1>2, Invariance, PTL DEF Spec, NoSpuriousDuplicate

-----------------------------------------------------------------------------
(* The refinement of ConfigStore.  History(k) and Log are what the mapping *)
(* of Store makes of the tables.                                           *)

History(k) == [n \in 1..CurrentVersion(k) |-> VersionRow(k, n).value]

Announcement(n) == [type |-> EventOf(n).type, key |-> EventOf(n).key,
                    version |-> EventOf(n).version]

Announcements == [type : EventTypes, key : Keys, version : Nat]

Log == [n \in 1..revision |-> Announcement(n)]

MappedTypes ==
    /\ \A k \in Keys : History(k) \in Seq(Values) /\ Len(History(k)) = CurrentVersion(k)
    /\ Log \in Seq(Announcements) /\ Len(Log) = revision

MappedRows ==
    /\ \A k \in Keys : \A r \in VersionsOf(k) : VersionRow(k, r.version) = r
    /\ \A e \in outbox : EventOf(e.revision) = e

\* A function on 1..m is a sequence of length m.
LEMMA FunctionIsSeq ==
    ASSUME NEW S, NEW m \in Nat, NEW f \in [1..m -> S]
    PROVE  f \in Seq(S) /\ Len(f) = m
<1>1. f \in Seq(S)
  BY SeqDef
<1>2. Len(f) \in Nat /\ DOMAIN f = 1..Len(f)
  BY <1>1, LenProperties
<1>3. 1..m = 1..Len(f)
  BY <1>2
<1>4. QED
  BY <1>1, <1>2, <1>3

\* A sequence that is another one with one more element is what Append makes.
LEMMA AppendPointwise ==
    ASSUME NEW S, NEW s \in Seq(S), NEW t \in Seq(S), NEW e \in S,
           Len(t) = Len(s) + 1, t[Len(s) + 1] = e,
           \A i \in 1..Len(s) : t[i] = s[i]
    PROVE  t = Append(s, e)
<1>1. Len(s) \in Nat
  BY LenProperties
<1>2. /\ Append(s, e) \in Seq(S)
      /\ Len(Append(s, e)) = Len(s) + 1
      /\ \A i \in 1..Len(s) : Append(s, e)[i] = s[i]
      /\ Append(s, e)[Len(s) + 1] = e
  BY AppendProperties
<1>3. \A i \in 1..Len(t) : t[i] = Append(s, e)[i]
  BY <1>1, <1>2
<1>4. QED
  BY <1>2, <1>3, SeqEqual

\* CHOOSE finds the one row of a version, and the one event of a revision.
LEMMA ChosenRow ==
    ASSUME NEW R, NEW n, NEW r \in R, r.version = n, \A s \in R : s.version = n => s = r
    PROVE  (CHOOSE s \in R : s.version = n) = r
OBVIOUS

LEMMA ChosenEvent ==
    ASSUME NEW R, NEW n, NEW e \in R, e.revision = n,
           \A f \in R : f.revision = n => f = e
    PROVE  (CHOOSE f \in R : f.revision = n) = e
OBVIOUS

\* A version number names one row of its entry, a revision one event.
LEMMA RowsAreFound == VInv => MappedRows
<1> SUFFICES ASSUME VInv
             PROVE  MappedRows
  OBVIOUS
<1>1. ASSUME NEW k \in Keys, NEW r \in VersionsOf(k)
      PROVE  VersionRow(k, r.version) = r
  <2>1. \A s \in VersionsOf(k) : s.version = r.version => s = r
    BY DEF VInv, VersionsContiguous
  <2>2. QED
    BY <2>1, ChosenRow DEF VersionRow
<1>2. ASSUME NEW e \in outbox
      PROVE  EventOf(e.revision) = e
  <2>1. \A f \in outbox : f.revision = e.revision => f = e
    BY DEF VInv, OneEventPerRevision
  <2>2. QED
    BY <2>1, ChosenEvent DEF EventOf
<1>3. QED
  BY <1>1, <1>2 DEF MappedRows

\* The mapped tables are sequences, as long as the numbers in the rows say.
LEMMA TablesAreSequences == VInv => MappedTypes
<1> SUFFICES ASSUME VInv
             PROVE  MappedTypes
  OBVIOUS
<1>1. ASSUME NEW k \in Keys
      PROVE  History(k) \in Seq(Values) /\ Len(History(k)) = CurrentVersion(k)
  <2>1. CurrentVersion(k) \in Nat
    BY CurrentVersionType DEF VInv
  <2>2. ASSUME NEW n \in 1..CurrentVersion(k)
        PROVE  VersionRow(k, n).value \in Values
    <3>1. PICK r \in VersionsOf(k) : r.version = n
      BY DEF VInv, VersionsContiguous
    <3>2. VersionRow(k, n) = r
      BY <3>1, RowsAreFound DEF MappedRows
    <3>3. QED
      BY <3>2 DEF VInv, TypeOK, VersionsOf, VersionRows
  <2>3. History(k) \in [1..CurrentVersion(k) -> Values]
    BY <2>2 DEF History
  <2>4. QED
    BY <2>1, <2>3, FunctionIsSeq
<1>2. Log \in Seq(Announcements) /\ Len(Log) = revision
  <2>1. revision \in Nat
    BY DEF VInv, TypeOK
  <2>2. ASSUME NEW n \in 1..revision
        PROVE  Announcement(n) \in Announcements
    <3>1. PICK e \in outbox : e.revision = n
      BY DEF VInv, OneEventPerRevision
    <3>2. EventOf(n) = e
      BY <3>1, RowsAreFound DEF MappedRows
    <3>3. QED
      BY <3>2 DEF VInv, TypeOK, ConfigEvents, Announcement, Announcements
  <2>3. Log \in [1..revision -> Announcements]
    BY <2>2 DEF Log
  <2>4. QED
    BY <2>1, <2>3, FunctionIsSeq
<1>3. QED
  BY <1>1, <1>2 DEF MappedTypes

\* Rows that stay in the tables are mapped to what they were mapped to.
LEMMA MappedRowsKept ==
    ASSUME VInv, VInv'
    PROVE  /\ \A k \in Keys : VersionsOf(k) \subseteq VersionsOf(k)' =>
                \A n \in 1..CurrentVersion(k) : VersionRow(k, n)' = VersionRow(k, n)
           /\ outbox \subseteq outbox' =>
                \A n \in 1..revision : Announcement(n)' = Announcement(n)
<1>1. MappedRows /\ MappedRows'
  BY RowsAreFound, PTL
<1>2. ASSUME NEW k \in Keys, VersionsOf(k) \subseteq VersionsOf(k)',
             NEW n \in 1..CurrentVersion(k)
      PROVE  VersionRow(k, n)' = VersionRow(k, n)
  <2>1. PICK r \in VersionsOf(k) : r.version = n
    BY DEF VInv, VersionsContiguous
  <2>2. VersionRow(k, n) = r /\ VersionRow(k, n)' = r
    BY <1>1, <1>2, <2>1 DEF MappedRows
  <2>3. QED
    BY <2>2
<1>3. ASSUME outbox \subseteq outbox', NEW n \in 1..revision
      PROVE  Announcement(n)' = Announcement(n)
  <2>1. PICK e \in outbox : e.revision = n
    BY DEF VInv, OneEventPerRevision
  <2>2. EventOf(n) = e /\ EventOf(n)' = e
    BY <1>1, <1>3, <2>1 DEF MappedRows
  <2>3. QED
    BY <2>2 DEF Announcement
<1>4. QED
  BY <1>2, <1>3

\* A step that leaves the tables alone is a stuttering step of ConfigStore.
LEMMA TablesKept ==
    ASSUME VInv, VInv', UNCHANGED committed
    PROVE  UNCHANGED Store!vars
<1>1. /\ UNCHANGED <<entries, versions, revision, outbox>>
  BY DEF committed
<1>2. \A k \in Keys : /\ VersionsOf(k)' = VersionsOf(k)
                      /\ CurrentVersion(k)' = CurrentVersion(k)
  BY <1>1 DEF VersionsOf, CurrentVersion
<1>3. \A k \in Keys : \A n \in 1..CurrentVersion(k) : VersionRow(k, n)' = VersionRow(k, n)
  BY <1>2, MappedRowsKept
<1>4. \A n \in 1..revision : Announcement(n)' = Announcement(n)
  BY <1>1, MappedRowsKept
<1>5. [k \in Keys |-> History(k)]' = [k \in Keys |-> History(k)]
  <2>1. \A k \in Keys : History(k)' = History(k)
    BY <1>2, <1>3 DEF History
  <2>2. QED
    BY <2>1
<1>6. Log' = Log
  BY <1>1, <1>4 DEF Log
<1>7. QED
  BY <1>5, <1>6 DEF Store!vars, History, Log, Announcement

\* A commit appends the value it wrote to the history of its entry.
LEMMA CommitHistory ==
    ASSUME VInv, VInv', NEW c \in Clients, Commit(c), NEW k \in Keys
    PROVE  /\ k = tx[c].key => History(k)' = Append(History(k), tx[c].value)
           /\ k # tx[c].key => History(k)' = History(k)
<1>1. /\ tx[c].base \in Nat /\ tx[c].value \in Values
      /\ k = tx[c].key => tx[c].base = CurrentVersion(k)
      /\ NewVersion(c).version = tx[c].base + 1
      /\ NewVersion(c).value = tx[c].value
  BY CommitFacts DEF NewVersion
<1>2. /\ k = tx[c].key => /\ CurrentVersion(k)' = tx[c].base + 1
                          /\ VersionsOf(k)' = VersionsOf(k) \cup {NewVersion(c)}
      /\ k # tx[c].key => /\ CurrentVersion(k)' = CurrentVersion(k)
                          /\ VersionsOf(k)' = VersionsOf(k)
  BY CommitVersions
<1>3. \A n \in 1..CurrentVersion(k) : VersionRow(k, n)' = VersionRow(k, n)
  BY <1>2, MappedRowsKept
<1>4. CurrentVersion(k) \in Nat
  BY CurrentVersionType DEF VInv
<1>5. CASE k # tx[c].key
  BY <1>2, <1>3, <1>5 DEF History
<1>6. CASE k = tx[c].key
  <2>1. /\ History(k) \in Seq(Values) /\ Len(History(k)) = CurrentVersion(k)
        /\ History(k)' \in Seq(Values) /\ Len(History(k)') = CurrentVersion(k)'
    <3>1. MappedTypes /\ MappedTypes'
      BY TablesAreSequences, PTL
    <3>2. QED
      BY <3>1 DEF MappedTypes
  <2>2. PICK r : r = NewVersion(c)
    OBVIOUS
  <2>3. VersionRow(k, r.version)' = r
    <3>1. MappedRows'
      BY RowsAreFound, PTL
    <3>2. QED
      BY <1>2, <1>6, <2>2, <3>1 DEF MappedRows
  <2>4. History(k)'[CurrentVersion(k) + 1] = tx[c].value
    <3>1. PICK m \in Nat : m = CurrentVersion(k) + 1 /\ m = r.version
      BY <1>1, <1>4, <1>6, <2>2
    <3>2. VersionRow(k, m)' = r /\ m \in 1..CurrentVersion(k)'
      BY <1>1, <1>2, <1>4, <1>6, <2>3, <3>1
    <3>3. QED
      BY <1>1, <2>2, <3>1, <3>2 DEF History
  <2>5. \A n \in 1..CurrentVersion(k) : History(k)'[n] = History(k)[n]
    BY <1>1, <1>2, <1>3, <1>4, <1>6 DEF History
  <2>6. PICK s \in Seq(Values), t \in Seq(Values) : s = History(k) /\ t = History(k)'
    BY <2>1
  <2>7. t = Append(s, tx[c].value)
    BY <1>1, <1>2, <1>6, <2>1, <2>4, <2>5, <2>6, AppendPointwise
  <2>8. QED
    BY <1>6, <2>6, <2>7
<1>7. QED
  BY <1>5, <1>6

\* A commit appends its event to the log.
LEMMA CommitLog ==
    ASSUME VInv, VInv', NEW c \in Clients, Commit(c)
    PROVE  Log' = Append(Log, [type |-> tx[c].event, key |-> tx[c].key,
                               version |-> tx[c].base + 1])
<1>1. PICK e : e = Event(c)
  OBVIOUS
<1> DEFINE new == [type |-> tx[c].event, key |-> tx[c].key, version |-> tx[c].base + 1]
<1>2. /\ outbox' = outbox \cup {e}
      /\ revision' = revision + 1 /\ revision \in Nat
      /\ e.type = tx[c].event /\ e.key = tx[c].key
      /\ e.version = tx[c].base + 1 /\ e.revision = revision + 1
      /\ e \in ConfigEvents
  BY <1>1, CommitRows DEF VInv, TypeOK
<1>3. new \in Announcements
  BY <1>2 DEF Announcements, ConfigEvents
<1>4. /\ Log \in Seq(Announcements) /\ Len(Log) = revision
      /\ Log' \in Seq(Announcements) /\ Len(Log') = revision'
  <2>1. MappedTypes /\ MappedTypes'
    BY TablesAreSequences, PTL
  <2>2. QED
    BY <2>1 DEF MappedTypes
<1>5. Log'[revision + 1] = new
  <2>1. MappedRows'
    BY RowsAreFound, PTL
  <2>2. PICK m \in Nat : m = revision + 1 /\ m = e.revision
    BY <1>2
  <2>3. EventOf(m)' = e
    BY <1>2, <2>1, <2>2 DEF MappedRows
  <2>4. Announcement(m)' = new
    BY <1>2, <2>3 DEF Announcement
  <2>5. m \in 1..revision'
    BY <1>2, <2>2
  <2> HIDE DEF new
  <2>6. QED
    BY <2>2, <2>4, <2>5 DEF Log
<1>6. \A n \in 1..revision : Log'[n] = Log[n]
  <2>1. \A n \in 1..revision : Announcement(n)' = Announcement(n)
    BY <1>2, MappedRowsKept
  <2>2. \A n \in 1..revision : n \in 1..revision'
    BY <1>2
  <2>3. QED
    BY <2>1, <2>2 DEF Log
<1>7. PICK s \in Seq(Announcements), t \in Seq(Announcements) : s = Log /\ t = Log'
  BY <1>4
<1> HIDE DEF new
<1>8. t = Append(s, new)
  BY <1>2, <1>3, <1>4, <1>5, <1>6, <1>7, AppendPointwise
<1>9. QED
  BY <1>7, <1>8 DEF new

\* A commit is a step of ConfigStore: an upsert, or a rollback to the version
\* whose value its transaction has read.
LEMMA CommitImplements ==
    ASSUME IInv, VInv', NEW c \in Clients, Commit(c)
    PROVE  Store!Next
<1>1. PICK k \in Keys : k = tx[c].key
  BY CommitFacts DEF IInv
<1>2. PICK v \in Values : v = tx[c].value
  BY CommitFacts DEF IInv
<1> DEFINE type == tx[c].event
           Histories == [j \in Keys |-> History(j)]
<1>3. /\ tx[c].base \in Nat /\ tx[c].base = CurrentVersion(k)
      /\ tx[c] \in Transactions
      /\ tx[c].phase = "commit"
      /\ WriteNamed(tx[c]) /\ TargetRestored(tx[c])
  BY <1>1, CommitFacts DEF IInv, VInv, RInv, TypeOK, WritesDescribed, Commit
<1>4. Len(History(k)) = tx[c].base /\ History(k) \in Seq(Values)
  BY <1>3, TablesAreSequences DEF MappedTypes, IInv
<1>5. Histories' = [Histories EXCEPT ![k] = Append(@, v)]
  <2>1. \A j \in Keys : History(j)' = IF j = k THEN Append(History(j), v) ELSE History(j)
    BY <1>1, <1>2, CommitHistory DEF IInv
  <2>2. QED
    BY <2>1
<1>6. Log' = Append(Log, [type |-> type, key |-> k, version |-> Len(History(k)) + 1])
  BY <1>1, <1>4, CommitLog DEF IInv
<1>7. Store!AppendVersion(k, v, type)
  <2>1. Histories[k] = History(k)
    OBVIOUS
  <2>2. QED
    BY <1>5, <1>6, <2>1 DEF Store!AppendVersion, History, Log, Announcement
<1>8. CASE type = "rollback"
  <2>1. PICK r \in VersionsOf(k) : r.version = tx[c].from /\ r.value = v
    BY <1>1, <1>2, <1>3, <1>8 DEF TargetRestored
  <2>2. PICK target : target = tx[c].from
    OBVIOUS
  <2>3. target \in 1..CurrentVersion(k)
    BY <2>1, <2>2 DEF IInv, VInv, VersionsContiguous
  <2>4. target \in 1..Len(Histories[k])
    BY <1>3, <1>4, <2>3
  <2>5. Histories[k][target] = v
    <3>1. VersionRow(k, target) = r
      BY <2>1, <2>2, RowsAreFound DEF IInv, MappedRows
    <3>2. QED
      BY <2>1, <2>3, <3>1 DEF History
  <2>6. Store!RollbackEntry(k, target)
    BY <1>7, <1>8, <2>4, <2>5 DEF Store!RollbackEntry, History
  <2>7. QED
    BY <2>4, <2>6 DEF Store!Next, History
<1>9. CASE type # "rollback"
  <2>1. type = IF tx[c].base = 0 THEN "created" ELSE "updated"
    BY <1>3, <1>9 DEF WriteNamed, Transactions, EventTypes
  <2>2. Histories[k] = <<>> <=> tx[c].base = 0
    BY <1>4, EmptySeq
  <2>3. Store!UpsertEntry(k, v)
    BY <1>7, <2>1, <2>2 DEF Store!UpsertEntry, History
  <2>4. QED
    BY <2>3 DEF Store!Next
<1>10. QED
  BY <1>8, <1>9

\* The interleaved transactions behave like the atomic writes of ConfigStore.
THEOREM TransactionsAreAtomicWrites == Spec => ImplementsStore
<1>1. Init => Store!Init
  <2> SUFFICES ASSUME Init
               PROVE  Store!Init
    OBVIOUS
  <2>1. \A k \in Keys : CurrentVersion(k) = 0
    BY DEF Init, CurrentVersion
  <2>2. \A k \in Keys : [n \in 1..CurrentVersion(k) |-> VersionRow(k, n).value] = <<>>
    BY <2>1
  <2>3. revision = 0
    BY DEF Init
  <2>4. Log = <<>>
    BY <2>3 DEF Log
  <2>5. QED
    BY <2>2, <2>4 DEF Store!Init, Log, Announcement
<1>2. IInv /\ IInv' /\ [Next]_vars => [Store!Next]_(Store!vars)
  <2> SUFFICES ASSUME IInv, IInv', [Next]_vars
               PROVE  Store!Next \/ UNCHANGED Store!vars
    OBVIOUS
  <2>1. ASSUME NEW c \in Clients, Commit(c)
        PROVE  Store!Next
    BY <2>1, CommitImplements DEF IInv
  <2>2. CASE \A c \in Clients : ~Commit(c)
    BY <2>2, OnlyCommitWrites, TablesKept DEF IInv
  <2>3. QED
    BY <2>1, <2>2
<1>3. QED
  BY <1>1, <1>2, Invariance, PTL DEF Spec, ImplementsStore, Store!Spec

================================================================================
