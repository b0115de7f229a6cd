\* Two requests and a snapshot reader on two keys
SPECIFICATION FairSpec
CONSTANTS
    Clients = {c1, c2}
    Readers = {r1}
    Keys = {k1, k2}
    Values = {v1}
    None = None
    MaxRevision = 2
INVARIANTS
    IInv
    WaitCyclesAreUpsertAgainstRollback
    SnapshotCoversRevision
    AuditAgreesWithEvent
PROPERTIES
    NoLostUpdate
    NoSpuriousDuplicate
    ImplementsStore
    TransactionsEnd
