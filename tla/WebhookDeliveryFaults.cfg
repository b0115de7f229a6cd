SPECIFICATION FairSpec
CONSTANTS
    Events = {v1}
    Endpoints = {e1}
    Slots = {s1, s2}
    NoSlot = NoSlot
    MaxAttempts = 3
    MaxStalledCount = 1
    MaxEnqueueFaults = 1
    MaxDatabaseFaults = 2
    MaxSecretFaults = 1
    MaxLockFaults = 1
    MaxCrashes = 2
INVARIANTS
    DuplicatesAreExplained
    PendingRowsHaveJobs
PROPERTIES
    DeliveredRowsStay
    QueuedDeliveriesSettle
\* Everything may be delivered or given up.
CHECK_DEADLOCK FALSE
