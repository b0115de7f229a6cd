SPECIFICATION FairSpec
CONSTANTS
    Events = {v1}
    Endpoints = {e1}
    Slots = {s1}
    NoSlot = NoSlot
    MaxAttempts = 3
    MaxStalledCount = 1
    MaxEnqueueFaults = 0
    MaxDatabaseFaults = 1
    MaxSecretFaults = 0
    MaxLockFaults = 0
    MaxCrashes = 0
PROPERTY
    RefusedDeliveriesSettle
\* Everything may be delivered or given up.
CHECK_DEADLOCK FALSE
