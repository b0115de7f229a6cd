\* Clients do not interact: one is enough
SPECIFICATION FairPropagationSpec
CONSTANTS
    Clients = {c1}
    MaxRevision = 3
    MaxRecords = 5
INVARIANTS
    ConsumedEventsAreShown
PROPERTIES
    NoClientGoesBack
    SubscribedClientsConverge
\* The client may have given up, with nothing left to write or to send.
CHECK_DEADLOCK FALSE
