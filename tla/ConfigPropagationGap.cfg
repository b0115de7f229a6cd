SPECIFICATION FairPropagationSpec
CONSTANTS
    Clients = {c1}
    MaxRevision = 3
    MaxRecords = 4
PROPERTY
    RunningClientsConverge
\* The client may have given up, with nothing left to write or to send.
CHECK_DEADLOCK FALSE
