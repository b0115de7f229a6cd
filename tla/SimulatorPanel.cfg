\* Two runs, each started anew, replaced, stopped or left; the token field is filled and emptied
SPECIFICATION FairSpec
CONSTANTS
    Tokens = {t1}
    None = None
    Refused = Refused
    Admitted = Admitted
    MaxRuns = 2
    MaxRevision = 2
INVARIANTS
    PanelShowsLastRun
    OpenStreamsAreExplained
PROPERTIES
    SnapshotsMoveForward
    LiveRunsConverge
\* The page may be closed.
CHECK_DEADLOCK FALSE
