\* Two submissions in two organisations, with two faults, or one and a switch, anywhere
SPECIFICATION Spec
CONSTANTS
    Orgs = {o1, o2}
    Roles = {member, admin}
    None = None
    MaxSubmits = 2
    MaxAttempts = 2
    SilentRefusals = TRUE
    MaxSwitches = 1
    MaxFaults = 2
SYMMETRY Symmetry
INVARIANTS
    QueuedNoticesAreTrue
    InvitationsGoWhereShown
    DoneJobsAreMailed
    MailsAreExplained
