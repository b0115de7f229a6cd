\* Two tabs; one invitation, and two workspaces the user may create
SPECIFICATION Spec
CONSTANTS
    Tabs = {t1, t2}
    Orgs = {invited, own1, own2}
    Invited = invited
    None = None
SYMMETRY Symmetry
INVARIANTS
    JoinsAreAuditedOnce
PROPERTIES
    SecondWorkspacesOverlap
    RoleIsOfOrganization
    FixUpsRespectChoices
