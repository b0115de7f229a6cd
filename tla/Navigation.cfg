\* Two accounts and any four things their users do
SPECIFICATION FairSpec
CONSTANTS
    multi = multi
    newcomer = newcomer
    o1 = o1
    o2 = o2
    o3 = o3
    Accounts = {multi, newcomer}
    Orgs = {o1, o2, o3}
    None = None
    MemberOf <- MCMemberOf
    Privileged <- MCPrivileged
    MaxActions = 4
    MaxOutages = 1
PROPERTIES
    RedirectsEnd
    DestinationIsKept
\* The user may leave the tab.
CHECK_DEADLOCK FALSE
