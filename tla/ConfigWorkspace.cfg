\* One environment that is created, shared and left, and one entry of it
SPECIFICATION FairSpec
CONSTANTS
    a1 = a1
    a2 = a2
    e1 = e1
    x1 = x1
    k1 = k1
    Apps = {a1, a2}
    Envs = {e1}
    Entries = {x1}
    Tokens = {k1}
    Existing = {a1}
    AppOf <- MCAppOf
    EnvOf <- MCEnvOf
    None = None
    Idle = Idle
    MaxWrites = 3
    MaxMixed = 2
INVARIANTS
    OwnWritesAreShown
PROPERTIES
    WritesReplaceWhatWasShown
    SelectionStraysOnAnswers
    TablesConverge
