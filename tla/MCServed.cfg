SPECIFICATION FairSpec
CONSTANTS
    i1 = i1
    i2 = i2
    Issues = {i1, i2}
    Tasks = {t1, t2}
    Worlds <- ProgressWorlds
    MaxAgents = 1
    MaxRetries = 1
    EscalationMax = 2
    MaxEscalations = 1
    NoTask = NoTask
    NoIssue = NoIssue
    Orphan = Orphan
PROPERTIES EventuallyServed BlockerServed
