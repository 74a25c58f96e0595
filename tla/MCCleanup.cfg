CONSTANTS
    Runs = {r1}
    Foreign = {other}
    Nodes = {n1, n2}
    PerPage = 4
    DryRun = FALSE
SPECIFICATION FairSpec
INVARIANTS
    TypeOK
    LongRunningKept
    RecentRunsKept
PROPERTIES
    LeaksCollected
