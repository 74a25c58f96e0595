CONSTANTS
    Nodes = {n1, n2}
    Domains = {d1}
    Requests <- AllRequests
SPECIFICATION FairSpec
INVARIANTS
    TypeOK
    LoadTestKeepsItsTestnet
    AnsweredTasksAreRecorded
    UnprovisionedRunOwnsNothing
    CompletedMeansDone
    DropletsSwept
    NetworkFreed
PROPERTIES
    ImplementsRunLifecycle
    CancelledRunCloses
